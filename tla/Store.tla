------------------------------- MODULE Store -------------------------------
(***************************************************************************)
(* What the block cache of crates/ext2 promises the filesystem above it: a *)
(* store of blocks.  A read gives what was last written, whatever is       *)
(* cached, evicted or refused by the device; a call that fails changes no  *)
(* block; after a power cut every block holds the value it had at the last *)
(* successful sync or one written since.                                   *)
(***************************************************************************)
CONSTANTS Block,  \* the filesystem's blocks
          Value   \* what a block may hold

VARIABLES contents,  \* what a read of each block gives
          may,       \* what each block may hold after a power cut
          got,       \* what the last read returned
          ok         \* whether the last call succeeded

Init ==
    /\ contents \in [Block -> Value]
    /\ may = [b \in Block |-> {contents[b]}]
    /\ got \in Value
    /\ ok = TRUE

Get(b) ==
    /\ got' = contents[b]
    /\ ok' = TRUE
    /\ UNCHANGED <<contents, may>>

Put(b, v) ==
    /\ contents' = [contents EXCEPT ![b] = v]
    /\ \E kept \in SUBSET may[b] : may' = [may EXCEPT ![b] = kept \cup {v}]
    /\ ok' = TRUE
    /\ UNCHANGED got

Fail ==
    /\ ok' = FALSE
    /\ UNCHANGED <<contents, may, got>>

(* A sync that fails may still have secured some blocks. *)
Sync ==
    /\ UNCHANGED <<contents, got>>
    /\ ok' \in BOOLEAN
    /\ may' \in [Block -> SUBSET Value]
    /\ \A b \in Block : may'[b] = {contents[b]} \/ (~ok' /\ may'[b] = may[b])

(* The power goes, or the cache is dropped with what it had not written. *)
Forget ==
    /\ contents' \in [Block -> Value]
    /\ may' \in [Block -> SUBSET Value]
    /\ \A b \in Block : contents'[b] \in may'[b] /\ may'[b] \subseteq may[b]
    /\ ok' = TRUE
    /\ UNCHANGED got

Next ==
    \/ \E b \in Block : Get(b)
    \/ \E b \in Block, v \in Value : Put(b, v)
    \/ Fail
    \/ Sync
    \/ Forget

Spec == Init /\ [][Next]_<<contents, may, got, ok>>
=============================================================================
