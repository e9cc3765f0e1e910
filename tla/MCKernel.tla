------------------------------ MODULE MCKernel ------------------------------
(***************************************************************************)
(* The parts of the kernel under the processes that share no state, in one *)
(* run: which of them a behaviour is about is chosen at its start.  The    *)
(* others stay as they began.                                              *)
(***************************************************************************)
EXTENDS Pipe, PipeCalls, TLC

CONSTANTS p1, p2, p3

VARIABLES part,          \* the part this is about
          q              \* the console's input

Input == INSTANCE InputQueue
         WITH LINE_MAX <- 3, QUEUE_MAX <- 3, SEQUENCE_MAX <- 3,
              Typed <- {"^C", "^D", "DEL", "CR", "LF", "ESC", "[", "a", "lead", "cont"}

Procs == {p1, p2, p3}
Symmetry == Permutations(Procs)

KernelInit ==
    /\ part \in {"ring", "input", "pipes"}
    /\ Init /\ (part # "ring" => memory = [x \in 0..SIZE - 1 |-> CHOOSE v \in Value : TRUE])
    /\ Input!Init
    /\ PipesInit

KernelNext ==
    /\ UNCHANGED part
    /\ \/ part = "ring" /\ Next /\ UNCHANGED <<q, s>>
       \/ part = "input" /\ Input!Next /\ UNCHANGED <<vars, s>>
       \/ part = "pipes" /\ PipesNext /\ UNCHANGED <<vars, q>>

KernelSpec == KernelInit /\ [][KernelNext]_<<part, vars, q, s>>

-----------------------------------------------------------------------------
(* What is typed is kept, within the limits, in one place and shown once,  *)
(* however the mode changes while it waits (input.rs, line.rs; see         *)
(* InputQueue's Bounded, OnePlace and EchoedOnce).                         *)
TypedOnce == Input!Bounded /\ Input!OnePlace /\ Input!EchoedOnce

(* To raw mode and back nothing that was typed is lost (set_line_mode).    *)
RoundTrip == Input!RoundTrip

(* The input queue does what the processes are modelled with.              *)
ImplementsTty == Input!ImplementsTty
=============================================================================
