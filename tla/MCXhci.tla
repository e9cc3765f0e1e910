------------------------------- MODULE MCXhci -------------------------------
(* Small instances of Xhci: what goes wrong at once is kept apart. *)
EXTENDS Xhci

B(usb3, plugs, aborts, uses, breaks) ==
    [usb3 |-> usb3, plugs |-> plugs, aborts |-> aborts, uses |-> uses, breaks |-> breaks]

Mixed == {B(TRUE, 1, 0, 0, FALSE), B(FALSE, 1, 0, 1, FALSE),
          B(FALSE, 0, 1, 2, FALSE), B(FALSE, 0, 0, 1, TRUE)}

(* A transfer, a clear_halt with a command that times out, a transfer. *)
OneAbort == {B(FALSE, 0, 1, 3, FALSE)}

(* A device that is plugged in again. *)
Replugged == {B(FALSE, 1, 0, 0, FALSE)}
=============================================================================
