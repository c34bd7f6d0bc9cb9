----------------------------- MODULE HciCommand -----------------------------
(***************************************************************************)
(* What the hci_* wrappers promise a caller that stops at the first        *)
(* failure, with neither events, filters nor time: commands go out one     *)
(* after the other, the next one only after the previous one was carried   *)
(* out, and a failure says nothing about the command it is about.          *)
(***************************************************************************)
EXTENDS Integers

VARIABLES
    cmd,    \* fate of each command in the controller
    res     \* what the caller was told of each of them

vars == <<cmd, res>>

Init ==
    /\ cmd = [c \in DOMAIN cmd |-> "unsent"]
    /\ res = [c \in DOMAIN cmd |-> "none"]

Issue(c) ==
    /\ cmd[c] = "unsent"
    /\ \A b \in DOMAIN cmd : b < c => cmd[b] = "done" /\ res[b] = "ok"
    /\ \A b \in DOMAIN cmd : b >= c => res[b] = "none"
    /\ cmd' = [cmd EXCEPT ![c] = "pending"]
    /\ res' = res

Execute(c) ==
    /\ cmd[c] = "pending"
    /\ \E fate \in {"done", "refused"} : cmd' = [cmd EXCEPT ![c] = fate]
    /\ res' = res

Succeed(c) ==
    /\ res[c] = "none"
    /\ cmd[c] = "done"
    /\ res' = [res EXCEPT ![c] = "ok"]
    /\ cmd' = cmd

\* The command may have been carried out, may still be, or was never sent.
Fail(c) ==
    /\ res[c] = "none"
    /\ \A b \in DOMAIN cmd : b < c => res[b] = "ok"
    /\ res' = [res EXCEPT ![c] = "fail"]
    /\ cmd' = cmd

Next == \E c \in DOMAIN cmd : Issue(c) \/ Execute(c) \/ Succeed(c) \/ Fail(c)

Spec == Init /\ [][Next]_vars
=============================================================================
