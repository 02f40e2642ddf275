--------------------------- MODULE CommandDelivery ---------------------------
(***************************************************************************)
(* What the router command queue promises its callers, without polls,      *)
(* batches, reports or clocks.                                             *)
(*                                                                         *)
(* A command that was submitted is open until it succeeds, fails for good  *)
(* or expires.  It succeeds only once it has really been carried out.      *)
(* Every failed attempt is counted and the command fails for good with the *)
(* last attempt it has.  Success and failure are final; expiry is not: a   *)
(* result that comes late, or a poll that had already selected the row,    *)
(* takes the command up again.                                             *)
(***************************************************************************)
EXTENDS Naturals

CONSTANTS
    Commands,     \* the commands
    MaxRetries    \* attempts a command has

VARIABLES
    verdict,      \* what is on record about each command
    tries,        \* its failed attempts
    done          \* the commands that have been carried out

vars == <<verdict, tries, done>>

Init ==
    /\ verdict = [c \in Commands |-> "none"]
    /\ tries = [c \in Commands |-> 0]
    /\ done = {}

Submit(c) ==
    /\ verdict[c] = "none"
    /\ verdict' = [verdict EXCEPT ![c] = "open"]
    /\ UNCHANGED <<tries, done>>

\* The effect of a command may be had more than once, and before or after it is
\* on record as expired or failed.
CarryOut(c) ==
    /\ verdict[c] # "none"
    /\ done' = done \cup {c}
    /\ UNCHANGED <<verdict, tries>>

Succeed(c) ==
    /\ verdict[c] \in {"open", "expired"} /\ c \in done
    /\ verdict' = [verdict EXCEPT ![c] = "success"]
    /\ UNCHANGED <<tries, done>>

FailAttempt(c, v) ==
    /\ verdict[c] \in {"open", "expired"} /\ tries[c] < MaxRetries
    /\ tries' = [tries EXCEPT ![c] = @ + 1]
    /\ verdict' = [verdict EXCEPT ![c] = v]
    /\ IF tries[c] + 1 = MaxRetries THEN v = "failed" ELSE v \in {"open", verdict[c]}
    /\ UNCHANGED done

\* Some open commands expire, or some expired ones are taken up again.
Move(from, to) ==
    /\ \E some \in SUBSET {c \in Commands : verdict[c] = from} :
          verdict' = [c \in Commands |-> IF c \in some THEN to ELSE verdict[c]]
    /\ UNCHANGED <<tries, done>>

Next ==
    \/ \E c \in Commands :
          \/ Submit(c) \/ CarryOut(c) \/ Succeed(c)
          \/ \E v \in {"open", "expired", "failed"} : FailAttempt(c, v)
    \/ Move("open", "expired")
    \/ Move("expired", "open")

Spec == Init /\ [][Next]_vars
==============================================================================
