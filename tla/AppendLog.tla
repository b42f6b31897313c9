------------------------------ MODULE AppendLog ------------------------------
(***************************************************************************)
(* What a ledger of the system promises its callers, independently of how  *)
(* it is stored: entries are only ever added at the end, and a caller that *)
(* is told its entry has position s is the only one told so, about an      *)
(* entry that is there and stays there.                                    *)
(*                                                                         *)
(* LedgerDb (the SQLite ledger) implements this module with any number of  *)
(* writers.                                                                *)
(***************************************************************************)
EXTENDS Naturals, Sequences

CONSTANTS Callers,      \* who appends
          Bodies        \* what is recorded: an event type with its payload

VARIABLES log,      \* the entries, oldest first
          acked     \* what callers were told: [by, seq, body]

logVars == <<log, acked>>

Init ==
    /\ log = <<>>
    /\ acked = {}

\* An entry is added at the end; its writer may never hear of it.
Extend(b) ==
    /\ log' = Append(log, b)
    /\ UNCHANGED acked

\* One caller, and only one, is told that entry s was recorded for it.
Acknowledge(c, s) ==
    /\ \A a \in acked : a.seq # s
    /\ acked' = acked \cup {[by |-> c, seq |-> s, body |-> log[s]]}
    /\ UNCHANGED log

Next ==
    \/ \E b \in Bodies : Extend(b)
    \/ \E c \in Callers, s \in 1..Len(log) : Acknowledge(c, s)

Spec == Init /\ [][Next]_logVars
=============================================================================
