--------------------------- MODULE PlaytimeLedger ---------------------------
(***************************************************************************)
(* What the tracker promises its user, without daemon, clock or table:     *)
(* a ledger of play sessions and of one running total per application.     *)
(* While a session is open its runtime only grows; when it closes, the     *)
(* runtime it closes with is added to its application's total, once, in    *)
(* the same step; a closed session never changes, and one that is deleted  *)
(* leaves the total of the sessions that remain.                           *)
(***************************************************************************)
EXTENDS Integers, Functions

VARIABLES rows,    \* session -> [app, full, state]
          total    \* application -> runtime of its closed sessions

ledger == <<rows, total>>

Settled(table, a) == {s \in DOMAIN table : table[s].app = a /\ table[s].state = "closed"}

SettledTotal(table, a) ==
  SumFunction([s \in Settled(table, a) |-> table[s].full])

Init == rows = << >> /\ total = << >>

(* The applications known stay known, with their totals; a newcomer's is 0. *)
Admit(apps) ==
  total' = [a \in DOMAIN total \cup apps |-> IF a \in DOMAIN total THEN total[a] ELSE 0]

Register(a) ==
  /\ a \notin DOMAIN total
  /\ Admit({a})
  /\ UNCHANGED rows

(* An application has one open session at a time. *)
Open(s, a) ==
  /\ s \notin DOMAIN rows
  /\ \A r \in DOMAIN rows : rows[r].app = a => rows[r].state = "closed"
  /\ Admit({a})
  /\ rows' = [r \in DOMAIN rows \cup {s} |->
                IF r = s THEN [app |-> a, full |-> 0, state |-> "open"] ELSE rows[r]]

Play ==
  /\ DOMAIN rows' = DOMAIN rows
  /\ \A s \in DOMAIN rows :
       \/ rows'[s] = rows[s]
       \/ /\ rows[s].state = "open"
          /\ rows'[s].full >= rows[s].full
          /\ rows'[s] = [rows[s] EXCEPT !.full = rows'[s].full]
  /\ UNCHANGED total

Close(s) ==
  /\ rows[s].state = "open"
  /\ rows'[s].full >= rows[s].full
  /\ rows' = [rows EXCEPT ![s] = [app |-> @.app, full |-> rows'[s].full,
                                 state |-> "closed"]]
  /\ total' = [total EXCEPT ![rows[s].app] = @ + rows'[s].full]

Delete(ids) ==
  /\ \A s \in ids : rows[s].state = "closed"
  /\ rows' = [s \in DOMAIN rows \ ids |-> rows[s]]
  /\ total' = [a \in DOMAIN total |->
                 IF \E s \in ids : rows[s].app = a
                 THEN SettledTotal(rows', a) ELSE total[a]]

Next ==
  \/ \E a \in DOMAIN total' : Register(a)
  \/ \E s \in DOMAIN rows', a \in DOMAIN total' : Open(s, a)
  \/ Play
  \/ \E s \in DOMAIN rows : Close(s)
  \/ Delete(DOMAIN rows \ DOMAIN rows')

Spec == Init /\ [][Next]_ledger
=============================================================================
