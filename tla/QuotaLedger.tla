---------------------------- MODULE QuotaLedger ----------------------------
(***************************************************************************)
(* What the quota engine promises its callers: one running total per quota *)
(* id; every call takes effect at most once, in one step between its call  *)
(* and its return, with its own arguments.  A commit may fail before it is *)
(* weighed, when its total cannot be had; once admitted, it either takes   *)
(* effect or is refused at a moment whose total leaves no room for it.  A  *)
(* restart rewinds the total to one copied to the database earlier.  Lazy  *)
(* loading, the compare-and-swap loop and the dirty flag of the            *)
(* implementation (QuotaEngine) are invisible at this level.               *)
(***************************************************************************)
EXTENDS Integers

CONSTANTS Ids,      \* quota ids
          Threads,  \* callers
          Requests, \* records op, id, old, new, limit
          U64Max    \* u64::MAX: arithmetic saturates here

VARIABLES total,    \* total[i]: the bytes accounted to i
          stored,   \* stored[i]: the bytes the database would restore
          copies,   \* copies[i]: a total of i on its way to the database, or None
          asked     \* asked[t]: t's request, until it takes effect, or Nothing;
                    \* an admitted commit has the op "admitted"

ledgerVars == <<total, stored, copies, asked>>

None == -1
Nothing == [op |-> "none"]

\* The total after request r, with saturating u64 arithmetic.
SatSub(a, b) == IF a > b THEN a - b ELSE 0
SatAdd(a, b) == IF a + b > U64Max THEN U64Max ELSE a + b
After(r) == SatAdd(SatSub(total[r.id], r.old), r.new)

Init ==
  /\ total = [i \in Ids |-> 0]
  /\ stored = [i \in Ids |-> 0]
  /\ copies = [i \in Ids |-> None]
  /\ asked = [t \in Threads |-> Nothing]

Done(t) == asked' = [asked EXCEPT ![t] = Nothing]

Invoke(t) ==
  /\ asked[t] = Nothing
  /\ \E r \in Requests : asked' = [asked EXCEPT ![t] = r]
  /\ UNCHANGED <<total, stored, copies>>

\* The commit's total is at hand: from here on it can no longer fail.
Admit(t) ==
  /\ asked[t].op = "commit"
  /\ asked' = [asked EXCEPT ![t].op = "admitted"]
  /\ UNCHANGED <<total, stored, copies>>

Commit(t) ==
  /\ asked[t].op = "admitted"
  /\ After(asked[t]) <= asked[t].limit
  /\ total' = [total EXCEPT ![asked[t].id] = After(asked[t])]
  /\ Done(t)
  /\ UNCHANGED <<stored, copies>>

Refuse(t) ==
  /\ asked[t].op = "admitted"
  /\ After(asked[t]) > asked[t].limit
  /\ Done(t)
  /\ UNCHANGED <<total, stored, copies>>

Reset(t) ==
  /\ asked[t].op = "reset"
  /\ total' = [total EXCEPT ![asked[t].id] = 0]
  /\ Done(t)
  /\ UNCHANGED <<stored, copies>>

\* A call that ends without effect: a read, a call whose load fails, a reset
\* that meets a bucket being loaded.  Never an admitted commit.
Withdraw(t) ==
  /\ asked[t].op \in {"commit", "reset", "read"}
  /\ Done(t)
  /\ UNCHANGED <<total, stored, copies>>

\* The total of this moment is copied ...
Copy(i) ==
  /\ copies' = [copies EXCEPT ![i] = total[i]]
  /\ UNCHANGED <<total, stored, asked>>

\* ... and the copy reaches the database later ...
Store(i) ==
  /\ copies[i] # None
  /\ stored' = [stored EXCEPT ![i] = copies[i]]
  /\ copies' = [copies EXCEPT ![i] = None]
  /\ UNCHANGED <<total, asked>>

\* ... or never.
Drop(i) ==
  /\ copies' = [copies EXCEPT ![i] = None]
  /\ UNCHANGED <<total, stored, asked>>

Restart ==
  /\ total' = stored
  /\ copies' = [i \in Ids |-> None]
  /\ asked' = [t \in Threads |-> Nothing]
  /\ UNCHANGED stored

Next ==
  \/ \E t \in Threads : Invoke(t) \/ Admit(t) \/ Commit(t) \/ Refuse(t) \/ Reset(t) \/ Withdraw(t)
  \/ \E i \in Ids : Copy(i) \/ Store(i) \/ Drop(i)
  \/ Restart

Spec == Init /\ [][Next]_ledgerVars
=============================================================================
