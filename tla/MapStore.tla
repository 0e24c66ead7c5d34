------------------------------ MODULE MapStore ------------------------------
(***************************************************************************)
(* What jspb.Map promises its users, whatever it does with its backing     *)
(* array: a partial function from keys to values, the calls that change    *)
(* it, and what each call reports.  Serialization reports the whole        *)
(* function, however stale the backing array was before the call.          *)
(***************************************************************************)
CONSTANTS Keys, Vals, Absent

VARIABLES
  store,  \* what the user put there: Keys -> Vals, Absent where there is no entry
  out     \* what the last call reported, a tuple headed by the call's name

vars == <<store, out>>

Stores == [Keys -> Vals \union {Absent}]

Present(k) == store[k] # Absent

Init ==
  /\ store \in Stores
  /\ out = <<"new">>

Set(k, v) ==
  /\ store' = [store EXCEPT ![k] = v]
  /\ out' = <<"set">>

Delete(k) ==
  /\ store' = [store EXCEPT ![k] = Absent]
  /\ out' = <<"del", Present(k)>>

Clear ==
  /\ store' = [k \in Keys |-> Absent]
  /\ out' = <<"clear">>

\* The user edits a value it holds: every entry that holds it shows the edit.
Edit(S, v) ==
  /\ \A k \in S : Present(k)
  /\ store' = [k \in Keys |-> IF k \in S THEN v ELSE store[k]]
  /\ out' = <<"edit">>

\* The reading calls leave the entries alone and report them as they are now.
Read ==
  /\ UNCHANGED store
  /\ \/ \E k \in Keys : out' = <<"get", store[k]>>
     \/ \E k \in Keys : out' = <<"has", Present(k)>>
     \/ out' = <<"serialize", store>>
     \/ out' = <<"toObject", store>>
     \/ out' = <<"keys", {k \in Keys : Present(k)}>>

\* Iteration visits entries with their value at the time of the visit; a visit
\* to a key that was removed meanwhile throws.
Iterate ==
  /\ UNCHANGED store
  /\ \/ out' = <<"iterate">>
     \/ \E k \in Keys : Present(k) /\ out' = <<"visit", k, store[k]>>
     \/ out' = <<"throw">>

\* getEntryList promises the keys; the values it hands out are raw arrays,
\* as old as the last time the value was synced.
EntryList ==
  /\ UNCHANGED store
  /\ \E c \in Stores :
       /\ \A k \in Keys : (c[k] = Absent) <=> (store[k] = Absent)
       /\ out' = <<"getEntryList", c>>

Next ==
  \/ \E k \in Keys, v \in Vals : Set(k, v)
  \/ \E k \in Keys : Delete(k)
  \/ Clear
  \/ \E S \in SUBSET Keys, v \in Vals : Edit(S, v)
  \/ Read
  \/ Iterate
  \/ EntryList

Spec == Init /\ [][Next]_vars
=============================================================================
