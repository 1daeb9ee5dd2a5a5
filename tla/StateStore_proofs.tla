------------------------- MODULE StateStore_proofs -------------------------
(***************************************************************************)
(* The promise of the abstract store, for every set of fields.             *)
(***************************************************************************)
EXTENDS StateStore, TLAPS

\* An acknowledged entry was written in this run, so that no purge takes it.
StoreInv ==
  /\ doc \in [Field -> Nat]
  /\ issued \in [Field -> Nat \ {0}]
  /\ acked \in [Field -> Nat]
  /\ Durable
  /\ \A f \in Field : acked[f] # 1

LEMMA StoreInit == Init => StoreInv
BY DEF Init, StoreInv, Durable

LEMMA StoreStep ==
  ASSUME StoreInv, [Next]_store
  PROVE  StoreInv'
<1> USE DEF StoreInv, Durable
<1>1. CASE UNCHANGED store
  BY <1>1 DEF store
<1>2. ASSUME NEW f \in Field, Issue(f) PROVE StoreInv'
  BY <1>2 DEF Issue
<1>3. CASE Persist
  <2>1. ASSUME NEW f \in Field
        PROVE  acked[f] <= doc'[f] /\ doc'[f] <= issued[f]
    BY <1>3 DEF Persist, Advances, IsPurged
  <2> QED
    BY <1>3, <2>1 DEF Persist
<1>4. ASSUME NEW f \in Field, Acknowledge(f) PROVE StoreInv'
  <2> DEFINE version == acked'[f]
  <2>1. /\ acked' = [acked EXCEPT ![f] = version]
        /\ version \in 2..doc[f] /\ version > acked[f]
        /\ UNCHANGED <<doc, issued>>
    BY <1>4 DEF Acknowledge
  <2> HIDE DEF version
  <2> QED
    BY <2>1
<1> QED
  BY <1>1, <1>2, <1>3, <1>4 DEF Next

\* An update that was reported done is in state.json, or a later one is; and
\* state.json holds nothing that nobody wrote.
THEOREM StoreDurable == Spec => []Durable
<1>1. StoreInv => Durable
  BY DEF StoreInv
<1> QED
  BY <1>1, StoreInit, StoreStep, PTL DEF Spec
=============================================================================
