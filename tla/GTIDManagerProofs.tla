-------------------------- MODULE GTIDManagerProofs --------------------------
(***************************************************************************)
(* Proofs about GTIDManager, for every value of its constants.  TypeOK and *)
(* ManagerInv together are inductive; the properties of the specification  *)
(* follow from them.                                                       *)
(***************************************************************************)
EXTENDS GTIDManager, NaturalSets

\* The seconds each prover has for a leaf that names none.
USE SMTT(30), ZenonT(30)

-----------------------------------------------------------------------------
(* The order on GTIDs: Lt, Le, Inc, IncPrimary and MinGTID.                *)

\* GTID::cmp is a strict total order.
LEMMA LtFacts ==
    ASSUME NEW a \in GTIDs, NEW b \in GTIDs, NEW c \in GTIDs
    PROVE  /\ ~ Lt(a, a)
           /\ Lt(a, b) /\ Lt(b, c) => Lt(a, c)
           /\ Lt(a, b) \/ a = b \/ Lt(b, a)
           /\ ~ (Lt(a, b) /\ Lt(b, a))
  BY DEF GTIDs, Lt

\* Le is its reflexive closure.
LEMMA LeFacts ==
    ASSUME NEW a \in GTIDs, NEW b \in GTIDs, NEW c \in GTIDs
    PROVE  /\ Le(a, a)
           /\ Le(a, b) /\ Le(b, c) => Le(a, c)
           /\ Le(a, b) /\ Lt(b, c) => Lt(a, c)
           /\ Lt(a, b) /\ Le(b, c) => Lt(a, c)
           /\ Le(a, b) /\ Le(b, a) => a = b
           /\ Le(a, b) \/ Lt(b, a)
  BY LtFacts DEF Le

\* GTID::inc gives the next identifier: nothing lies between.
LEMMA IncFacts ==
    ASSUME NEW a \in GTIDs, NEW b \in GTIDs
    PROVE  /\ Inc(a) \in GTIDs
           /\ Lt(a, Inc(a))
           /\ Lt(a, b) => Le(Inc(a), b)
           /\ Le(a, b) => Le(Inc(a), Inc(b))
  BY DEF GTIDs, Lt, Le, Inc

\* GTID::inc_primary leaves every identifier of the old primary behind.
LEMMA IncPrimaryFacts ==
    ASSUME NEW a \in GTIDs
    PROVE  /\ IncPrimary(a) \in GTIDs
           /\ Lt(a, IncPrimary(a))
           /\ Le(Inc(a), IncPrimary(a))
  BY DEF GTIDs, Lt, Le, Inc, IncPrimary

LEMMA InitialFacts ==
    /\ InitialGTID \in GTIDs
    /\ IsInitial(InitialGTID)
  BY DEF GTIDs, InitialGTID, IsInitial

\* *(set.begin()) exists: GTIDs are well ordered, so MinGTID is defined for
\* every set that is not empty.
LEMMA MinExists ==
    ASSUME NEW S \in SUBSET GTIDs, S # {}
    PROVE  \E g \in S : \A h \in S : Le(g, h)
<1>. DEFINE P == {g.primarySeqNo : g \in S}
<1>1. PICK p \in P : \A q \in P : p <= q
  <2>1. P \in SUBSET Nat /\ P # {}
    BY DEF GTIDs
  <2>. QED
    BY ZenonT(30), <2>1, NatMin
<1>. DEFINE R == {g \in S : g.primarySeqNo = p}
            Q == {g.GTSeqNo : g \in R}
<1>2. PICK n \in Q : \A q \in Q : n <= q
  <2>1. Q \in SUBSET Nat /\ Q # {}
    BY <1>1 DEF GTIDs
  <2>. QED
    BY ZenonT(30), <2>1, NatMin
<1>3. PICK g \in R : g.GTSeqNo = n
  BY <1>2
<1>4. ASSUME NEW h \in S PROVE Le(g, h)
  <2>1. /\ g \in GTIDs /\ h \in GTIDs
        /\ g.primarySeqNo = p /\ p <= h.primarySeqNo
    BY <1>1, <1>3
  <2>2. CASE h.primarySeqNo = p
    <3>1. g.GTSeqNo <= h.GTSeqNo
      BY <1>2, <1>3, <2>2
    <3>. QED
      BY <2>1, <2>2, <3>1 DEF Le, Lt, GTIDs
  <2>3. CASE h.primarySeqNo # p
    BY <2>1, <2>3 DEF Le, Lt, GTIDs
  <2>. QED
    BY <2>2, <2>3
<1>. QED
  BY <1>3, <1>4

LEMMA MinFacts ==
    ASSUME NEW S \in SUBSET GTIDs, S # {}
    PROVE  /\ MinGTID(S) \in S
           /\ \A h \in S : Le(MinGTID(S), h)
  BY MinExists DEF MinGTID

-----------------------------------------------------------------------------
(* The manager.                                                            *)

\* What is known of every state: the type invariant and the inductive one.
IInv == TypeOK /\ ManagerInv

LEMMA BoundedFacts ==
    /\ OplogGTIDs \subseteq GTIDs
    /\ Hashes \subseteq Nat
    /\ 0 \in Hashes
    /\ Timestamps \subseteq Nat
  BY ConstantsAssumption DEF OplogGTIDs, BoundedGTIDs, GTIDs, Hashes

LEMMA NextHashFacts ==
    ASSUME NEW ts \in Timestamps, lastHash \in Hashes
    PROVE  NextHash(ts) \in Hashes
<1>. DEFINE n == (lastHash * 131 + ts) * 17 + SelfID
<1>1. n \in Nat
  BY ConstantsAssumption DEF Hashes
<1>2. HashMod \in Nat /\ HashMod > 0
  BY ConstantsAssumption
<1>3. \A m \in Nat : m % HashMod \in 0..(HashMod - 1)
  BY <1>2
<1>. QED
  BY <1>1, <1>3 DEF NextHash, Hashes

\* What getGTIDForPrimary hands out is above everything handed out before.
LEMMA NextGTIDFacts ==
    ASSUME lastLiveGTID \in GTIDs
    PROVE  /\ NextGTID \in GTIDs
           /\ Lt(lastLiveGTID, NextGTID)
           /\ Le(Inc(lastLiveGTID), NextGTID)
  BY IncFacts, IncPrimaryFacts, LeFacts DEF NextGTID

-----------------------------------------------------------------------------
(* The invariant is inductive. *)

LEMMA InitIInv == Init => IInv
  BY ZenonT(30), InitialFacts, IncFacts, BoundedFacts
  DEF Init, IInv, TypeOK, ManagerInv, StartupInv, Roles

LEMMA ConstructIInv ==
    ASSUME NEW last \in GTIDs, NEW ts \in Nat, NEW h \in Hashes,
           Construct(last, ts, h), role' = "startup", toApply' = {}
    PROVE  IInv'
  BY ZenonT(30), IncFacts, InitialFacts
  DEF Construct, IInv, TypeOK, ManagerInv, StartupInv, Roles

LEMMA ResetIInv ==
    ASSUME NEW last \in GTIDs, NEW ts \in Nat, NEW h \in Hashes,
           IInv, ResetAfterInitialSync(last, ts, h), role' = "secondary",
           liveGTIDs = {}, unappliedGTIDs = {}, toApply' = {}
    PROVE  IInv'
  BY IncFacts
  DEF ResetAfterInitialSync, IInv, TypeOK, ManagerInv, SecondaryInv, IsMinOf, Roles

\* With nothing live, no first commit is running.
LEMMA NoneOpen ==
    ASSUME PrimaryInv, liveGTIDs = {}
    PROVE  minUnappliedGTID = minLiveGTID /\ minLiveGTID = Inc(lastLiveGTID)
  BY DEF PrimaryInv, FirstCommitOpen, IsMinOf

\* The first identifier of a new primarySeqNo, and the one it is handed out
\* instead of.
LEMMA FirstOfTermFacts ==
    ASSUME NEW a \in GTIDs
    PROVE  /\ IncPrimary(a).GTSeqNo = 0
           /\ IncPrimary(a).primarySeqNo = Inc(a).primarySeqNo + 1
  BY DEF GTIDs, Inc, IncPrimary

LEMMA BeginCommitIInv ==
    ASSUME IInv, BeginCommit
    PROVE  IInv'
<1>1. PICK ts \in Timestamps : GetGTIDForPrimary(ts)
  BY DEF BeginCommit
<1>2. PrimaryInv /\ role = "primary" /\ role' = "primary" /\ toApply' = toApply
  BY DEF BeginCommit, IInv, ManagerInv
<1>3. TypeOK'
  BY ZenonT(30), <1>1, <1>2, NextGTIDFacts, NextHashFacts, BoundedFacts
  DEF GetGTIDForPrimary, IInv, TypeOK, Roles
<1>4. \A gtid \in liveGTIDs' : Le(gtid, lastLiveGTID')
  BY <1>1, <1>2, NextGTIDFacts, LeFacts DEF GetGTIDForPrimary, IInv, TypeOK, PrimaryInv, Le
<1>5. IsMinOf(minLiveGTID', liveGTIDs', lastLiveGTID')
  <2>1. CASE liveGTIDs = {}
    BY <1>1, <2>1 DEF GetGTIDForPrimary, IsMinOf, Le
  <2>2. CASE liveGTIDs # {}
    <3>1. minLiveGTID' = minLiveGTID /\ minLiveGTID \in liveGTIDs
      BY <1>1, <1>2, <2>2 DEF GetGTIDForPrimary, PrimaryInv, IsMinOf
    <3>2. Le(minLiveGTID, NextGTID)
      BY <1>2, <3>1, NextGTIDFacts, LeFacts DEF IInv, TypeOK, PrimaryInv, Le
    <3>. QED
      BY <1>1, <1>2, <2>2, <3>1, <3>2 DEF GetGTIDForPrimary, PrimaryInv, IsMinOf
  <2>. QED
    BY <2>1, <2>2
<1>6. (minUnappliedGTID = minLiveGTID \/ FirstCommitOpen)'
  <2>1. CASE liveGTIDs = {}
    <3>1. /\ minUnappliedGTID' = Inc(lastLiveGTID)
          /\ minLiveGTID' = NextGTID /\ NextGTID \in liveGTIDs'
      BY <1>1, <1>2, <2>1, NoneOpen DEF GetGTIDForPrimary
    <3>2. CASE incPrimary
      BY <3>1, <3>2, FirstOfTermFacts DEF NextGTID, FirstCommitOpen, IInv, TypeOK
    <3>3. CASE ~ incPrimary
      BY <3>1, <3>3 DEF NextGTID
    <3>. QED
      BY <3>2, <3>3
  <2>2. CASE liveGTIDs # {}
    BY <1>1, <1>2, <2>2 DEF GetGTIDForPrimary, PrimaryInv, FirstCommitOpen
  <2>. QED
    BY <2>1, <2>2
<1>7. PrimaryInv'
  BY <1>1, <1>2, <1>4, <1>5, <1>6 DEF GetGTIDForPrimary, PrimaryInv
<1>. QED
  BY <1>2, <1>3, <1>7 DEF IInv, ManagerInv

\* Removing a member of the set, as noteLiveGTIDDone and noteGTIDApplied do:
\* the minimum stays the minimum, or is replaced by the next one.
LEMMA RemoveFacts ==
    ASSUME NEW S \in SUBSET GTIDs, NEW g \in S, NEW min \in GTIDs, NEW last \in GTIDs,
           IsMinOf(min, S, last)
    PROVE  /\ MinOrNext(S \ {g}, last) \in GTIDs
           /\ min = g => IsMinOf(MinOrNext(S \ {g}, last), S \ {g}, last)
           /\ min # g => S \ {g} # {} /\ IsMinOf(min, S \ {g}, last)
           /\ (\A x \in S : Le(x, last)) => Le(min, MinOrNext(S \ {g}, last))
<1>1. CASE S \ {g} = {}
  BY <1>1, IncFacts, LeFacts DEF IsMinOf, MinOrNext, Le
<1>2. CASE S \ {g} # {}
  BY <1>2, MinFacts DEF IsMinOf, MinOrNext
<1>. QED
  BY <1>1, <1>2

LEMMA EndCommitIInv ==
    ASSUME IInv, EndCommit
    PROVE  IInv'
<1>1. PICK gtid \in liveGTIDs : NoteLiveGTIDDone(gtid)
  BY DEF EndCommit
<1>2. PrimaryInv /\ role = "primary" /\ role' = "primary" /\ toApply' = toApply
  BY DEF EndCommit, IInv, ManagerInv
<1>. DEFINE next == MinOrNext(liveGTIDs \ {gtid}, lastLiveGTID)
<1>3. /\ liveGTIDs' = liveGTIDs \ {gtid}
      /\ minLiveGTID = gtid => minLiveGTID' = next /\ minUnappliedGTID' = next
      /\ minLiveGTID # gtid => UNCHANGED <<minLiveGTID, minUnappliedGTID>>
      /\ UNCHANGED <<incPrimary, lastLiveGTID, lastUnappliedGTID, unappliedGTIDs,
                     lastTimestamp, lastHash>>
  BY <1>1 DEF NoteLiveGTIDDone
<1>4. /\ next \in GTIDs
      /\ minLiveGTID = gtid => IsMinOf(next, liveGTIDs \ {gtid}, lastLiveGTID)
      /\ minLiveGTID # gtid => /\ liveGTIDs \ {gtid} # {}
                               /\ IsMinOf(minLiveGTID, liveGTIDs \ {gtid}, lastLiveGTID)
  BY <1>2, RemoveFacts DEF IInv, TypeOK, PrimaryInv
<1>. HIDE DEF next
<1>5. TypeOK'
  BY <1>2, <1>3, <1>4 DEF IInv, TypeOK, Roles
<1>6. (minUnappliedGTID = minLiveGTID \/ FirstCommitOpen)'
  BY <1>2, <1>3 DEF PrimaryInv, FirstCommitOpen
<1>7. PrimaryInv'
  BY <1>2, <1>3, <1>4, <1>6 DEF PrimaryInv
<1>. QED
  BY <1>2, <1>5, <1>7 DEF IInv, ManagerInv

LEMMA ProduceIInv ==
    ASSUME IInv, Produce
    PROVE  IInv'
<1>1. PICK gtid \in OplogGTIDs, ts \in Timestamps, h \in Hashes :
          /\ Lt(lastLiveGTID, gtid)
          /\ NoteGTIDAdded(gtid, ts, h)
          /\ toApply' = toApply \union {gtid}
  BY DEF Produce
<1>2. SecondaryInv /\ role = "secondary" /\ role' = "secondary"
  BY DEF Produce, IInv, ManagerInv
<1>3. TypeOK'
  BY <1>1, <1>2, BoundedFacts, IncFacts DEF NoteGTIDAdded, IInv, TypeOK, Roles
<1>4. \A g \in toApply' : Lt(lastUnappliedGTID', g) /\ Le(g, lastLiveGTID')
  <2>1. gtid \in GTIDs /\ lastLiveGTID' = gtid /\ lastUnappliedGTID' = lastUnappliedGTID
    BY <1>1, BoundedFacts DEF NoteGTIDAdded
  <2>2. Le(lastUnappliedGTID, lastLiveGTID)
    BY <1>2, LeFacts DEF SecondaryInv, IInv, TypeOK, Le
  <2>3. Lt(lastUnappliedGTID, gtid)
    BY <1>1, <2>1, <2>2, LeFacts DEF IInv, TypeOK
  <2>4. \A g \in toApply : Le(g, gtid)
    BY <1>1, <1>2, <2>1, LeFacts DEF SecondaryInv, IInv, TypeOK, Le
  <2>. QED
    BY <1>1, <1>2, <2>1, <2>3, <2>4 DEF SecondaryInv, Le
<1>5. SecondaryInv'
  BY <1>1, <1>2, <1>4 DEF NoteGTIDAdded, SecondaryInv, IsMinOf
<1>. QED
  BY <1>2, <1>3, <1>5 DEF IInv, ManagerInv

LEMMA StartApplyIInv ==
    ASSUME IInv, StartApply
    PROVE  IInv'
<1>. DEFINE gtid == MinGTID(toApply)
<1>1. /\ SecondaryInv /\ role = "secondary" /\ role' = "secondary"
      /\ toApply # {} /\ toApply' = toApply \ {gtid}
      /\ NoteApplyingGTID(gtid)
  BY DEF StartApply, IInv, ManagerInv
<1>2. gtid \in toApply /\ gtid \in GTIDs /\ \A g \in toApply : Le(gtid, g)
  BY <1>1, MinFacts DEF IInv, TypeOK
<1>. HIDE DEF gtid
<1>3. TypeOK'
  BY <1>1, <1>2 DEF NoteApplyingGTID, IInv, TypeOK, Roles
<1>4. Lt(lastUnappliedGTID, gtid) /\ Le(gtid, lastLiveGTID)
  BY <1>1, <1>2 DEF SecondaryInv
<1>5. \A g \in unappliedGTIDs' : Le(g, lastUnappliedGTID')
  BY <1>1, <1>2, <1>4, LeFacts DEF NoteApplyingGTID, SecondaryInv, IInv, TypeOK, Le
<1>6. IsMinOf(minUnappliedGTID', unappliedGTIDs', lastUnappliedGTID')
  <2>1. CASE unappliedGTIDs = {}
    BY <1>1, <2>1 DEF NoteApplyingGTID, IsMinOf, Le
  <2>2. CASE unappliedGTIDs # {}
    <3>1. minUnappliedGTID \in unappliedGTIDs /\ minUnappliedGTID' = minUnappliedGTID
      BY <1>1, <2>2 DEF NoteApplyingGTID, SecondaryInv, IsMinOf
    <3>2. Le(minUnappliedGTID, gtid)
      BY <1>1, <1>2, <1>4, <3>1, LeFacts DEF SecondaryInv, IInv, TypeOK, Le
    <3>. QED
      BY <1>1, <2>2, <3>1, <3>2 DEF NoteApplyingGTID, SecondaryInv, IsMinOf
  <2>. QED
    BY <2>1, <2>2
<1>7. \A g \in toApply' : Lt(lastUnappliedGTID', g) /\ Le(g, lastLiveGTID')
  BY <1>1, <1>2 DEF NoteApplyingGTID, SecondaryInv, Le
<1>8. IF toApply' = {} THEN lastUnappliedGTID' = lastLiveGTID' ELSE lastLiveGTID' \in toApply'
  <2>1. lastLiveGTID \in toApply
    BY <1>1 DEF SecondaryInv
  <2>2. CASE gtid = lastLiveGTID
    <3>1. toApply = {gtid}
      BY <1>1, <1>2, <2>2, LeFacts DEF SecondaryInv, IInv, TypeOK
    <3>. QED
      BY <1>1, <2>2, <3>1 DEF NoteApplyingGTID
  <2>3. CASE gtid # lastLiveGTID
    BY <1>1, <2>1, <2>3 DEF NoteApplyingGTID
  <2>. QED
    BY <2>2, <2>3
<1>9. SecondaryInv'
  BY <1>1, <1>5, <1>6, <1>7, <1>8 DEF NoteApplyingGTID, SecondaryInv
<1>. QED
  BY <1>1, <1>3, <1>9 DEF IInv, ManagerInv

LEMMA EndApplyIInv ==
    ASSUME IInv, EndApply
    PROVE  IInv'
<1>1. PICK gtid \in unappliedGTIDs : NoteGTIDApplied(gtid)
  BY DEF EndApply
<1>2. SecondaryInv /\ role = "secondary" /\ role' = "secondary" /\ toApply' = toApply
  BY DEF EndApply, IInv, ManagerInv
<1>. DEFINE next == MinOrNext(unappliedGTIDs \ {gtid}, lastUnappliedGTID)
<1>3. /\ unappliedGTIDs' = unappliedGTIDs \ {gtid}
      /\ minUnappliedGTID' = IF minUnappliedGTID = gtid THEN next ELSE minUnappliedGTID
      /\ UNCHANGED <<incPrimary, lastLiveGTID, lastUnappliedGTID, minLiveGTID,
                     liveGTIDs, lastTimestamp, lastHash>>
  BY <1>1 DEF NoteGTIDApplied
<1>4. /\ next \in GTIDs
      /\ minUnappliedGTID = gtid =>
             IsMinOf(next, unappliedGTIDs \ {gtid}, lastUnappliedGTID)
      /\ minUnappliedGTID # gtid =>
             IsMinOf(minUnappliedGTID, unappliedGTIDs \ {gtid}, lastUnappliedGTID)
  BY <1>2, RemoveFacts DEF IInv, TypeOK, SecondaryInv
<1>. HIDE DEF next
<1>5. TypeOK'
  BY <1>2, <1>3, <1>4 DEF IInv, TypeOK, Roles
<1>6. SecondaryInv'
  BY <1>2, <1>3, <1>4 DEF SecondaryInv
<1>. QED
  BY <1>2, <1>5, <1>6 DEF IInv, ManagerInv

\* Every step of the manager and its callers preserves the invariant.
LEMMA NextIInv ==
    ASSUME IInv, [Next]_vars
    PROVE  IInv'
<1>1. CASE Restart
  BY <1>1, ConstructIInv, BoundedFacts, InitialFacts DEF Restart
<1>2. CASE StartAlone
  BY <1>2 DEF StartAlone, CatchUnappliedToLive, IInv, TypeOK, Roles, ManagerInv,
              StartupInv, PrimaryInv, IsMinOf
<1>3. CASE GoLive
  BY <1>3, ResetIInv, BoundedFacts DEF GoLive, IInv, ManagerInv, StartupInv
<1>4. CASE AssumePrimary
  BY <1>4, IncFacts DEF AssumePrimary, ResetManager, IInv, TypeOK, Roles, ManagerInv,
                        SecondaryInv, PrimaryInv, IsMinOf
<1>5. CASE Relinquish
  BY <1>5, NoneOpen DEF Relinquish, mgrVars, IInv, TypeOK, Roles, ManagerInv,
              SecondaryInv, PrimaryInv, IsMinOf
<1>6. CASE BeginCommit
  BY <1>6, BeginCommitIInv
<1>7. CASE EndCommit
  BY <1>7, EndCommitIInv
<1>8. CASE Produce
  BY <1>8, ProduceIInv
<1>9. CASE StartApply
  BY <1>9, StartApplyIInv
<1>10. CASE EndApply
  BY <1>10, EndApplyIInv
<1>11. CASE Rollback
  BY <1>11, ResetIInv, BoundedFacts DEF Rollback, IInv, ManagerInv, SecondaryInv
<1>12. CASE UNCHANGED vars
  BY <1>12 DEF vars, mgrVars, IInv, TypeOK, ManagerInv, StartupInv, SecondaryInv,
               PrimaryInv, FirstCommitOpen, IsMinOf
<1>. QED
  BY <1>1, <1>2, <1>3, <1>4, <1>5, <1>6, <1>7, <1>8, <1>9, <1>10, <1>11, <1>12 DEF Next

\* The type invariant and the inductive invariant hold in every state the
\* manager and its callers reach.
THEOREM Invariance == Spec => [](TypeOK /\ ManagerInv)
<1>1. Init => IInv
  BY InitIInv
<1>2. IInv /\ [Next]_vars => IInv'
  BY NextIInv
<1>. QED
  BY <1>1, <1>2, PTL DEF Spec, IInv

-----------------------------------------------------------------------------
(* What follows from the invariant. *)

LEMMA CoversLive == IInv => MinLiveCoversLive
<1>. SUFFICES ASSUME IInv PROVE MinLiveCoversLive
  OBVIOUS
<1>1. CASE role = "primary"
  <2>1. PrimaryInv
    BY <1>1 DEF IInv, ManagerInv
  <2>2. \A gtid \in liveGTIDs : Le(minLiveGTID, gtid)
    BY <2>1 DEF PrimaryInv, IsMinOf
  <2>3. Le(minLiveGTID, NextGTID)
    <3>1. CASE liveGTIDs = {}
      BY <2>1, <3>1, NextGTIDFacts DEF IInv, TypeOK, PrimaryInv, IsMinOf
    <3>2. CASE liveGTIDs # {}
      <4>1. Le(minLiveGTID, lastLiveGTID)
        BY <2>1, <3>2 DEF PrimaryInv, IsMinOf
      <4>. QED
        BY <4>1, NextGTIDFacts, LeFacts DEF IInv, TypeOK, Le
    <3>. QED
      BY <3>1, <3>2
  <2>. QED
    BY <2>2, <2>3 DEF MinLiveCoversLive
<1>2. CASE role # "primary"
  BY <1>2 DEF IInv, TypeOK, Roles, ManagerInv, StartupInv, SecondaryInv, MinLiveCoversLive
<1>. QED
  BY <1>1, <1>2

LEMMA CoversUnapplied == IInv => MinUnappliedCoversUnapplied
<1>. SUFFICES ASSUME IInv, role # "startup" , NEW gtid \in toApply \union unappliedGTIDs
              PROVE  Le(minUnappliedGTID, gtid)
  BY DEF MinUnappliedCoversUnapplied
<1>1. SecondaryInv
  BY DEF IInv, TypeOK, Roles, ManagerInv, PrimaryInv
<1>2. CASE gtid \in unappliedGTIDs
  BY <1>1, <1>2 DEF SecondaryInv, IsMinOf
<1>3. CASE gtid \in toApply
  <2>1. Lt(lastUnappliedGTID, gtid) /\ gtid \in GTIDs
    BY <1>1, <1>3 DEF SecondaryInv, IInv, TypeOK
  <2>2. CASE unappliedGTIDs = {}
    BY <1>1, <2>1, <2>2, IncFacts DEF SecondaryInv, IsMinOf, IInv, TypeOK
  <2>3. CASE unappliedGTIDs # {}
    <3>1. Le(minUnappliedGTID, lastUnappliedGTID)
      BY <1>1, <2>3 DEF SecondaryInv, IsMinOf
    <3>. QED
      BY <2>1, <3>1, LeFacts DEF IInv, TypeOK, Le
  <2>. QED
    BY <2>2, <2>3
<1>. QED
  BY <1>2, <1>3

LEMMA SettledReady == IInv => SettledIsReady
  BY IncFacts, NoneOpen
  DEF IInv, TypeOK, Roles, ManagerInv, SecondaryInv, PrimaryInv, IsMinOf,
      SettledIsReady, ReadyToBecomePrimary

LEMMA AssertsHold == IInv => MethodAssertsHold
<1>. SUFFICES ASSUME IInv PROVE MethodAssertsHold
  OBVIOUS
<1>1. /\ role = "primary" => /\ lastLiveGTID = lastUnappliedGTID
                             /\ unappliedGTIDs = {} /\ toApply = {}
      /\ role # "primary" => liveGTIDs = {} /\ Lt(lastLiveGTID, minLiveGTID)
      /\ role = "startup" => unappliedGTIDs = {} /\ toApply = {}
      /\ \A gtid \in toApply : Lt(lastUnappliedGTID, gtid)
  BY IncFacts DEF IInv, TypeOK, Roles, ManagerInv, StartupInv, SecondaryInv, PrimaryInv
<1>2. \A gtid \in liveGTIDs : Le(minLiveGTID, gtid)
  BY CoversLive DEF MinLiveCoversLive
<1>3. \A gtid \in toApply \union unappliedGTIDs : Le(minUnappliedGTID, gtid)
  BY <1>1, CoversUnapplied DEF MinUnappliedCoversUnapplied
<1>. QED
  BY <1>1, <1>2, <1>3 DEF MethodAssertsHold

\* Oplog readers that stop at minLiveGTID never pass an identifier that may
\* still be committed.
THEOREM ReadersMissNothing == Spec => []MinLiveCoversLive
<1>. QED
  BY Invariance, CoversLive, PTL DEF IInv

\* What minUnappliedGTID says is applied is applied.
THEOREM NothingUnappliedBelow == Spec => []MinUnappliedCoversUnapplied
<1>. QED
  BY Invariance, CoversUnapplied, PTL DEF IInv

\* A settled member passes verifySettled and verifyReadyToBecomePrimary.
THEOREM SettledMemberIsReady == Spec => []SettledIsReady
<1>. QED
  BY Invariance, SettledReady, PTL DEF IInv

\* No assertion of a method fails, whatever the order of the calls.
THEOREM NoAssertFails == Spec => []MethodAssertsHold
<1>. QED
  BY Invariance, AssertsHold, PTL DEF IInv

-----------------------------------------------------------------------------
(* What a step may never do. *)

LEMMA MinLiveStep ==
    ASSUME IInv, [Next]_vars
    PROVE  Le(minLiveGTID, minLiveGTID') \/ Rollback \/ Restart \/ GoLive
<1>. SUFFICES ASSUME ~ Rollback, ~ Restart, ~ GoLive
              PROVE  Le(minLiveGTID, minLiveGTID')
  OBVIOUS
<1>1. CASE UNCHANGED minLiveGTID
  BY <1>1 DEF Le
<1>2. CASE AssumePrimary
  BY <1>2 DEF AssumePrimary, ResetManager, IInv, ManagerInv, SecondaryInv, Le
<1>3. CASE BeginCommit
  <2>1. minLiveGTID' \in {minLiveGTID, NextGTID} /\ role = "primary"
    BY <1>3 DEF BeginCommit, GetGTIDForPrimary
  <2>. QED
    BY <2>1, CoversLive DEF MinLiveCoversLive, Le
<1>4. CASE EndCommit
  <2>1. PICK gtid \in liveGTIDs : NoteLiveGTIDDone(gtid)
    BY <1>4 DEF EndCommit
  <2>2. PrimaryInv
    BY <1>4 DEF EndCommit, IInv, ManagerInv
  <2>3. Le(minLiveGTID, MinOrNext(liveGTIDs \ {gtid}, lastLiveGTID))
    BY ZenonT(30), <2>2, RemoveFacts DEF PrimaryInv, IInv, TypeOK
  <2>4. minLiveGTID' \in {minLiveGTID, MinOrNext(liveGTIDs \ {gtid}, lastLiveGTID)}
    BY <2>1 DEF NoteLiveGTIDDone
  <2>. QED
    BY <2>3, <2>4 DEF Le
<1>5. CASE Produce
  <2>1. PICK gtid \in OplogGTIDs : Lt(lastLiveGTID, gtid) /\ minLiveGTID' = Inc(gtid)
    BY <1>5 DEF Produce, NoteGTIDAdded
  <2>2. minLiveGTID = Inc(lastLiveGTID)
    BY <1>5 DEF Produce, IInv, ManagerInv, SecondaryInv
  <2>. QED
    BY <2>1, <2>2, IncFacts, BoundedFacts DEF IInv, TypeOK, Le
<1>. QED
  BY ZenonT(30), <1>1, <1>2, <1>3, <1>4, <1>5
  DEF Next, vars, mgrVars, StartAlone, CatchUnappliedToLive, Relinquish, StartApply,
      NoteApplyingGTID, EndApply, NoteGTIDApplied

\* The position readers stop at only moves forward, outside rollback and
\* restart.
THEOREM MinLiveMonotonic == Spec => MinLiveNeverMovesBack
<1>1. IInv /\ [Next]_vars => [Le(minLiveGTID, minLiveGTID') \/ Rollback \/ Restart \/ GoLive]_vars
  BY MinLiveStep
<1>. QED
  BY <1>1, Invariance, PTL DEF Spec, IInv, MinLiveNeverMovesBack

LEMMA LastLiveStep ==
    ASSUME IInv, [Next]_vars, lastLiveGTID' # lastLiveGTID
    PROVE  Lt(lastLiveGTID, lastLiveGTID') \/ Rollback \/ Restart \/ GoLive
<1>1. CASE BeginCommit
  BY <1>1, NextGTIDFacts DEF BeginCommit, GetGTIDForPrimary, IInv, TypeOK
<1>2. CASE Produce
  BY <1>2 DEF Produce, NoteGTIDAdded
<1>. QED
  BY ZenonT(30), <1>1, <1>2
  DEF Next, vars, mgrVars, StartAlone, CatchUnappliedToLive, AssumePrimary, ResetManager,
      Relinquish, EndCommit, NoteLiveGTIDDone, StartApply, NoteApplyingGTID, EndApply,
      NoteGTIDApplied

\* No identifier is handed out or added twice, outside rollback and restart.
THEOREM GTIDsUnique == Spec => GTIDsNeverReused
<1>1. IInv /\ [Next]_vars =>
        [lastLiveGTID' # lastLiveGTID =>
           Lt(lastLiveGTID, lastLiveGTID') \/ Rollback \/ Restart \/ GoLive]_vars
  BY LastLiveStep
<1>. QED
  BY <1>1, Invariance, PTL DEF Spec, IInv, GTIDsNeverReused

=============================================================================
