-------------------------- MODULE OplogMemberProofs --------------------------
(***************************************************************************)
(* Proofs about OplogMember, for any number of GTIDs, crashes and changes  *)
(* of primary.  What replInfo claims is safe because of two facts that are *)
(* not in the properties: a GTID between the last entry and the            *)
(* minUnapplied on disk is one of a commit that failed, which no primary   *)
(* gives out again; and what updateReplInfoThread has read stays a lower   *)
(* bound of the unapplied entries until it is written.  That oplogs match  *)
(* needs them to match below every common entry, not only the last one.    *)
(***************************************************************************)
EXTENDS OplogMember, NaturalSets

\* The seconds each prover has for a leaf that names none.
USE SMTT(30), ZenonT(30)

Mins == [lastLive : Nat, lastUnapplied : Nat, minUnapplied : Nat]
SourceEntry == [gtid : 1..MaxGTID, from : Nat]
MemberEntry == [gtid : 1..MaxGTID, from : Nat, a : BOOLEAN]

TypeOK ==
    /\ src \in [log : SUBSET SourceEntry, live : SUBSET (1..MaxGTID), last : 0..MaxGTID, info : Nat]
    /\ epoch \in Nat \ {0} /\ conn \in Nat /\ conn <= epoch
    /\ disk \in [log : SUBSET MemberEntry, minLive : Nat, minUnapplied : Nat]
    /\ phase \in {"down", "fullSync", "dropped", "clone", "fillGaps", "applyMissing", "applying",
                  "live", "reset", "purge", "fatal", "stopped"}
    /\ mem \in Mins /\ applying \in Nat /\ todo \in SUBSET MemberEntry
    /\ info \in [read : Mins, wrote : Mins, busy : BOOLEAN]

-----------------------------------------------------------------------------
(* The inductive invariant of replInfo.                                    *)

\* The commit with this GTID failed.
Failed(g) ==
    g <= src.last /\ g \notin src.live /\ \A e \in src.log : e.gtid # g

Unapplied == {e \in disk.log : ~ e.a}

SourceInv ==
    /\ src.log # {} /\ src.live \subseteq 1..src.last
    /\ \A e \in src.log : e.gtid <= src.last /\ e.from <= epoch
    /\ \A e, f \in src.log : e.gtid = f.gtid => e = f
    /\ src.info <= minLive

DiskInv ==
    /\ \A e, f \in disk.log : e.gtid = f.gtid => e = f
    /\ \A e \in Unapplied : e.gtid >= disk.minUnapplied
    /\ \A g \in 1..MaxGTID : LastGTID(disk.log) < g /\ g < disk.minUnapplied => Failed(g)

\* The GTIDManager of a live member.
LiveInv ==
    /\ mem.lastUnapplied <= mem.lastLive /\ mem.lastLive <= LastGTID(disk.log)
    /\ IF applying = 0 THEN mem.minUnapplied = mem.lastUnapplied + 1
       ELSE mem.minUnapplied = applying /\ mem.lastUnapplied = applying
    /\ \A e \in Unapplied : e.gtid = applying \/ e.gtid > mem.lastUnapplied

\* A rollback goes to an entry that the member has, with everything applied.
RollbackInv ==
    /\ Unapplied = {} /\ mem = ResetTo(mem.lastLive)
    /\ \E e \in disk.log : e.gtid = mem.lastLive

PhaseInv ==
    /\ phase # "live" => applying = 0
    /\ phase = "fillGaps" => Unapplied = {} /\ disk.minLive = disk.minUnapplied
    /\ phase = "applying" => todo = Unapplied
    /\ phase = "live" => LiveInv
    /\ phase \in {"reset", "purge"} => RollbackInv
    /\ phase = "purge" => disk.minUnapplied <= mem.lastLive + 1

\* What updateReplInfoThread is about to write.
InfoInv ==
    info.busy =>
        /\ phase \in {"live", "reset", "purge", "fatal"}
        /\ info.read.minUnapplied <= LastGTID(disk.log) + 1
        /\ \A e \in Unapplied : e.gtid >= info.read.minUnapplied
        /\ phase = "purge" => info.read.minUnapplied <= mem.lastLive + 1

ReplInfoInv == TypeOK /\ SourceInv /\ DiskInv /\ PhaseInv /\ InfoInv

-----------------------------------------------------------------------------
(* The inductive invariant of the oplogs.                                  *)

UpTo(entries, g) == {e \in entries : e.gtid <= g}

\* Below an entry that both have, which must be visible, both have the same.
Agree(ours, theirs, visible) ==
    \A e \in ours \cap theirs :
        e.gtid < visible /\ \A f \in ours \cup theirs : f.gtid <= e.gtid => f \in ours \cap theirs

CommonPrefix == Agree(Entries(disk.log), src.log, minLive)

MatchInv ==
    /\ \A e \in Entries(disk.log) : e.from <= epoch /\ (e.from = epoch => e \in src.log)
    /\ phase = "clone" => disk.log = {}
    /\ phase \in {"applyMissing", "applying", "live", "reset", "purge", "fatal"} => disk.log # {}
    /\ phase \in {"fullSync", "dropped", "fillGaps", "stopped"} \/ CommonPrefix
    /\ phase = "fillGaps" /\ conn = epoch =>
          /\ disk.log # {} /\ Entries(disk.log) \subseteq src.log /\ disk.minLive <= minLive
          /\ \A e \in src.log : e.gtid < disk.minLive => e \in Entries(disk.log)
    /\ phase = "live" /\ conn = epoch => Entry(LastEntry(disk.log)) \in src.log
    /\ phase \in {"reset", "purge"} => conn < epoch

-----------------------------------------------------------------------------
(* Least and greatest GTIDs, and entries with and without their bit.       *)

LEMMA LastFacts ==
    ASSUME NEW S, \A e \in S : e.gtid \in 1..MaxGTID
    PROVE  /\ LastGTID(S) \in 0..MaxGTID
           /\ \A e \in S : e.gtid <= LastGTID(S)
           /\ S # {} => \E e \in S : e.gtid = LastGTID(S)
<1>. DEFINE T == {e.gtid : e \in S} \cup {0}
<1>0. MaxGTID \in Nat
  BY ZenonT(30), MemberAssumption
<1>1. T \in SUBSET (0..MaxGTID) /\ T # {}
  <2>1. 0 \in 0..MaxGTID /\ 1..MaxGTID \subseteq 0..MaxGTID
    BY <1>0
  <2>. QED
    BY ZenonT(30), <2>1
<1>2. Max(T) \in T /\ \A k \in T : k <= Max(T)
  BY ZenonT(30), <1>0, <1>1, MaxIsGreatest
<1>3. LastGTID(S) = Max(T)
  BY ZenonT(30) DEF LastGTID
<1>4. /\ \A e \in S : e.gtid \in T
      /\ \A k \in T : k = 0 \/ \E e \in S : e.gtid = k
  BY ZenonT(30)
<1>. HIDE DEF T
<1>5. ASSUME S # {} PROVE Max(T) # 0
  BY <1>0, <1>2, <1>4, <1>5
<1>. QED
  BY ZenonT(30), <1>1, <1>2, <1>3, <1>4, <1>5

LEMMA LastIsMonotonic ==
    ASSUME NEW S, NEW T, \A e \in S : e.gtid \in 1..MaxGTID, \A e \in T : e.gtid \in 1..MaxGTID,
           \A e \in S : \E f \in T : f.gtid = e.gtid
    PROVE  LastGTID(S) <= LastGTID(T)
<1>1. /\ LastGTID(S) \in 0..MaxGTID /\ (S # {} => \E e \in S : e.gtid = LastGTID(S))
  BY ZenonT(30), LastFacts
<1>2. LastGTID(T) \in 0..MaxGTID /\ \A e \in T : e.gtid <= LastGTID(T)
  BY ZenonT(30), LastFacts
<1>3. CASE S = {}
  <2>1. LastGTID(S) = Max({0})
    <3>1. {e.gtid : e \in S} \cup {0} = {0}
      BY ZenonT(30), <1>3
    <3>. QED
      BY ZenonT(30), <3>1 DEF LastGTID
  <2>2. Max({0}) \in {0}
    BY MemberAssumption, MaxIsGreatest
  <2>. QED
    BY <1>2, <2>1, <2>2
<1>. QED
  BY ZenonT(30), <1>1, <1>2, <1>3

LEMMA EntryFacts ==
    ASSUME NEW e, NEW b
    PROVE  /\ Entry(e).gtid = e.gtid /\ Entry(e).from = e.from
           /\ WithBit(e, b).gtid = e.gtid /\ WithBit(e, b).from = e.from /\ WithBit(e, b).a = b
           /\ Entry(WithBit(e, b)) = Entry(e)
  BY ZenonT(30) DEF Entry, WithBit

\* An entry of a primary has no bit to lose.
LEMMA SourceEntryFacts ==
    ASSUME NEW e \in SourceEntry, NEW b \in BOOLEAN
    PROVE  Entry(e) = e /\ WithBit(e, b) \in MemberEntry /\ Entry(WithBit(e, b)) = e
  BY ZenonT(30) DEF Entry, WithBit, SourceEntry, MemberEntry

\* Entries that get the same bit.
WithBits(S, b) == {WithBit(e, b) : e \in S}

LEMMA BitFacts ==
    ASSUME NEW S \in SUBSET SourceEntry, NEW b \in BOOLEAN
    PROVE  /\ WithBits(S, b) \in SUBSET MemberEntry
           /\ \A f \in WithBits(S, b) : f.a = b /\ \E e \in S : f = WithBit(e, b) /\ f.gtid = e.gtid
           /\ \A e \in S : \E f \in WithBits(S, b) : f.gtid = e.gtid
           /\ Entries(WithBits(S, b)) = S
<1>1. \A e \in S : /\ WithBit(e, b) \in MemberEntry /\ WithBit(e, b).a = b
                   /\ WithBit(e, b).gtid = e.gtid /\ Entry(WithBit(e, b)) = e
  BY DEF Entry, WithBit, SourceEntry, MemberEntry
<1>2. Entries(WithBits(S, b)) = {Entry(WithBit(e, b)) : e \in S}
  BY ZenonT(30) DEF Entries, WithBits
<1>3. {Entry(WithBit(e, b)) : e \in S} = S
  BY ZenonT(30), <1>1
<1>. QED
  BY ZenonT(30), <1>1, <1>2, <1>3 DEF WithBits

LEMMA MemberEntryFacts ==
    ASSUME NEW e \in MemberEntry
    PROVE  Entry(e) \in SourceEntry /\ WithBit(e, TRUE) \in MemberEntry
  BY ZenonT(30) DEF Entry, WithBit, SourceEntry, MemberEntry

LEMMA TypeFacts ==
    ASSUME TypeOK
    PROVE  /\ MaxGTID \in Nat
           /\ src.log \in SUBSET SourceEntry /\ src.live \in SUBSET (1..MaxGTID)
           /\ src.last \in 0..MaxGTID /\ src.info \in Nat
           /\ \A e \in src.log : e \in SourceEntry /\ e.gtid \in 1..MaxGTID /\ e.from \in Nat
           /\ disk.log \in SUBSET MemberEntry /\ disk.minLive \in Nat /\ disk.minUnapplied \in Nat
           /\ \A e \in disk.log : e \in MemberEntry /\ e.gtid \in 1..MaxGTID /\ e.a \in BOOLEAN
           /\ mem.lastLive \in Nat /\ mem.lastUnapplied \in Nat /\ mem.minUnapplied \in Nat
           /\ info.read \in Mins /\ info.wrote \in Mins /\ info.busy \in BOOLEAN
           /\ info.read.lastLive \in Nat /\ info.read.minUnapplied \in Nat
           /\ LastGTID(disk.log) \in 0..MaxGTID
           /\ \A e \in disk.log : e.gtid <= LastGTID(disk.log)
           /\ disk.log # {} => \E e \in disk.log : e.gtid = LastGTID(disk.log)
<1>1. /\ src.log \in SUBSET SourceEntry /\ src.live \in SUBSET (1..MaxGTID)
      /\ src.last \in 0..MaxGTID /\ src.info \in Nat
      /\ disk.log \in SUBSET MemberEntry /\ disk.minLive \in Nat /\ disk.minUnapplied \in Nat
      /\ info.read \in Mins /\ info.wrote \in Mins /\ info.busy \in BOOLEAN
  BY ZenonT(30) DEF TypeOK
<1>2. \A e \in src.log : e \in SourceEntry /\ e.gtid \in 1..MaxGTID /\ e.from \in Nat
  BY ZenonT(30), <1>1 DEF SourceEntry
<1>3. \A e \in disk.log : e \in MemberEntry /\ e.gtid \in 1..MaxGTID /\ e.a \in BOOLEAN
  BY ZenonT(30), <1>1 DEF MemberEntry
<1>4. /\ mem.lastLive \in Nat /\ mem.lastUnapplied \in Nat /\ mem.minUnapplied \in Nat
      /\ info.read.lastLive \in Nat /\ info.read.minUnapplied \in Nat
  BY ZenonT(30), <1>1 DEF TypeOK, Mins
<1>5. /\ LastGTID(disk.log) \in 0..MaxGTID
      /\ \A e \in disk.log : e.gtid <= LastGTID(disk.log)
      /\ disk.log # {} => \E e \in disk.log : e.gtid = LastGTID(disk.log)
  BY ZenonT(30), <1>3, LastFacts
<1>. QED
  BY ZenonT(30), <1>1, <1>2, <1>3, <1>4, <1>5, MemberAssumption

-----------------------------------------------------------------------------
(* The steps of the primary.                                               *)

LEMMA MinFacts ==
    ASSUME NEW live \in SUBSET Nat, NEW last \in Nat,
           NEW m, m = IF live = {} THEN last + 1 ELSE Min(live)
    PROVE  /\ m \in Nat
           /\ live = {} => m = last + 1
           /\ live # {} => m \in live
           /\ \A g \in live : m <= g
<1>1. CASE live = {}
  BY <1>1
<1>2. CASE live # {}
  BY ZenonT(30), <1>2, MinIsLeast
<1>. QED
  BY ZenonT(30), <1>1, <1>2

LEMMA MinLiveFacts ==
    ASSUME TypeOK
    PROVE  /\ minLive \in Nat
           /\ src.live = {} => minLive = src.last + 1
           /\ src.live # {} => minLive \in src.live
           /\ \A g \in src.live : minLive <= g
<1>1. src.live \in SUBSET Nat /\ src.last \in Nat
  BY TypeFacts
<1>. QED
  BY <1>1, MinFacts DEF minLive

\* What a step of the same primary does.
SourceGoesOn ==
    /\ UNCHANGED memberVars /\ epoch' = epoch
    /\ TypeOK' /\ SourceInv'
    /\ \A g \in 1..MaxGTID : Failed(g) => Failed(g)'
    /\ minLive <= minLive'
    /\ src.log \subseteq src'.log
    /\ \A e \in src'.log \ src.log :
          e.gtid >= minLive /\ e.from = epoch /\ \A f \in src.log : f.gtid # e.gtid

LEMMA GetGTIDGoesOn == ASSUME TypeOK, SourceInv, GetGTID PROVE SourceGoesOn
<1>1. /\ src'.log = src.log /\ src'.live = src.live \cup {src.last + 1}
      /\ src'.last = src.last + 1 /\ src'.info = src.info /\ src.last < MaxGTID
      /\ UNCHANGED memberVars /\ epoch' = epoch
  <2>1. src.last < MaxGTID - 1
    BY ZenonT(30) DEF GetGTID
  <2>2. src.last < MaxGTID
    BY <2>1, TypeFacts
  <2>. QED
    BY ZenonT(30), <2>2 DEF TypeOK, GetGTID
<1>2. src' \in [log : SUBSET SourceEntry, live : SUBSET (1..MaxGTID), last : 0..MaxGTID, info : Nat]
  <2>1. src.last + 1 \in 0..MaxGTID /\ src.live \cup {src.last + 1} \in SUBSET (1..MaxGTID)
    BY <1>1, TypeFacts
  <2>2. src' = [src EXCEPT !.last = src.last + 1, !.live = src.live \cup {src.last + 1}]
    BY ZenonT(30) DEF GetGTID
  <2>. QED
    BY ZenonT(30), <2>1, <2>2 DEF TypeOK
<1>3. TypeOK'
  BY ZenonT(30), <1>1, <1>2 DEF TypeOK, memberVars
<1>4. minLive' \in src'.live /\ minLive' \in Nat
  <2>1. src'.live \in SUBSET Nat /\ src'.last \in Nat
    BY <1>1, TypeFacts
  <2>. QED
    BY ZenonT(30), <1>1, <2>1, MinFacts DEF minLive
<1>5. \A g \in src'.live : minLive <= g
  BY <1>1, MinLiveFacts, TypeFacts DEF SourceInv
<1>6. SourceInv'
  <2>1. src'.live \subseteq 1..src'.last
    BY <1>1, TypeFacts DEF SourceInv
  <2>2. \A e \in src'.log : e.gtid <= src'.last /\ e.from <= epoch'
    BY <1>1, TypeFacts DEF SourceInv
  <2>3. src'.info <= minLive'
    BY <1>1, <1>4, <1>5, MinLiveFacts, TypeFacts DEF SourceInv
  <2>. QED
    BY ZenonT(30), <1>1, <2>1, <2>2, <2>3 DEF SourceInv
<1>7. \A g \in 1..MaxGTID : Failed(g) => Failed(g)'
  BY <1>1, TypeFacts DEF Failed
<1>. QED
  BY ZenonT(30), <1>1, <1>3, <1>4, <1>5, <1>6, <1>7 DEF SourceGoesOn

LEMMA KeepAliveGoesOn == ASSUME TypeOK, SourceInv, keepOplogAlive PROVE SourceGoesOn
<1>. DEFINE new == [gtid |-> src.last + 1, from |-> epoch]
<1>1. /\ src'.log = src.log \cup {new} /\ src'.live = src.live
      /\ src'.last = src.last + 1 /\ src'.info = src.info /\ src.last < MaxGTID
      /\ UNCHANGED memberVars /\ epoch' = epoch
  BY ZenonT(30) DEF TypeOK, keepOplogAlive
<1>2. src' \in [log : SUBSET SourceEntry, live : SUBSET (1..MaxGTID), last : 0..MaxGTID, info : Nat]
  <2>1. src.last + 1 \in 0..MaxGTID /\ src.last + 1 \in 1..MaxGTID
    BY <1>1, TypeFacts
  <2>2. new \in SourceEntry
    BY ZenonT(30), <2>1 DEF SourceEntry, TypeOK
  <2>3. src' = [src EXCEPT !.last = src.last + 1, !.log = src.log \cup {new}]
    BY ZenonT(30) DEF keepOplogAlive
  <2>. QED
    BY ZenonT(30), <2>1, <2>2, <2>3 DEF TypeOK
<1>3. TypeOK'
  BY ZenonT(30), <1>1, <1>2 DEF TypeOK, memberVars
<1>4. /\ minLive' \in Nat /\ minLive <= minLive'
      /\ minLive <= src.last + 1
  <2>1. src.live # {} => minLive' = minLive
    BY ZenonT(30), <1>1 DEF minLive
  <2>2. src.live = {} => minLive' = src.last + 2 /\ minLive = src.last + 1
    BY <1>1, TypeFacts DEF minLive
  <2>3. minLive <= src.last + 1
    BY MinLiveFacts, TypeFacts DEF SourceInv
  <2>. QED
    BY <2>1, <2>2, <2>3, MinLiveFacts, TypeFacts
<1>5. new.gtid = src.last + 1 /\ new.from = epoch
  BY ZenonT(30)
<1>. HIDE DEF new
<1>6. \A e \in src.log : e.gtid # new.gtid
  BY <1>5, TypeFacts DEF SourceInv
<1>7. SourceInv'
  <2>1. \A e \in src'.log : e.gtid <= src'.last /\ e.from <= epoch'
    BY <1>1, <1>5, TypeFacts DEF SourceInv, TypeOK
  <2>2. \A e, f \in src'.log : e.gtid = f.gtid => e = f
    BY ZenonT(30), <1>1, <1>6 DEF SourceInv
  <2>3. src'.live \subseteq 1..src'.last /\ src'.info <= minLive'
    BY <1>1, <1>4, MinLiveFacts, TypeFacts DEF SourceInv
  <2>. QED
    BY ZenonT(30), <1>1, <2>1, <2>2, <2>3 DEF SourceInv
<1>8. \A g \in 1..MaxGTID : Failed(g) => Failed(g)'
  BY <1>1, <1>5, TypeFacts DEF Failed
<1>9. \A e \in src'.log \ src.log :
         e.gtid >= minLive /\ e.from = epoch /\ \A f \in src.log : f.gtid # e.gtid
  <2>1. new.gtid >= minLive
    BY <1>4, <1>5, MinLiveFacts, TypeFacts
  <2>. QED
    BY ZenonT(30), <1>1, <1>5, <1>6, <2>1
<1>. QED
  BY ZenonT(30), <1>1, <1>3, <1>4, <1>7, <1>8, <1>9 DEF SourceGoesOn

LEMMA CommitGoesOn == ASSUME TypeOK, SourceInv, NEW g \in 1..MaxGTID, Commit(g) PROVE SourceGoesOn
<1>. DEFINE new == [gtid |-> g, from |-> epoch]
<1>1. /\ src'.log = src.log \cup {new} /\ src'.live = src.live
      /\ src'.last = src.last /\ src'.info = src.info
      /\ g \in src.live /\ \A e \in src.log : e.gtid # g
      /\ UNCHANGED memberVars /\ epoch' = epoch
  BY ZenonT(30) DEF TypeOK, Commit
<1>2. src' \in [log : SUBSET SourceEntry, live : SUBSET (1..MaxGTID), last : 0..MaxGTID, info : Nat]
  <2>1. new \in SourceEntry
    BY ZenonT(30) DEF SourceEntry, TypeOK
  <2>. QED
    BY ZenonT(30), <2>1, TypeFacts DEF TypeOK, Commit
<1>3. TypeOK'
  BY ZenonT(30), <1>1, <1>2 DEF TypeOK, memberVars
<1>4. minLive' = minLive
  BY ZenonT(30), <1>1 DEF minLive
<1>5. new.gtid = g /\ new.from = epoch
  BY ZenonT(30)
<1>. HIDE DEF new
<1>6. SourceInv'
  <2>1. \A e \in src'.log : e.gtid <= src'.last /\ e.from <= epoch'
    BY <1>1, <1>5, TypeFacts DEF SourceInv, TypeOK
  <2>2. \A e, f \in src'.log : e.gtid = f.gtid => e = f
    BY ZenonT(30), <1>1, <1>5 DEF SourceInv
  <2>. QED
    BY ZenonT(30), <1>1, <1>4, <2>1, <2>2 DEF SourceInv
<1>7. \A h \in 1..MaxGTID : Failed(h) => Failed(h)'
  BY ZenonT(30), <1>1, <1>5 DEF Failed
<1>. QED
  BY ZenonT(30), <1>1, <1>3, <1>4, <1>5, <1>6, <1>7, MinLiveFacts DEF SourceGoesOn

LEMMA GTIDDoneGoesOn == ASSUME TypeOK, SourceInv, NEW g \in 1..MaxGTID, GTIDDone(g) PROVE SourceGoesOn
<1>1. /\ src'.log = src.log /\ src'.live = src.live \ {g}
      /\ src'.last = src.last /\ src'.info = src.info
      /\ UNCHANGED memberVars /\ epoch' = epoch
  BY ZenonT(30) DEF TypeOK, GTIDDone
<1>2. src' \in [log : SUBSET SourceEntry, live : SUBSET (1..MaxGTID), last : 0..MaxGTID, info : Nat]
  BY ZenonT(30), TypeFacts DEF TypeOK, GTIDDone
<1>3. TypeOK'
  BY ZenonT(30), <1>1, <1>2 DEF TypeOK, memberVars
<1>4. /\ minLive' \in Nat /\ (src'.live = {} => minLive' = src'.last + 1)
      /\ (src'.live # {} => minLive' \in src'.live)
  <2>1. src'.live \in SUBSET Nat /\ src'.last \in Nat
    BY <1>1, TypeFacts
  <2>. QED
    BY <2>1, MinFacts DEF minLive
<1>5. minLive <= src.last + 1
  BY MinLiveFacts, TypeFacts DEF SourceInv
<1>6. minLive <= minLive'
  BY ZenonT(30), <1>1, <1>4, <1>5, MinLiveFacts
<1>7. SourceInv'
  BY <1>1, <1>4, <1>6, MinLiveFacts, TypeFacts DEF SourceInv
<1>8. \A h \in 1..MaxGTID : Failed(h) => Failed(h)'
  BY ZenonT(30), <1>1 DEF Failed
<1>. QED
  BY ZenonT(30), <1>1, <1>3, <1>6, <1>7, <1>8 DEF SourceGoesOn

LEMMA SourceReplInfoGoesOn == ASSUME TypeOK, SourceInv, SourceReplInfo PROVE SourceGoesOn
<1>1. /\ src'.log = src.log /\ src'.live = src.live
      /\ src'.last = src.last /\ src'.info = minLive
      /\ UNCHANGED memberVars /\ epoch' = epoch
  BY ZenonT(30) DEF TypeOK, SourceReplInfo
<1>2. src' \in [log : SUBSET SourceEntry, live : SUBSET (1..MaxGTID), last : 0..MaxGTID, info : Nat]
  BY ZenonT(30), MinLiveFacts DEF TypeOK, SourceReplInfo
<1>3. TypeOK'
  BY ZenonT(30), <1>1, <1>2 DEF TypeOK, memberVars
<1>4. minLive' = minLive
  BY ZenonT(30), <1>1 DEF minLive
<1>5. SourceInv'
  BY <1>1, <1>4, MinLiveFacts DEF SourceInv
<1>6. \A h \in 1..MaxGTID : Failed(h) => Failed(h)'
  BY ZenonT(30), <1>1 DEF Failed
<1>. QED
  BY <1>1, <1>3, <1>4, <1>5, <1>6, MinLiveFacts DEF SourceGoesOn

\* Another primary has a prefix of what was visible, and gives out no GTID of a
\* commit that failed.
SourceChanges ==
    /\ UNCHANGED memberVars /\ epoch' = epoch + 1
    /\ TypeOK' /\ SourceInv'
    /\ \A g \in 1..MaxGTID : Failed(g) => Failed(g)'
    /\ \E g \in 1..MaxGTID : src'.log = UpTo(Visible, g)
    /\ \A e \in src'.log : e.gtid < minLive'

LEMMA TakeOverChanges == ASSUME TypeOK, SourceInv, NEW g \in 1..MaxGTID, TakeOver(g) PROVE SourceChanges
<1>1. PICK i \in 1..(g + 1), l \in {src.last} \cup (IF NoneFailedAbove(g) THEN {g} ELSE {}) :
         src' = [log |-> {e \in Visible : e.gtid <= g}, live |-> {}, last |-> l, info |-> i]
  BY ZenonT(30) DEF TakeOver
<1>2. /\ src'.log = UpTo(Visible, g) /\ src'.live = {} /\ src'.last = l /\ src'.info = i
      /\ UNCHANGED memberVars /\ epoch' = epoch + 1 /\ epoch \in Nat
  BY ZenonT(30), <1>1 DEF UpTo, TakeOver, TypeOK
<1>3. PICK e \in Visible : e.gtid = g
  BY ZenonT(30) DEF TakeOver
<1>4. g <= src.last /\ l \in 0..MaxGTID /\ g <= l /\ i \in Nat /\ i <= l + 1
  BY <1>1, <1>3, TypeFacts DEF SourceInv, Visible
<1>5. TypeOK'
  <2>1. UpTo(Visible, g) \in SUBSET SourceEntry
    BY ZenonT(30), TypeFacts DEF UpTo, Visible
  <2>2. src' \in [log : SUBSET SourceEntry, live : SUBSET (1..MaxGTID), last : 0..MaxGTID, info : Nat]
    BY ZenonT(30), <1>1, <1>4, <2>1 DEF UpTo
  <2>3. epoch' \in Nat \ {0} /\ conn' <= epoch'
    BY <1>2 DEF TypeOK, memberVars
  <2>. QED
    BY ZenonT(30), <1>2, <2>2, <2>3 DEF TypeOK, memberVars
<1>6. minLive' = l + 1
  BY ZenonT(30), <1>2 DEF minLive
<1>7. \A f \in src'.log : f \in src.log /\ f.gtid <= g
  BY ZenonT(30), <1>2 DEF UpTo, Visible
<1>8. SourceInv'
  <2>1. e \in src'.log
    BY <1>2, <1>3 DEF UpTo
  <2>2. \A f \in src'.log : f.gtid <= src'.last /\ f.from <= epoch'
    BY <1>2, <1>4, <1>7, TypeFacts DEF SourceInv
  <2>. QED
    BY ZenonT(30), <1>2, <1>4, <1>6, <1>7, <2>1, <2>2 DEF SourceInv
<1>9. ASSUME NEW h \in 1..MaxGTID, Failed(h) PROVE Failed(h)'
  <2>1. h <= l
    <3>1. CASE l = src.last
      BY ZenonT(30), <1>9, <3>1 DEF Failed
    <3>2. CASE NoneFailedAbove(g)
      <4>1. ~ (h \in (g + 1)..src.last)
        BY ZenonT(30), <1>9, <3>2 DEF NoneFailedAbove, Failed
      <4>. QED
        BY <1>4, <1>9, <4>1, TypeFacts DEF Failed
    <3>. QED
      BY ZenonT(30), <1>1, <3>1, <3>2
  <2>. QED
    BY ZenonT(30), <1>2, <1>7, <1>9, <2>1 DEF Failed
<1>10. \A f \in src'.log : f.gtid < minLive'
  BY <1>4, <1>6, <1>7, TypeFacts
<1>. QED
  BY ZenonT(30), <1>2, <1>5, <1>8, <1>9, <1>10 DEF SourceChanges

SourceStep ==
    \/ GetGTID \/ keepOplogAlive \/ SourceReplInfo
    \/ \E g \in 1..MaxGTID : Commit(g) \/ GTIDDone(g) \/ TakeOver(g)

LEMMA SourceStepFacts == ASSUME TypeOK, SourceInv, SourceStep PROVE SourceGoesOn \/ SourceChanges
  BY ZenonT(30), GetGTIDGoesOn, KeepAliveGoesOn, SourceReplInfoGoesOn, CommitGoesOn, GTIDDoneGoesOn, TakeOverChanges DEF SourceStep

\* Whatever the primary does, what the member's replInfo claims stays safe.
LEMMA SourceStepInv == ASSUME ReplInfoInv, SourceStep PROVE ReplInfoInv'
<1>1. /\ UNCHANGED memberVars /\ TypeOK' /\ SourceInv'
      /\ \A g \in 1..MaxGTID : Failed(g) => Failed(g)'
  BY ZenonT(30), SourceStepFacts DEF ReplInfoInv, SourceGoesOn, SourceChanges
<1>2. /\ disk' = disk /\ phase' = phase /\ mem' = mem /\ applying' = applying
      /\ todo' = todo /\ info' = info
  BY ZenonT(30), <1>1 DEF memberVars
<1>3. Unapplied' = Unapplied
  BY ZenonT(30), <1>2 DEF Unapplied
<1>4. DiskInv'
  BY ZenonT(30), <1>1, <1>2, <1>3 DEF ReplInfoInv, DiskInv
<1>5. PhaseInv'
  BY ZenonT(30), <1>2, <1>3 DEF ReplInfoInv, PhaseInv, LiveInv, RollbackInv
<1>6. InfoInv'
  BY ZenonT(30), <1>2, <1>3 DEF ReplInfoInv, InfoInv
<1>. QED
  BY ZenonT(30), <1>1, <1>4, <1>5, <1>6 DEF ReplInfoInv

-----------------------------------------------------------------------------
(* Startup and initial sync.                                               *)

LEMMA SourceSame ==
    ASSUME SourceInv, UNCHANGED <<src, epoch>>
    PROVE  SourceInv' /\ minLive' = minLive /\ \A g : Failed(g)' <=> Failed(g)
  BY ZenonT(30) DEF SourceInv, minLive, Failed

\* Steps that leave the disk alone and after which nothing is live.
LEMMA QuietStep ==
    ASSUME ReplInfoInv, UNCHANGED <<src, epoch, disk>>, TypeOK', applying' = 0, info'.busy = FALSE,
           phase' \in {"down", "fullSync", "dropped", "applyMissing", "stopped"}
    PROVE  ReplInfoInv'
<1>1. SourceInv' /\ DiskInv'
  BY ZenonT(30), SourceSame DEF ReplInfoInv, DiskInv, Unapplied
<1>2. PhaseInv' /\ InfoInv'
  BY ZenonT(30) DEF PhaseInv, InfoInv
<1>. QED
  BY ZenonT(30), <1>1, <1>2 DEF ReplInfoInv

LEMMA NotBusy ==
    ASSUME ReplInfoInv, phase \notin {"live", "reset", "purge", "fatal"}
    PROVE  info.busy = FALSE /\ applying = 0
  BY ZenonT(30), TypeFacts DEF ReplInfoInv, InfoInv, PhaseInv

LEMMA QuietSteps ==
    ASSUME ReplInfoInv, Start \/ DropDatabases \/ CloneFails \/ fillGapsThrows \/ Crash
    PROVE  ReplInfoInv'
<1>1. CASE Start
  <2>1. /\ UNCHANGED <<src, epoch, disk>> /\ phase' \in {"fullSync", "applyMissing"}
        /\ applying' = 0 /\ info'.busy = FALSE
    BY ZenonT(30), <1>1, NotBusy DEF Start
  <2>2. TypeOK'
    BY <1>1, TypeFacts DEF Start, ReplInfoInv, TypeOK, Mins, NoMemory
  <2>. QED
    BY ZenonT(30), <2>1, <2>2, QuietStep
<1>2. CASE DropDatabases
  <2>1. /\ UNCHANGED <<src, epoch, disk>> /\ phase' = "dropped"
        /\ applying' = 0 /\ info'.busy = FALSE
    BY ZenonT(30), <1>2, NotBusy DEF DropDatabases
  <2>2. TypeOK'
    BY <1>2 DEF DropDatabases, ReplInfoInv, TypeOK
  <2>. QED
    BY ZenonT(30), <2>1, <2>2, QuietStep
<1>3. CASE CloneFails \/ fillGapsThrows
  <2>1. /\ UNCHANGED <<src, epoch, disk, conn, mem, applying, todo, info>>
        /\ phase \in {"clone", "fillGaps"} /\ phase' \in {"fullSync", "stopped"}
    BY ZenonT(30), <1>3 DEF CloneFails, fillGapsThrows
  <2>2. TypeOK'
    BY ZenonT(30), <2>1 DEF ReplInfoInv, TypeOK
  <2>3. applying' = 0 /\ info'.busy = FALSE
    BY ZenonT(30), <2>1, NotBusy
  <2>. QED
    BY ZenonT(30), <2>1, <2>2, <2>3, QuietStep
<1>4. CASE Crash
  <2>1. /\ UNCHANGED <<src, epoch, disk>> /\ phase' = "down"
        /\ applying' = 0 /\ info'.busy = FALSE
    BY ZenonT(30), <1>4 DEF Crash, NoInfo
  <2>2. NoMemory \in Mins /\ NoInfo \in [read : Mins, wrote : Mins, busy : BOOLEAN]
    BY ZenonT(30) DEF NoMemory, NoInfo, Mins
  <2>3. TypeOK'
    BY <1>4, <2>2 DEF Crash, ReplInfoInv, TypeOK
  <2>. QED
    BY ZenonT(30), <2>1, <2>3, QuietStep
<1>. QED
  BY ZenonT(30), <1>1, <1>2, <1>3, <1>4

LEMMA DeleteInv == ASSUME ReplInfoInv, deleteOplogFiles PROVE ReplInfoInv'
<1>1. /\ UNCHANGED <<src, epoch>> /\ disk' = [log |-> {}, minLive |-> 0, minUnapplied |-> 0]
      /\ phase' = "clone" /\ applying' = 0 /\ info'.busy = FALSE
  BY ZenonT(30), NotBusy DEF deleteOplogFiles
<1>2. TypeOK'
  BY <1>1 DEF deleteOplogFiles, ReplInfoInv, TypeOK
<1>3. SourceInv'
  BY ZenonT(30), <1>1, SourceSame DEF ReplInfoInv
<1>4. disk'.log = {} /\ disk'.minUnapplied = 0
  BY ZenonT(30), <1>1
<1>5. DiskInv'
  BY <1>4, MemberAssumption DEF DiskInv, Unapplied
<1>6. PhaseInv' /\ InfoInv'
  BY ZenonT(30), <1>1 DEF PhaseInv, InfoInv
<1>. QED
  BY ZenonT(30), <1>2, <1>3, <1>5, <1>6 DEF ReplInfoInv

\* The oplog is cloned with the replInfo of the primary: what is below its
\* minLive and not in its oplog has failed.
LEMMA CloneInv == ASSUME ReplInfoInv, Clone PROVE ReplInfoInv'
<1>. DEFINE new == WithBits(src.log, TRUE)
<1>1. /\ TypeOK /\ SourceInv /\ UNCHANGED <<src, epoch>>
      /\ disk' = [log |-> new, minLive |-> src.info, minUnapplied |-> src.info]
      /\ phase' = "fillGaps" /\ applying' = 0 /\ info'.busy = FALSE
  BY ZenonT(30), NotBusy DEF Clone, ReplInfoInv, WithBits
<1>0. src.log \in SUBSET SourceEntry
  BY ZenonT(30), <1>1, TypeFacts
<1>2. /\ new \in SUBSET MemberEntry
      /\ \A f \in new : f.a = TRUE /\ \E e \in src.log : f = WithBit(e, TRUE) /\ f.gtid = e.gtid
  BY ZenonT(30), <1>0, BitFacts
<1>3. \A e \in src.log : \E f \in new : f.gtid = e.gtid
  BY ZenonT(30), <1>0, BitFacts
<1>4. disk'.log = new /\ disk'.minLive = src.info /\ disk'.minUnapplied = src.info
  BY ZenonT(30), <1>1
<1>. HIDE DEF new
<1>5. TypeOK'
  <2>1. disk' \in [log : SUBSET MemberEntry, minLive : Nat, minUnapplied : Nat]
    BY ZenonT(30), <1>1, <1>2, TypeFacts
  <2>. QED
    BY ZenonT(30), <1>1, <2>1 DEF TypeOK, Clone
<1>6. SourceInv' /\ \A g : Failed(g)' <=> Failed(g)
  BY ZenonT(30), <1>1, SourceSame
<1>7. Unapplied' = {}
  BY ZenonT(30), <1>2, <1>4 DEF Unapplied
<1>8. ASSUME NEW g \in 1..MaxGTID, LastGTID(new) < g, g < src.info PROVE Failed(g)
  <2>1. \A f \in new : f.gtid \in 1..MaxGTID
    BY ZenonT(30), <1>2 DEF MemberEntry
  <2>2. LastGTID(new) \in 0..MaxGTID /\ \A f \in new : f.gtid <= LastGTID(new)
    BY ZenonT(30), <2>1, LastFacts
  <2>3. \A e \in src.log : e.gtid # g
    BY <1>3, <1>8, <2>1, <2>2
  <2>4. g \notin src.live /\ g <= src.last
    BY <1>1, <1>8, MinLiveFacts, TypeFacts DEF SourceInv
  <2>. QED
    BY ZenonT(30), <2>3, <2>4 DEF Failed
<1>9. \A e, f \in new : e.gtid = f.gtid => e = f
  BY ZenonT(30), <1>1, <1>2 DEF SourceInv
<1>10. DiskInv'
  BY ZenonT(30), <1>4, <1>6, <1>7, <1>8, <1>9 DEF DiskInv
<1>11. PhaseInv' /\ InfoInv'
  BY ZenonT(30), <1>1, <1>4, <1>7 DEF PhaseInv, InfoInv
<1>. QED
  BY ZenonT(30), <1>5, <1>6, <1>10, <1>11 DEF ReplInfoInv

\* The gaps that are filled are not below the minUnapplied that was cloned.
LEMMA FillGapsInv == ASSUME ReplInfoInv, fillGaps PROVE ReplInfoInv'
<1>. DEFINE new == WithBits(Gaps, FALSE)
<1>1. /\ TypeOK /\ SourceInv /\ DiskInv /\ UNCHANGED <<src, epoch>>
      /\ disk' = [disk EXCEPT !.log = disk.log \cup new]
      /\ phase' = "applyMissing" /\ applying' = 0 /\ info'.busy = FALSE
      /\ Unapplied = {} /\ disk.minLive = disk.minUnapplied
  BY ZenonT(30), NotBusy DEF fillGaps, ReplInfoInv, PhaseInv, WithBits
<1>2. \A e \in Gaps : /\ e \in src.log /\ e.gtid >= disk.minLive
                      /\ \A f \in disk.log : f.gtid # e.gtid
  BY ZenonT(30) DEF Gaps, Visible
<1>3. /\ new \in SUBSET MemberEntry
      /\ \A f \in new : \E e \in Gaps : f = WithBit(e, FALSE) /\ f.gtid = e.gtid
  <2>1. Gaps \in SUBSET SourceEntry
    BY ZenonT(30), <1>1, <1>2, TypeFacts
  <2>. QED
    BY ZenonT(30), <2>1, BitFacts
<1>. HIDE DEF new
<1>4. /\ disk'.log = disk.log \cup new /\ disk'.minUnapplied = disk.minUnapplied
      /\ disk' \in [log : SUBSET MemberEntry, minLive : Nat, minUnapplied : Nat]
  BY ZenonT(30), <1>1, <1>3, TypeFacts DEF TypeOK
<1>5. TypeOK'
  BY ZenonT(30), <1>1, <1>4 DEF TypeOK, fillGaps
<1>6. SourceInv' /\ \A g : Failed(g)' <=> Failed(g)
  BY ZenonT(30), <1>1, SourceSame
<1>7. \A e, f \in disk'.log : e.gtid = f.gtid => e = f
  <2>1. \A e, f \in new : e.gtid = f.gtid => e = f
    <3>1. \A e, f \in Gaps : e.gtid = f.gtid => e = f
      BY ZenonT(30), <1>1, <1>2 DEF SourceInv
    <3>. QED
      BY ZenonT(30), <1>3, <3>1
  <2>2. \A e \in new, f \in disk.log : e.gtid # f.gtid
    BY ZenonT(30), <1>2, <1>3
  <2>. QED
    BY <1>1, <1>4, <2>1, <2>2 DEF DiskInv
<1>8. \A e \in Unapplied' : e.gtid >= disk'.minUnapplied
  BY ZenonT(30), <1>1, <1>2, <1>3, <1>4 DEF Unapplied
<1>9. LastGTID(disk.log) <= LastGTID(disk'.log) /\ LastGTID(disk'.log) \in 0..MaxGTID
  <2>1. /\ \A e \in disk.log : e.gtid \in 1..MaxGTID
        /\ \A e \in disk'.log : e.gtid \in 1..MaxGTID
    BY <1>4 DEF MemberEntry
  <2>. QED
    BY ZenonT(30), <1>4, <2>1, LastIsMonotonic, LastFacts
<1>10. DiskInv'
  <2>1. \A g \in 1..MaxGTID : LastGTID(disk'.log) < g /\ g < disk'.minUnapplied => Failed(g)'
    BY <1>1, <1>4, <1>6, <1>9, TypeFacts DEF DiskInv
  <2>. QED
    BY ZenonT(30), <1>7, <1>8, <2>1 DEF DiskInv
<1>11. PhaseInv' /\ InfoInv'
  BY ZenonT(30), <1>1 DEF PhaseInv, InfoInv
<1>. QED
  BY ZenonT(30), <1>5, <1>6, <1>10, <1>11 DEF ReplInfoInv

LEMMA FindMissingInv == ASSUME ReplInfoInv, FindMissing PROVE ReplInfoInv'
<1>1. /\ TypeOK /\ SourceInv /\ DiskInv /\ UNCHANGED <<src, epoch, disk>>
      /\ todo' = {e \in disk.log : ~ e.a /\ e.gtid >= disk.minUnapplied}
      /\ phase' = "applying" /\ applying' = 0 /\ info'.busy = FALSE
  BY ZenonT(30), NotBusy DEF FindMissing, ReplInfoInv
<1>2. todo' = Unapplied /\ Unapplied' = Unapplied
  BY ZenonT(30), <1>1 DEF DiskInv, Unapplied
<1>3. TypeOK'
  BY ZenonT(30), <1>1, <1>2, TypeFacts DEF TypeOK, FindMissing, Unapplied
<1>4. SourceInv' /\ DiskInv'
  BY ZenonT(30), <1>1, <1>2, SourceSame DEF DiskInv
<1>5. PhaseInv' /\ InfoInv'
  BY ZenonT(30), <1>1, <1>2 DEF PhaseInv, InfoInv
<1>. QED
  BY ZenonT(30), <1>3, <1>4, <1>5 DEF ReplInfoInv

\* applyTransactionFromOplog changes nothing but the bit.
LEMMA ApplyFacts ==
    ASSUME TypeOK, NEW e \in Unapplied, ApplyEntry(e)
    PROVE  /\ disk' \in [log : SUBSET MemberEntry, minLive : Nat, minUnapplied : Nat]
           /\ disk'.minLive = disk.minLive /\ disk'.minUnapplied = disk.minUnapplied
           /\ disk'.log = (disk.log \ {e}) \cup {WithBit(e, TRUE)}
           /\ Unapplied' = Unapplied \ {e}
           /\ LastGTID(disk'.log) = LastGTID(disk.log)
           /\ DiskInv /\ UNCHANGED <<src, epoch>> => DiskInv'
           /\ Entries(disk'.log) = Entries(disk.log)
<1>. DEFINE new == WithBit(e, TRUE)
<1>1. e \in disk.log /\ e \in MemberEntry /\ ~ e.a
  BY ZenonT(30), TypeFacts DEF Unapplied
<1>2. new \in MemberEntry /\ new.gtid = e.gtid /\ new.a = TRUE /\ Entry(new) = Entry(e)
  BY ZenonT(30), <1>1, MemberEntryFacts, EntryFacts
<1>. HIDE DEF new
<1>3. /\ disk'.minLive = disk.minLive /\ disk'.minUnapplied = disk.minUnapplied
      /\ disk'.log = (disk.log \ {e}) \cup {new}
      /\ disk' \in [log : SUBSET MemberEntry, minLive : Nat, minUnapplied : Nat]
  <2>1. disk' = [disk EXCEPT !.log = (disk.log \ {e}) \cup {new}]
    BY ZenonT(30) DEF ApplyEntry, new
  <2>2. (disk.log \ {e}) \cup {new} \in SUBSET MemberEntry
    BY ZenonT(30), <1>2, TypeFacts
  <2>. QED
    BY ZenonT(30), <2>1, <2>2 DEF TypeOK
<1>4. Unapplied' = Unapplied \ {e}
  BY ZenonT(30), <1>2, <1>3 DEF Unapplied
<1>5. LastGTID(disk'.log) = LastGTID(disk.log)
  <2>1. {f.gtid : f \in disk'.log} = {f.gtid : f \in disk.log}
    BY ZenonT(30), <1>1, <1>2, <1>3
  <2>. QED
    BY ZenonT(30), <2>1 DEF LastGTID
<1>6. ASSUME DiskInv, UNCHANGED <<src, epoch>> PROVE DiskInv'
  <2>1. \A f, g \in disk'.log : f.gtid = g.gtid => f = g
    BY ZenonT(30), <1>1, <1>2, <1>3, <1>6 DEF DiskInv
  <2>2. \A f \in Unapplied' : f.gtid >= disk'.minUnapplied
    BY ZenonT(30), <1>3, <1>4, <1>6 DEF DiskInv
  <2>3. \A g \in 1..MaxGTID : LastGTID(disk'.log) < g /\ g < disk'.minUnapplied => Failed(g)'
    BY ZenonT(30), <1>3, <1>5, <1>6 DEF DiskInv, Failed
  <2>. QED
    BY ZenonT(30), <2>1, <2>2, <2>3 DEF DiskInv
<1>7. Entries(disk'.log) = Entries(disk.log)
  BY ZenonT(30), <1>1, <1>2, <1>3 DEF Entries
<1>. QED
  BY ZenonT(30), <1>3, <1>4, <1>5, <1>6, <1>7 DEF new

LEMMA ApplyMissingInv == ASSUME ReplInfoInv, ApplyMissing PROVE ReplInfoInv'
<1>1. /\ TypeOK /\ SourceInv /\ DiskInv /\ UNCHANGED <<src, epoch>> /\ todo = Unapplied
      /\ phase' = "applying" /\ applying' = 0 /\ info'.busy = FALSE
  BY ZenonT(30), NotBusy DEF ApplyMissing, ReplInfoInv, PhaseInv
<1>. DEFINE e == CHOOSE f \in todo : \A g \in todo : f.gtid <= g.gtid
<1>2. e \in todo
  <2>1. {f.gtid : f \in todo} \in SUBSET Nat /\ {f.gtid : f \in todo} # {}
    BY <1>1, TypeFacts DEF ApplyMissing, Unapplied
  <2>2. \E x \in {f.gtid : f \in todo} : \A y \in {f.gtid : f \in todo} : x <= y
    BY ZenonT(30), <2>1, NatMin
  <2>3. \E f \in todo : \A g \in todo : f.gtid <= g.gtid
    BY ZenonT(30), <2>2
  <2>. QED
    BY ZenonT(30), <2>3
<1>3. ApplyEntry(e) /\ todo' = todo \ {e}
  BY ZenonT(30) DEF ApplyMissing
<1>. HIDE DEF e
<1>4. DiskInv' /\ Unapplied' = Unapplied \ {e}
  BY ZenonT(30), <1>1, <1>2, <1>3, ApplyFacts
<1>5. TypeOK'
  <2>1. disk' \in [log : SUBSET MemberEntry, minLive : Nat, minUnapplied : Nat]
    BY ZenonT(30), <1>1, <1>2, <1>3, ApplyFacts
  <2>. QED
    BY ZenonT(30), <1>1, <1>3, <2>1 DEF TypeOK, ApplyMissing
<1>6. SourceInv'
  BY ZenonT(30), <1>1, SourceSame
<1>7. PhaseInv' /\ InfoInv'
  BY ZenonT(30), <1>1, <1>3, <1>4 DEF PhaseInv, InfoInv
<1>. QED
  BY ZenonT(30), <1>4, <1>5, <1>6, <1>7 DEF ReplInfoInv

LEMMA ResetFacts ==
    ASSUME NEW g \in Nat
    PROVE  /\ ResetTo(g) \in Mins /\ ResetTo(g).lastLive = g
           /\ ResetTo(g).lastUnapplied = g /\ ResetTo(g).minUnapplied = g + 1
  BY DEF ResetTo, Mins

LEMMA GoLiveInv == ASSUME ReplInfoInv, GoLive PROVE ReplInfoInv'
<1>1. /\ TypeOK /\ SourceInv /\ DiskInv /\ UNCHANGED <<src, epoch, disk>> /\ Unapplied = {}
      /\ phase' = "live" /\ applying' = 0 /\ info'.busy = FALSE
      /\ mem' = ResetTo(LastGTID(disk.log)) /\ LastGTID(disk.log) \in Nat
  <2>1. TypeOK /\ SourceInv /\ DiskInv /\ PhaseInv /\ phase = "applying"
    BY ZenonT(30) DEF GoLive, ReplInfoInv
  <2>2. LastGTID(disk.log) \in Nat
    BY <2>1, TypeFacts
  <2>3. Unapplied = {}
    BY ZenonT(30), <2>1 DEF PhaseInv, GoLive
  <2>. QED
    BY ZenonT(30), <2>1, <2>2, <2>3, NotBusy DEF GoLive
<1>2. TypeOK'
  <2>1. mem' \in Mins
    BY ZenonT(30), <1>1, ResetFacts
  <2>. QED
    BY <1>1, <2>1 DEF TypeOK, GoLive
<1>3. SourceInv' /\ DiskInv' /\ Unapplied' = {}
  BY ZenonT(30), <1>1, SourceSame DEF DiskInv, Unapplied
<1>4. PhaseInv' /\ InfoInv'
  BY <1>1, <1>3, ResetFacts DEF PhaseInv, LiveInv, InfoInv
<1>. QED
  BY ZenonT(30), <1>2, <1>3, <1>4 DEF ReplInfoInv

-----------------------------------------------------------------------------
(* Replication.                                                            *)

LEMMA ConnectInv == ASSUME ReplInfoInv, Connect PROVE ReplInfoInv'
<1>1. /\ UNCHANGED <<src, epoch, disk, phase, mem, applying, todo, info>> /\ conn' = epoch
  BY ZenonT(30) DEF Connect
<1>2. TypeOK'
  BY <1>1 DEF ReplInfoInv, TypeOK
<1>3. SourceInv' /\ DiskInv' /\ Unapplied' = Unapplied
  BY ZenonT(30), <1>1, SourceSame DEF ReplInfoInv, DiskInv, Unapplied
<1>4. PhaseInv' /\ InfoInv'
  BY ZenonT(30), <1>1, <1>3 DEF ReplInfoInv, PhaseInv, LiveInv, RollbackInv, InfoInv
<1>. QED
  BY ZenonT(30), <1>2, <1>3, <1>4 DEF ReplInfoInv

\* An entry is written above the last one.
LEMMA WriteFacts ==
    ASSUME ReplInfoInv, WriteEntry
    PROVE  \E e \in Visible :
              /\ e.gtid > LastGTID(disk.log) /\ mem.lastLive = LastGTID(disk.log)
              /\ \A f \in Visible : f.gtid > LastGTID(disk.log) => e.gtid <= f.gtid
              /\ disk' = [disk EXCEPT !.log = disk.log \cup {WithBit(e, FALSE)}]
<1>1. mem.lastLive = LastGTID(disk.log)
  BY TypeFacts DEF WriteEntry, Written, ReplInfoInv, PhaseInv, LiveInv
<1>. QED
  BY ZenonT(30), <1>1 DEF WriteEntry

\* Its commit did not fail, so it is not below the minUnapplied on disk.
LEMMA WriteEntryInv == ASSUME ReplInfoInv, WriteEntry PROVE ReplInfoInv'
<1>1. /\ TypeOK /\ SourceInv /\ DiskInv /\ LiveInv /\ InfoInv /\ phase = "live"
      /\ UNCHANGED <<src, epoch, phase, conn, mem, applying, todo, info>>
  BY ZenonT(30) DEF WriteEntry, ReplInfoInv, PhaseInv
<1>2. PICK e \in Visible :
         /\ e.gtid > LastGTID(disk.log) /\ mem.lastLive = LastGTID(disk.log)
         /\ disk' = [disk EXCEPT !.log = disk.log \cup {WithBit(e, FALSE)}]
  BY ZenonT(30), WriteFacts
<1>. DEFINE new == WithBit(e, FALSE)
<1>3. e \in src.log /\ e \in SourceEntry /\ e.gtid \in 1..MaxGTID
  BY ZenonT(30), <1>1, TypeFacts DEF Visible
<1>4. new \in MemberEntry /\ new.gtid = e.gtid /\ new.a = FALSE
  BY ZenonT(30), <1>3, SourceEntryFacts, EntryFacts
<1>. HIDE DEF new
<1>5. /\ disk'.log = disk.log \cup {new} /\ disk'.minUnapplied = disk.minUnapplied
      /\ disk' \in [log : SUBSET MemberEntry, minLive : Nat, minUnapplied : Nat]
  <2>1. disk.log \cup {new} \in SUBSET MemberEntry
    BY ZenonT(30), <1>1, <1>4, TypeFacts
  <2>. QED
    BY ZenonT(30), <1>1, <1>2, <2>1 DEF TypeOK, new
<1>6. TypeOK'
  BY ZenonT(30), <1>1, <1>5 DEF TypeOK
<1>7. SourceInv' /\ \A g : Failed(g)' <=> Failed(g)
  BY ZenonT(30), <1>1, SourceSame
<1>8. Unapplied' = Unapplied \cup {new}
  BY ZenonT(30), <1>4, <1>5 DEF Unapplied
<1>9. LastGTID(disk.log) <= LastGTID(disk'.log) /\ LastGTID(disk'.log) \in Nat /\ LastGTID(disk.log) \in Nat
  <2>1. /\ \A f \in disk.log : f.gtid \in 1..MaxGTID
        /\ \A f \in disk'.log : f.gtid \in 1..MaxGTID
    BY <1>5 DEF MemberEntry
  <2>. QED
    BY <1>5, <2>1, LastIsMonotonic, LastFacts
<1>10. e.gtid >= disk.minUnapplied
  BY <1>1, <1>2, <1>3, TypeFacts DEF DiskInv, Failed
<1>11. DiskInv'
  <2>0. \A f \in disk.log : f.gtid # new.gtid
    BY <1>1, <1>2, <1>3, <1>4, TypeFacts
  <2>1. \A f, g \in disk'.log : f.gtid = g.gtid => f = g
    BY ZenonT(30), <1>1, <1>5, <2>0 DEF DiskInv
  <2>2. \A f \in Unapplied' : f.gtid >= disk'.minUnapplied
    BY ZenonT(30), <1>1, <1>4, <1>5, <1>8, <1>10 DEF DiskInv
  <2>3. \A g \in 1..MaxGTID : LastGTID(disk'.log) < g /\ g < disk'.minUnapplied => Failed(g)'
    BY <1>1, <1>5, <1>7, <1>9 DEF DiskInv
  <2>. QED
    BY ZenonT(30), <2>1, <2>2, <2>3 DEF DiskInv
<1>12. LiveInv'
  <2>1. mem'.lastLive <= LastGTID(disk'.log)
    BY ZenonT(30), <1>1, <1>2, <1>9, TypeFacts
  <2>2. \A f \in Unapplied' : f.gtid = applying \/ f.gtid > mem.lastUnapplied
    BY <1>1, <1>2, <1>3, <1>4, <1>8, TypeFacts DEF LiveInv
  <2>. QED
    BY ZenonT(30), <1>1, <2>1, <2>2 DEF LiveInv
<1>13. PhaseInv'
  BY ZenonT(30), <1>1, <1>12 DEF PhaseInv
<1>14. InfoInv'
  <2>. SUFFICES ASSUME info.busy
                PROVE  /\ info.read.minUnapplied <= LastGTID(disk'.log) + 1
                       /\ \A f \in Unapplied' : f.gtid >= info.read.minUnapplied
    BY ZenonT(30), <1>1 DEF InfoInv
  <2>1. info.read.minUnapplied <= LastGTID(disk.log) + 1 /\ info.read.minUnapplied \in Nat
    BY ZenonT(30), <1>1, TypeFacts DEF InfoInv
  <2>2. new.gtid >= info.read.minUnapplied
    BY <1>2, <1>3, <1>4, <1>9, <2>1
  <2>. QED
    BY <1>1, <1>8, <1>9, <2>1, <2>2 DEF InfoInv
<1>. QED
  BY ZenonT(30), <1>6, <1>7, <1>11, <1>13, <1>14 DEF ReplInfoInv

LEMMA NoteAddedInv == ASSUME ReplInfoInv, noteGTIDAdded PROVE ReplInfoInv'
<1>1. /\ TypeOK /\ SourceInv /\ DiskInv /\ LiveInv /\ InfoInv /\ phase = "live"
      /\ UNCHANGED <<src, epoch, disk, phase, conn, applying, todo, info>>
      /\ mem' = [mem EXCEPT !.lastLive = LastGTID(disk.log)]
      /\ LastGTID(disk.log) > mem.lastLive
  BY ZenonT(30) DEF noteGTIDAdded, Written, ReplInfoInv, PhaseInv
<1>2. /\ mem' \in Mins /\ mem'.lastLive = LastGTID(disk.log)
      /\ mem'.lastUnapplied = mem.lastUnapplied /\ mem'.minUnapplied = mem.minUnapplied
  BY <1>1, TypeFacts DEF TypeOK, Mins
<1>3. TypeOK'
  BY ZenonT(30), <1>1, <1>2 DEF TypeOK
<1>4. SourceInv' /\ DiskInv' /\ Unapplied' = Unapplied
  BY ZenonT(30), <1>1, SourceSame DEF DiskInv, Unapplied
<1>5. LiveInv'
  BY <1>1, <1>2, <1>4, TypeFacts DEF LiveInv
<1>6. PhaseInv' /\ InfoInv'
  BY ZenonT(30), <1>1, <1>4, <1>5 DEF PhaseInv, InfoInv
<1>. QED
  BY ZenonT(30), <1>3, <1>4, <1>6 DEF ReplInfoInv

\* The first of the queue is the first that is not applied.
LEMMA NoteApplyingInv == ASSUME ReplInfoInv, noteApplyingGTID PROVE ReplInfoInv'
<1>. DEFINE T == {e.gtid : e \in Queue}
            g == Min(T)
<1>1. /\ TypeOK /\ SourceInv /\ DiskInv /\ LiveInv /\ InfoInv /\ phase = "live"
      /\ applying = 0 /\ Queue # {}
      /\ UNCHANGED <<src, epoch, disk, phase, conn, todo, info>>
      /\ applying' = g
      /\ mem' = [mem EXCEPT !.lastUnapplied = g, !.minUnapplied = g]
  BY ZenonT(30) DEF noteApplyingGTID, ReplInfoInv, PhaseInv
<1>2. \A e \in Queue : e \in disk.log /\ e.gtid > mem.lastUnapplied /\ e.gtid <= mem.lastLive
  BY ZenonT(30) DEF Queue
<1>3. g \in T /\ \A k \in T : g <= k
  <2>1. T \in SUBSET Nat /\ T # {}
    BY <1>1, <1>2, TypeFacts
  <2>. QED
    BY ZenonT(30), <2>1, MinIsLeast
<1>4. PICK q \in Queue : q.gtid = g
  BY ZenonT(30), <1>3
<1>5. \A e \in Queue : g <= e.gtid
  BY ZenonT(30), <1>3
<1>. HIDE DEF g, T
<1>6. g \in 1..MaxGTID /\ g <= mem.lastLive /\ g > mem.lastUnapplied
  BY ZenonT(30), <1>1, <1>2, <1>4, TypeFacts
<1>7. /\ mem' \in Mins /\ mem'.lastLive = mem.lastLive
      /\ mem'.lastUnapplied = g /\ mem'.minUnapplied = g
  <2>1. mem \in [lastLive : Nat, lastUnapplied : Nat, minUnapplied : Nat] /\ g \in Nat
    BY <1>1, <1>6 DEF TypeOK, Mins
  <2>. QED
    BY ZenonT(30), <1>1, <2>1 DEF Mins
<1>8. TypeOK'
  BY <1>1, <1>6, <1>7 DEF TypeOK
<1>9. SourceInv' /\ DiskInv' /\ Unapplied' = Unapplied
  BY ZenonT(30), <1>1, SourceSame DEF DiskInv, Unapplied
<1>10. ASSUME NEW e \in Unapplied PROVE e.gtid = g \/ e.gtid > g
  <2>1. e \in disk.log /\ e.gtid \in 1..MaxGTID /\ e.gtid > mem.lastUnapplied
    BY <1>1, TypeFacts DEF Unapplied, LiveInv
  <2>2. CASE e.gtid <= mem.lastLive
    BY <1>5, <1>6, <2>1, <2>2 DEF Queue
  <2>3. CASE ~ (e.gtid <= mem.lastLive)
    BY <1>1, <1>6, <2>1, <2>3, TypeFacts
  <2>. QED
    BY ZenonT(30), <2>2, <2>3
<1>11. LiveInv'
  <2>1. /\ mem'.lastUnapplied <= mem'.lastLive /\ mem'.lastLive <= LastGTID(disk'.log)
        /\ applying' # 0 /\ mem'.minUnapplied = applying' /\ mem'.lastUnapplied = applying'
    BY <1>1, <1>6, <1>7 DEF LiveInv
  <2>2. \A e \in Unapplied' : e.gtid = applying' \/ e.gtid > mem'.lastUnapplied
    BY ZenonT(30), <1>1, <1>7, <1>9, <1>10
  <2>. QED
    BY ZenonT(30), <2>1, <2>2 DEF LiveInv
<1>12. PhaseInv' /\ InfoInv'
  BY ZenonT(30), <1>1, <1>9, <1>11 DEF PhaseInv, InfoInv
<1>. QED
  BY ZenonT(30), <1>8, <1>9, <1>12 DEF ReplInfoInv

LEMMA ApplyQueuedInv == ASSUME ReplInfoInv, ApplyQueued PROVE ReplInfoInv'
<1>1. /\ TypeOK /\ SourceInv /\ DiskInv /\ LiveInv /\ InfoInv /\ phase = "live"
      /\ UNCHANGED <<src, epoch, phase, conn, mem, applying, todo, info>>
  BY ZenonT(30) DEF ApplyQueued, ReplInfoInv, PhaseInv
<1>2. PICK e \in disk.log : e.gtid = applying /\ ~ e.a /\ ApplyEntry(e)
  BY ZenonT(30) DEF ApplyQueued
<1>3. e \in Unapplied
  BY ZenonT(30), <1>2 DEF Unapplied
<1>4. /\ disk' \in [log : SUBSET MemberEntry, minLive : Nat, minUnapplied : Nat]
      /\ Unapplied' \subseteq Unapplied /\ LastGTID(disk'.log) = LastGTID(disk.log) /\ DiskInv'
  BY ZenonT(30), <1>1, <1>2, <1>3, ApplyFacts
<1>5. TypeOK' /\ SourceInv'
  BY ZenonT(30), <1>1, <1>4, SourceSame DEF TypeOK
<1>6. LiveInv'
  BY ZenonT(30), <1>1, <1>4 DEF LiveInv
<1>7. PhaseInv' /\ InfoInv'
  BY ZenonT(30), <1>1, <1>4, <1>6 DEF PhaseInv, InfoInv
<1>. QED
  BY ZenonT(30), <1>4, <1>5, <1>7 DEF ReplInfoInv

LEMMA NoteAppliedInv == ASSUME ReplInfoInv, noteGTIDApplied PROVE ReplInfoInv'
<1>1. /\ TypeOK /\ SourceInv /\ DiskInv /\ LiveInv /\ InfoInv /\ phase = "live" /\ applying # 0
      /\ WithBit(CHOOSE e \in disk.log : e.gtid = applying, TRUE) \in disk.log
      /\ UNCHANGED <<src, epoch, disk, phase, conn, todo, info>> /\ applying' = 0
      /\ mem' = [mem EXCEPT !.minUnapplied = mem.lastUnapplied + 1]
  BY ZenonT(30) DEF noteGTIDApplied, ReplInfoInv, PhaseInv
<1>2. \A e \in Unapplied : e.gtid # applying
  <2>. SUFFICES ASSUME NEW e \in Unapplied, e.gtid = applying PROVE FALSE
    BY ZenonT(30)
  <2>. DEFINE f == CHOOSE h \in disk.log : h.gtid = applying
  <2>1. e \in disk.log /\ ~ e.a
    BY ZenonT(30) DEF Unapplied
  <2>2. f \in disk.log /\ f.gtid = applying
    BY ZenonT(30), <2>1
  <2>. HIDE DEF f
  <2>3. WithBit(f, TRUE) \in disk.log /\ WithBit(f, TRUE).gtid = applying /\ WithBit(f, TRUE).a = TRUE
    BY ZenonT(30), <1>1, <2>2, EntryFacts DEF f
  <2>. QED
    BY ZenonT(30), <1>1, <2>1, <2>3 DEF DiskInv
<1>3. /\ mem' \in Mins /\ mem'.lastLive = mem.lastLive
      /\ mem'.lastUnapplied = mem.lastUnapplied /\ mem'.minUnapplied = mem.lastUnapplied + 1
  BY <1>1 DEF TypeOK, Mins
<1>4. TypeOK'
  BY ZenonT(30), <1>1, <1>3 DEF TypeOK
<1>5. SourceInv' /\ DiskInv' /\ Unapplied' = Unapplied
  BY ZenonT(30), <1>1, SourceSame DEF DiskInv, Unapplied
<1>6. LiveInv'
  BY ZenonT(30), <1>1, <1>2, <1>3, <1>5 DEF LiveInv
<1>7. PhaseInv' /\ InfoInv'
  BY ZenonT(30), <1>1, <1>5, <1>6 DEF PhaseInv, InfoInv
<1>. QED
  BY ZenonT(30), <1>4, <1>5, <1>7 DEF ReplInfoInv

-----------------------------------------------------------------------------
(* Rollback.                                                               *)

\* With the applier idle and its queue empty, everything is applied.
LEMMA ResetInv == ASSUME ReplInfoInv, RollbackReset PROVE ReplInfoInv'
<1>1. /\ TypeOK /\ SourceInv /\ DiskInv /\ LiveInv /\ InfoInv /\ phase = "live"
      /\ UNCHANGED <<src, epoch, disk, conn, applying, todo, info>>
      /\ applying = 0 /\ Queue = {} /\ ~ (LastGTID(disk.log) > mem.lastLive)
  BY ZenonT(30) DEF RollbackReset, Written, ReplInfoInv, PhaseInv
<1>2. Unapplied = {}
  <2>1. \A e \in Unapplied : e \in disk.log /\ e.gtid \in 1..MaxGTID /\ e.gtid > mem.lastUnapplied
                             /\ e.gtid <= mem.lastLive
    BY <1>1, TypeFacts DEF LiveInv, Unapplied
  <2>. QED
    BY ZenonT(30), <1>1, <2>1 DEF Queue
<1>3. SourceInv' /\ DiskInv' /\ Unapplied' = {}
  BY ZenonT(30), <1>1, <1>2, SourceSame DEF DiskInv, Unapplied
<1>4. CASE phase' = "fatal" /\ mem' = mem
  <2>1. TypeOK'
    BY ZenonT(30), <1>1, <1>4 DEF TypeOK
  <2>2. PhaseInv' /\ InfoInv'
    BY ZenonT(30), <1>1, <1>3, <1>4 DEF PhaseInv, InfoInv
  <2>. QED
    BY ZenonT(30), <1>3, <2>1, <2>2 DEF ReplInfoInv
<1>5. CASE Common # {} /\ phase' = "reset" /\ mem' = ResetTo(LastGTID(Common))
  <2>1. \A e \in Common : \E f \in disk.log : f.gtid = e.gtid
    BY EntryFacts DEF Common, Entries
  <2>2. \A e \in Common : e.gtid \in 1..MaxGTID
    BY ZenonT(30), <1>1, TypeFacts DEF Common
  <2>3. LastGTID(Common) \in Nat /\ \E f \in disk.log : f.gtid = LastGTID(Common)
    BY <1>5, <2>1, <2>2, LastFacts
  <2>4. mem' \in Mins /\ mem'.lastLive = LastGTID(Common)
    BY ZenonT(30), <1>5, <2>3, ResetFacts
  <2>5. TypeOK'
    BY ZenonT(30), <1>1, <1>5, <2>4 DEF TypeOK
  <2>6. RollbackInv'
    BY ZenonT(30), <1>1, <1>3, <1>5, <2>3, <2>4 DEF RollbackInv
  <2>7. PhaseInv' /\ InfoInv'
    BY ZenonT(30), <1>1, <1>3, <1>5, <2>6 DEF PhaseInv, InfoInv
  <2>. QED
    BY ZenonT(30), <1>3, <2>5, <2>7 DEF ReplInfoInv
<1>. QED
  BY ZenonT(30), <1>4, <1>5 DEF RollbackReset

LEMMA ForceInv == ASSUME ReplInfoInv, forceUpdateReplInfo PROVE ReplInfoInv'
<1>1. /\ TypeOK /\ SourceInv /\ DiskInv /\ RollbackInv /\ InfoInv /\ phase = "reset" /\ phase' = "purge"
      /\ UNCHANGED <<src, epoch, conn, mem, applying, todo, info>> /\ applying = 0 /\ ~ info.busy
      /\ disk' = [disk EXCEPT !.minLive = mem.lastLive + 1, !.minUnapplied = mem.minUnapplied]
  BY ZenonT(30) DEF forceUpdateReplInfo, ReplInfoInv, PhaseInv
<1>2. mem.lastLive \in Nat /\ mem.minUnapplied = mem.lastLive + 1
  BY ZenonT(30), <1>1, TypeFacts, ResetFacts DEF RollbackInv
<1>3. /\ disk' \in [log : SUBSET MemberEntry, minLive : Nat, minUnapplied : Nat]
      /\ disk'.log = disk.log /\ disk'.minUnapplied = mem.lastLive + 1
  <2>1. /\ disk \in [log : SUBSET MemberEntry, minLive : Nat, minUnapplied : Nat]
        /\ mem.lastLive + 1 \in Nat
    BY <1>1, <1>2 DEF TypeOK
  <2>. QED
    BY ZenonT(30), <1>1, <1>2, <2>1
<1>4. TypeOK' /\ SourceInv'
  BY ZenonT(30), <1>1, <1>3, SourceSame DEF TypeOK
<1>5. Unapplied' = {}
  BY ZenonT(30), <1>1, <1>3 DEF Unapplied, RollbackInv
<1>6. mem.lastLive <= LastGTID(disk.log)
  BY ZenonT(30), <1>1, TypeFacts DEF RollbackInv
<1>7. DiskInv'
  <2>1. \A g \in 1..MaxGTID : LastGTID(disk'.log) < g /\ g < disk'.minUnapplied => Failed(g)'
    BY <1>1, <1>2, <1>3, <1>6, TypeFacts
  <2>. QED
    BY ZenonT(30), <1>1, <1>3, <1>5, <2>1 DEF DiskInv
<1>8. RollbackInv'
  BY ZenonT(30), <1>1, <1>3, <1>5 DEF RollbackInv
<1>9. PhaseInv' /\ InfoInv'
  BY <1>1, <1>2, <1>3, <1>8 DEF PhaseInv, InfoInv
<1>. QED
  BY ZenonT(30), <1>4, <1>7, <1>9 DEF ReplInfoInv

\* The last entry, and what is left without it.
LEMMA PurgeFacts ==
    ASSUME ReplInfoInv, Purge
    PROVE  LET e == LastEntry(disk.log)
           IN  /\ e \in disk.log /\ e.gtid = LastGTID(disk.log)
               /\ disk'.log = disk.log \ {e} /\ disk'.minUnapplied = disk.minUnapplied
               /\ disk' \in [log : SUBSET MemberEntry, minLive : Nat, minUnapplied : Nat]
               /\ \E f \in disk'.log : f.gtid = mem.lastLive
<1>. DEFINE e == LastEntry(disk.log)
<1>1. /\ TypeOK /\ RollbackInv /\ LastGTID(disk.log) > mem.lastLive
      /\ disk' = [disk EXCEPT !.log = disk.log \ {e}]
  BY ZenonT(30) DEF Purge, ReplInfoInv, PhaseInv
<1>2. PICK f \in disk.log : f.gtid = mem.lastLive
  BY ZenonT(30), <1>1 DEF RollbackInv
<1>3. e \in disk.log /\ e.gtid = LastGTID(disk.log)
  BY ZenonT(30), <1>1, <1>2, TypeFacts DEF LastEntry
<1>. HIDE DEF e
<1>4. /\ disk'.log = disk.log \ {e} /\ disk'.minUnapplied = disk.minUnapplied
      /\ disk' \in [log : SUBSET MemberEntry, minLive : Nat, minUnapplied : Nat]
  BY ZenonT(30), <1>1 DEF TypeOK
<1>5. f \in disk'.log
  BY <1>1, <1>2, <1>3, <1>4, TypeFacts
<1>. QED
  BY ZenonT(30), <1>2, <1>3, <1>4, <1>5 DEF e

LEMMA PurgeInv == ASSUME ReplInfoInv, Purge PROVE ReplInfoInv'
<1>1. /\ TypeOK /\ SourceInv /\ DiskInv /\ RollbackInv /\ InfoInv /\ phase = "purge"
      /\ UNCHANGED <<src, epoch, phase, conn, mem, applying, todo, info>> /\ applying = 0
      /\ disk.minUnapplied <= mem.lastLive + 1
  BY ZenonT(30) DEF Purge, ReplInfoInv, PhaseInv
<1>2. /\ disk'.log \subseteq disk.log /\ disk'.minUnapplied = disk.minUnapplied
      /\ disk' \in [log : SUBSET MemberEntry, minLive : Nat, minUnapplied : Nat]
      /\ \E f \in disk'.log : f.gtid = mem.lastLive
  BY ZenonT(30), PurgeFacts
<1>3. TypeOK' /\ SourceInv'
  BY ZenonT(30), <1>1, <1>2, SourceSame DEF TypeOK
<1>4. Unapplied' = {}
  BY ZenonT(30), <1>1, <1>2 DEF Unapplied, RollbackInv
<1>5. mem.lastLive <= LastGTID(disk'.log) /\ LastGTID(disk'.log) \in Nat
  <2>1. \A f \in disk'.log : f.gtid \in 1..MaxGTID
    BY ZenonT(30), <1>2 DEF MemberEntry
  <2>. QED
    BY <1>2, <2>1, LastFacts
<1>6. DiskInv'
  <2>1. \A g \in 1..MaxGTID : LastGTID(disk'.log) < g /\ g < disk'.minUnapplied => Failed(g)'
    BY <1>1, <1>2, <1>5, TypeFacts
  <2>. QED
    BY ZenonT(30), <1>1, <1>2, <1>4, <2>1 DEF DiskInv
<1>7. RollbackInv'
  BY ZenonT(30), <1>1, <1>2, <1>4 DEF RollbackInv
<1>8. PhaseInv'
  BY ZenonT(30), <1>1, <1>2, <1>7 DEF PhaseInv
<1>9. InfoInv'
  BY <1>1, <1>4, <1>5, TypeFacts DEF InfoInv
<1>. QED
  BY ZenonT(30), <1>3, <1>6, <1>8, <1>9 DEF ReplInfoInv

LEMMA RollbackEndsInv == ASSUME ReplInfoInv, RollbackEnds PROVE ReplInfoInv'
<1>1. /\ TypeOK /\ SourceInv /\ DiskInv /\ RollbackInv /\ InfoInv /\ phase = "purge" /\ phase' = "live"
      /\ UNCHANGED <<src, epoch, disk, conn, mem, applying, todo, info>> /\ applying = 0
  BY ZenonT(30) DEF RollbackEnds, ReplInfoInv, PhaseInv
<1>2. /\ mem.lastLive \in Nat /\ mem.minUnapplied = mem.lastLive + 1 /\ mem.lastUnapplied = mem.lastLive
  BY ZenonT(30), <1>1, TypeFacts, ResetFacts DEF RollbackInv
<1>3. TypeOK' /\ SourceInv' /\ DiskInv' /\ Unapplied' = Unapplied
  BY ZenonT(30), <1>1, SourceSame DEF TypeOK, DiskInv, Unapplied
<1>4. LiveInv'
  BY <1>1, <1>2, <1>3, TypeFacts DEF LiveInv, RollbackInv
<1>5. PhaseInv' /\ InfoInv'
  BY ZenonT(30), <1>1, <1>3, <1>4 DEF PhaseInv, InfoInv
<1>. QED
  BY ZenonT(30), <1>3, <1>5 DEF ReplInfoInv

-----------------------------------------------------------------------------
(* updateReplInfoThread.                                                   *)

LEMMA ReadMinsInv == ASSUME ReplInfoInv, ReadMins PROVE ReplInfoInv'
<1>1. /\ TypeOK /\ SourceInv /\ DiskInv /\ PhaseInv /\ phase \in {"live", "reset", "purge"}
      /\ UNCHANGED <<src, epoch, disk, phase, conn, mem, applying, todo>>
      /\ info' = [info EXCEPT !.read = mem, !.busy = TRUE]
  BY ZenonT(30) DEF ReadMins, ReplInfoInv
<1>2. info' \in [read : Mins, wrote : Mins, busy : BOOLEAN] /\ info'.read = mem
  BY ZenonT(30), <1>1 DEF TypeOK
<1>3. TypeOK' /\ SourceInv' /\ DiskInv' /\ Unapplied' = Unapplied
  BY ZenonT(30), <1>1, <1>2, SourceSame DEF TypeOK, DiskInv, Unapplied
<1>4. PhaseInv'
  BY ZenonT(30), <1>1, <1>3 DEF PhaseInv, LiveInv, RollbackInv
<1>5. /\ mem.minUnapplied <= LastGTID(disk.log) + 1
      /\ \A e \in Unapplied : e.gtid >= mem.minUnapplied
      /\ phase = "purge" => mem.minUnapplied <= mem.lastLive + 1
  <2>1. CASE phase = "live"
    <3>1. LiveInv
      BY ZenonT(30), <1>1, <2>1 DEF PhaseInv
    <3>2. \A e \in Unapplied : e.gtid \in 1..MaxGTID
      BY ZenonT(30), <1>1, TypeFacts DEF Unapplied
    <3>. QED
      BY <1>1, <2>1, <3>1, <3>2, TypeFacts DEF LiveInv, TypeOK
  <2>2. CASE phase \in {"reset", "purge"}
    <3>1. RollbackInv
      BY ZenonT(30), <1>1, <2>2 DEF PhaseInv
    <3>2. mem.lastLive \in Nat /\ mem.minUnapplied = mem.lastLive + 1
      BY ZenonT(30), <1>1, <3>1, TypeFacts, ResetFacts DEF RollbackInv
    <3>3. mem.lastLive <= LastGTID(disk.log)
      BY ZenonT(30), <1>1, <3>1, TypeFacts DEF RollbackInv
    <3>. QED
      BY <1>1, <3>1, <3>2, <3>3, TypeFacts DEF RollbackInv
  <2>. QED
    BY ZenonT(30), <1>1, <2>1, <2>2
<1>6. InfoInv'
  BY ZenonT(30), <1>1, <1>2, <1>3, <1>5 DEF InfoInv
<1>. QED
  BY ZenonT(30), <1>3, <1>4, <1>6 DEF ReplInfoInv

LEMMA LogToReplInfoInv == ASSUME ReplInfoInv, logToReplInfo PROVE ReplInfoInv'
<1>1. /\ TypeOK /\ SourceInv /\ DiskInv /\ PhaseInv /\ InfoInv /\ info.busy
      /\ UNCHANGED <<src, epoch, phase, conn, mem, applying, todo>>
      /\ disk' = [disk EXCEPT !.minLive = info.read.lastLive + 1,
                              !.minUnapplied = info.read.minUnapplied]
      /\ info' = [NoInfo EXCEPT !.wrote = info.read]
  BY ZenonT(30) DEF logToReplInfo, ReplInfoInv
<1>2. /\ disk' \in [log : SUBSET MemberEntry, minLive : Nat, minUnapplied : Nat]
      /\ disk'.log = disk.log /\ disk'.minUnapplied = info.read.minUnapplied
  <2>1. /\ disk \in [log : SUBSET MemberEntry, minLive : Nat, minUnapplied : Nat]
        /\ info.read.lastLive + 1 \in Nat /\ info.read.minUnapplied \in Nat
    BY <1>1, TypeFacts DEF TypeOK
  <2>. QED
    BY ZenonT(30), <1>1, <2>1
<1>3. info' \in [read : Mins, wrote : Mins, busy : BOOLEAN] /\ info'.busy = FALSE
  <2>1. NoMemory \in Mins /\ info.read \in Mins
    BY ZenonT(30), <1>1, TypeFacts DEF NoMemory, Mins
  <2>. QED
    BY ZenonT(30), <1>1, <2>1 DEF NoInfo
<1>4. TypeOK' /\ SourceInv' /\ Unapplied' = Unapplied
  BY ZenonT(30), <1>1, <1>2, <1>3, SourceSame DEF TypeOK, Unapplied
<1>5. /\ info.read.minUnapplied <= LastGTID(disk.log) + 1
      /\ \A e \in Unapplied : e.gtid >= info.read.minUnapplied
      /\ phase \in {"live", "reset", "purge", "fatal"}
      /\ phase = "purge" => info.read.minUnapplied <= mem.lastLive + 1
  BY ZenonT(30), <1>1 DEF InfoInv
<1>6. DiskInv'
  <2>1. \A g \in 1..MaxGTID : ~ (LastGTID(disk'.log) < g /\ g < disk'.minUnapplied)
    BY <1>1, <1>2, <1>5, TypeFacts
  <2>. QED
    BY ZenonT(30), <1>1, <1>2, <1>4, <1>5, <2>1 DEF DiskInv
<1>7. PhaseInv'
  BY ZenonT(30), <1>1, <1>2, <1>4, <1>5 DEF PhaseInv, LiveInv, RollbackInv
<1>8. InfoInv'
  BY ZenonT(30), <1>3 DEF InfoInv
<1>. QED
  BY ZenonT(30), <1>4, <1>6, <1>7, <1>8 DEF ReplInfoInv

-----------------------------------------------------------------------------
(* What replInfo claims.                                                   *)

LEMMA StartInv == ASSUME Init PROVE ReplInfoInv
<1>1. /\ src.log = {[gtid |-> 1, from |-> 1]} /\ src.live = {} /\ src.last = 1 /\ src.info = 1
      /\ epoch = 1 /\ disk.log = {} /\ disk.minLive = 0 /\ disk.minUnapplied = 0
      /\ phase = "down" /\ applying = 0 /\ info.busy = FALSE /\ MaxGTID \in Nat \ {0}
  BY ZenonT(30), MemberAssumption DEF Init, NoInfo
<1>2. TypeOK
  <2>1. [gtid |-> 1, from |-> 1] \in SourceEntry
    BY <1>1 DEF SourceEntry
  <2>2. src \in [log : SUBSET SourceEntry, live : SUBSET (1..MaxGTID), last : 0..MaxGTID, info : Nat]
    BY <1>1, <2>1 DEF Init
  <2>3. disk \in [log : SUBSET MemberEntry, minLive : Nat, minUnapplied : Nat]
    BY ZenonT(30) DEF Init
  <2>4. NoMemory \in Mins /\ NoInfo \in [read : Mins, wrote : Mins, busy : BOOLEAN]
    BY ZenonT(30) DEF NoMemory, NoInfo, Mins
  <2>. QED
    BY <2>2, <2>3, <2>4 DEF Init, TypeOK
<1>3. minLive = 2
  BY <1>1 DEF minLive
<1>4. SourceInv
  BY <1>1, <1>3 DEF SourceInv
<1>5. DiskInv
  BY <1>1 DEF DiskInv, Unapplied
<1>6. PhaseInv /\ InfoInv
  BY ZenonT(30), <1>1 DEF PhaseInv, InfoInv
<1>. QED
  BY ZenonT(30), <1>2, <1>4, <1>5, <1>6 DEF ReplInfoInv

LEMMA StepInv == ASSUME ReplInfoInv, [Next]_vars PROVE ReplInfoInv'
<1>1. CASE SourceStep
  BY ZenonT(30), <1>1, SourceStepInv
<1>2. CASE StartUp
  BY ZenonT(30), <1>2, QuietSteps, DeleteInv, CloneInv, FillGapsInv, FindMissingInv, ApplyMissingInv, GoLiveInv
     DEF StartUp
<1>3. CASE Producer
  BY ZenonT(30), <1>3, ConnectInv, WriteEntryInv, NoteAddedInv DEF Producer
<1>4. CASE Applier
  BY ZenonT(30), <1>4, NoteApplyingInv, ApplyQueuedInv, NoteAppliedInv DEF Applier
<1>5. CASE Rollback
  BY ZenonT(30), <1>5, ResetInv, ForceInv, PurgeInv, RollbackEndsInv DEF Rollback
<1>6. CASE InfoThread
  BY ZenonT(30), <1>6, ReadMinsInv, LogToReplInfoInv DEF InfoThread
<1>7. CASE Crash
  BY ZenonT(30), <1>7, QuietSteps
<1>8. CASE UNCHANGED vars
  <2>1. Unapplied' = Unapplied /\ minLive' = minLive /\ \A g : Failed(g)' <=> Failed(g)
    BY ZenonT(30), <1>8 DEF vars, Unapplied, minLive, Failed
  <2>2. TypeOK' /\ SourceInv' /\ DiskInv'
    BY ZenonT(30), <1>8, <2>1 DEF vars, ReplInfoInv, TypeOK, SourceInv, DiskInv
  <2>3. PhaseInv' /\ InfoInv'
    BY ZenonT(30), <1>8, <2>1 DEF vars, ReplInfoInv, PhaseInv, LiveInv, RollbackInv, InfoInv
  <2>. QED
    BY ZenonT(30), <2>2, <2>3 DEF ReplInfoInv
<1>. QED
  BY ZenonT(30), <1>1, <1>2, <1>3, <1>4, <1>5, <1>6, <1>7, <1>8 DEF Next, SourceStep

\* The inductive invariant holds in every behaviour.
LEMMA ReplInfoAlways == Spec => []ReplInfoInv
<1>1. Init => ReplInfoInv
  BY ZenonT(30), StartInv
<1>2. ReplInfoInv /\ [Next]_vars => ReplInfoInv'
  BY ZenonT(30), StepInv
<1>. QED
  BY <1>1, <1>2, PTL DEF Spec

\* The minUnapplied that updateReplInfoThread (repl/rs.cpp) has written is not
\* above an unapplied entry of the oplog, at whatever moment the member stops.
THEOREM ReplInfoClaimsNoMore == Spec => []ReplInfoIsSafe
<1>1. ReplInfoInv => ReplInfoIsSafe
  BY ZenonT(30), TypeFacts DEF ReplInfoInv, DiskInv, Unapplied, ReplInfoIsSafe
<1>. QED
  BY <1>1, ReplInfoAlways, PTL

\* Every unapplied entry of a live member is in the applier's hands or ahead of
\* it, also after a restart and after a rollback.
THEOREM UnappliedAreKept == Spec => []NothingUnappliedIsLost
<1>1. ReplInfoInv => NothingUnappliedIsLost
  BY ZenonT(30), TypeFacts DEF ReplInfoInv, PhaseInv, LiveInv, Unapplied, NothingUnappliedIsLost
<1>. QED
  BY <1>1, ReplInfoAlways, PTL

-----------------------------------------------------------------------------
(* The oplogs of the member and of the primary.                            *)

LEMMA GTIDNats == \A x : x \in 0..MaxGTID \/ x \in 1..MaxGTID => x \in Nat
  BY MemberAssumption

LEMMA DiskEntryFacts ==
    ASSUME TypeOK
    PROVE  /\ Entries(disk.log) \in SUBSET SourceEntry
           /\ \A e \in disk.log : Entry(e) \in Entries(disk.log) /\ Entry(e).gtid = e.gtid
           /\ \A x \in Entries(disk.log) :
                 /\ x.gtid \in 1..MaxGTID /\ x.gtid <= LastGTID(disk.log) /\ x.from \in Nat
                 /\ \E e \in disk.log : x = Entry(e) /\ x.gtid = e.gtid
           /\ DiskInv => \A x, y \in Entries(disk.log) : x.gtid = y.gtid => x = y
<1>1. \A x : x \in Entries(disk.log) <=> \E e \in disk.log : x = Entry(e)
  BY ZenonT(30) DEF Entries
<1>2. \A e \in disk.log : Entry(e) \in SourceEntry /\ Entry(e).gtid = e.gtid
  BY ZenonT(30), TypeFacts, MemberEntryFacts, EntryFacts
<1>3. \A x \in SourceEntry : x.gtid \in 1..MaxGTID /\ x.from \in Nat
  BY ZenonT(30) DEF SourceEntry
<1>4. \A x \in Entries(disk.log) : \E e \in disk.log : x = Entry(e) /\ x.gtid = e.gtid
  BY <1>1, <1>2
<1>5. DiskInv => \A x, y \in Entries(disk.log) : x.gtid = y.gtid => x = y
  BY ZenonT(30), <1>4 DEF DiskInv
<1>. QED
  BY <1>1, <1>2, <1>3, <1>4, <1>5, TypeFacts

LEMMA LastEntryFacts ==
    ASSUME NEW log \in SUBSET MemberEntry, log # {}
    PROVE  /\ LastEntry(log) \in log /\ LastEntry(log).gtid = LastGTID(log)
           /\ Entry(LastEntry(log)) \in Entries(log)
           /\ Entry(LastEntry(log)).gtid = LastGTID(log)
<1>1. \A e \in log : e.gtid \in 1..MaxGTID
  BY ZenonT(30) DEF MemberEntry
<1>2. LastEntry(log) \in log /\ LastEntry(log).gtid = LastGTID(log)
  BY ZenonT(30), <1>1, LastFacts DEF LastEntry
<1>. QED
  BY ZenonT(30), <1>2, EntryFacts DEF Entries

\* The numbers in the facts above.
LEMMA SourceNats ==
    ASSUME TypeOK
    PROVE  \A e \in src.log : e.gtid \in Nat
  BY ZenonT(30), TypeFacts, GTIDNats

LEMMA EntryNats ==
    ASSUME TypeOK
    PROVE  /\ LastGTID(disk.log) \in Nat
           /\ \A x \in Entries(disk.log) : x.gtid \in Nat /\ x.gtid <= LastGTID(disk.log)
<1>1. LastGTID(disk.log) \in 0..MaxGTID
  BY ZenonT(30), TypeFacts
<1>2. \A x \in Entries(disk.log) : x.gtid \in 1..MaxGTID /\ x.gtid <= LastGTID(disk.log)
  BY ZenonT(30), DiskEntryFacts
<1>. QED
  BY ZenonT(30), <1>1, <1>2, GTIDNats

LEMMA EntryInDisk ==
    ASSUME TypeOK, NEW e \in disk.log
    PROVE  Entry(e) \in Entries(disk.log) /\ Entry(e).gtid = e.gtid
  BY ZenonT(30), DiskEntryFacts

LEMMA EntriesDiffer ==
    ASSUME TypeOK, DiskInv, NEW x \in Entries(disk.log), NEW y \in Entries(disk.log),
           x.gtid = y.gtid
    PROVE  x = y
  BY ZenonT(30), DiskEntryFacts

LEMMA NothingAgrees ==
    /\ Entries({}) = {} /\ LastGTID({}) = 0
    /\ \A S, m : Agree({}, S, m)
<1>1. {e.gtid : e \in {}} \cup {0} = {0}
  BY ZenonT(30)
<1>2. Max({0}) \in {0}
  BY MaxIsGreatest, MemberAssumption
<1>. QED
  BY ZenonT(30), <1>1, <1>2 DEF Entries, LastGTID, Agree

\* A step of the primary, of the same one or to another one.
LEMMA SourceMatch == ASSUME ReplInfoInv, MatchInv, SourceStep PROVE MatchInv'
<1>. DEFINE D == Entries(disk.log)
<1>0. /\ TypeOK /\ SourceInv /\ epoch \in Nat /\ conn \in Nat /\ conn <= epoch
      /\ minLive \in Nat /\ \A e \in D : e.gtid \in Nat /\ e.from \in Nat
      /\ \A e \in D : e.from <= epoch /\ (e.from = epoch => e \in src.log)
      /\ \A e \in src.log : e.gtid \in Nat
  <2>1. TypeOK /\ SourceInv
    BY ZenonT(30) DEF ReplInfoInv
  <2>2. epoch \in Nat /\ conn \in Nat /\ conn <= epoch
    BY ZenonT(30), <2>1 DEF TypeOK
  <2>3. \A e \in D : e.gtid \in Nat /\ e.from \in Nat
    BY ZenonT(30), <2>1, EntryNats, DiskEntryFacts
  <2>4. \A e \in D : e.from <= epoch /\ (e.from = epoch => e \in src.log)
    BY ZenonT(30) DEF MatchInv
  <2>. QED
    BY ZenonT(30), <2>1, <2>2, <2>3, <2>4, MinLiveFacts, SourceNats
<1>1. CASE SourceGoesOn
  <2>1. /\ disk' = disk /\ phase' = phase /\ conn' = conn /\ epoch' = epoch
        /\ D' = D /\ src.log \subseteq src'.log /\ minLive <= minLive' /\ minLive' \in Nat
        /\ \A e \in src'.log : e \in src.log \/ (e.gtid >= minLive /\ e.from = epoch)
        /\ \A e \in src'.log : e.gtid \in Nat
    <3>1. TypeOK' /\ disk' = disk
      BY ZenonT(30), <1>1 DEF SourceGoesOn, memberVars
    <3>2. minLive' \in Nat /\ \A e \in src'.log : e.gtid \in Nat
      <4>1. src'.live \in SUBSET Nat /\ src'.last \in Nat
        BY <3>1 DEF TypeOK
      <4>2. src'.log \in SUBSET SourceEntry
        BY ZenonT(30), <3>1 DEF TypeOK
      <4>. QED
        BY <4>1, <4>2, MinFacts DEF minLive, SourceEntry
    <3>. QED
      BY ZenonT(30), <1>1, <3>1, <3>2 DEF SourceGoesOn, memberVars
  <2>. HIDE DEF D
  <2>2. ASSUME Agree(D, src.log, minLive) PROVE Agree(D, src'.log, minLive')
    <3>1. ASSUME NEW e \in D \cap src'.log PROVE e \in src.log /\ e.gtid < minLive'
      BY <1>0, <2>1, <2>2, <3>1 DEF Agree
    <3>2. ASSUME NEW e \in D \cap src'.log, NEW f \in D \cup src'.log, f.gtid <= e.gtid
          PROVE  f \in D \cap src'.log
      <4>1. e \in D \cap src.log /\ e.gtid < minLive
        BY ZenonT(30), <2>2, <3>1, <3>2 DEF Agree
      <4>2. f \in D \cup src.log
        BY <1>0, <2>1, <3>2, <4>1
      <4>. QED
        BY ZenonT(30), <2>1, <2>2, <3>2, <4>1, <4>2 DEF Agree
    <3>. QED
      BY ZenonT(30), <3>1, <3>2 DEF Agree
  <2>3. phase \in {"fullSync", "dropped", "fillGaps", "stopped"} \/ CommonPrefix'
    BY ZenonT(30), <2>1, <2>2 DEF MatchInv, CommonPrefix, D
  <2>4. phase = "fillGaps" /\ conn = epoch =>
           /\ disk.log # {} /\ D \subseteq src'.log /\ disk.minLive <= minLive'
           /\ \A e \in src'.log : e.gtid < disk.minLive => e \in D
    <3>1. disk.minLive \in Nat
      BY ZenonT(30), <1>0, TypeFacts
    <3>. QED
      BY <1>0, <2>1, <3>1 DEF MatchInv, D
  <2>. QED
    BY ZenonT(30), <1>0, <2>1, <2>3, <2>4 DEF MatchInv, D
<1>2. CASE SourceChanges
  <2>1. /\ disk' = disk /\ phase' = phase /\ conn' = conn /\ epoch' = epoch + 1 /\ D' = D
        /\ \A e \in src'.log : e.gtid < minLive'
    BY ZenonT(30), <1>2 DEF SourceChanges, memberVars
  <2>2. PICK g \in 1..MaxGTID : src'.log = UpTo(Visible, g)
    BY ZenonT(30), <1>2 DEF SourceChanges
  <2>3. \A e : e \in src'.log <=> e \in src.log /\ e.gtid < minLive /\ e.gtid <= g
    BY ZenonT(30), <2>2 DEF UpTo, Visible
  <2>. HIDE DEF D
  <2>4. ASSUME Agree(D, src.log, minLive) PROVE Agree(D, src'.log, minLive')
    <3>1. ASSUME NEW e \in D \cap src'.log, NEW f \in D \cup src'.log, f.gtid <= e.gtid
          PROVE  f \in D \cap src'.log
      <4>1. e \in D \cap src.log /\ f \in D \cup src.log /\ e.gtid < minLive /\ e.gtid <= g
        BY ZenonT(30), <2>3, <3>1
      <4>2. f \in D \cap src.log
        BY ZenonT(30), <2>4, <3>1, <4>1 DEF Agree
      <4>3. f.gtid \in Nat /\ e.gtid \in Nat /\ g \in Nat
        BY <1>0, <4>1, <4>2
      <4>. QED
        BY <1>0, <2>3, <3>1, <4>1, <4>2, <4>3
    <3>. QED
      BY ZenonT(30), <2>1, <3>1 DEF Agree
  <2>5. phase \in {"fullSync", "dropped", "fillGaps", "stopped"} \/ CommonPrefix'
    BY ZenonT(30), <2>1, <2>4 DEF MatchInv, CommonPrefix, D
  <2>6. conn' < epoch' /\ \A e \in D : e.from < epoch'
    BY <1>0, <2>1
  <2>. QED
    <3>1. \A e \in D : e.from <= epoch' /\ e.from # epoch'
      BY <1>0, <2>1, <2>6
    <3>2. conn' # epoch'
      BY <1>0, <2>1, <2>6
    <3>. QED
      BY ZenonT(30), <2>1, <2>5, <2>6, <3>1, <3>2 DEF MatchInv, D
<1>. QED
  BY ZenonT(30), <1>0, <1>1, <1>2, SourceStepFacts

\* Steps after which nothing has to match yet.
LEMMA SyncMatch ==
    ASSUME ReplInfoInv, MatchInv, ~ CrashAfterClone,
           Start \/ DropDatabases \/ CloneFails \/ fillGapsThrows \/ Crash \/ deleteOplogFiles
    PROVE  MatchInv'
<1>0. \A e \in Entries(disk.log) : e.from <= epoch /\ (e.from = epoch => e \in src.log)
  BY ZenonT(30) DEF MatchInv
<1>1. CASE Start
  <2>1. /\ UNCHANGED <<src, epoch, disk, conn>> /\ phase = "down"
        /\ phase' = IF LastGTID(disk.log) = 0 THEN "fullSync" ELSE "applyMissing"
    BY ZenonT(30), <1>1 DEF Start
  <2>2. phase' = "applyMissing" => disk'.log # {}
    BY ZenonT(30), <2>1, NothingAgrees
  <2>3. CommonPrefix'
    BY ZenonT(30), <2>1 DEF MatchInv, CommonPrefix, minLive
  <2>. QED
    BY ZenonT(30), <1>0, <2>1, <2>2, <2>3 DEF MatchInv
<1>2. CASE DropDatabases \/ CloneFails \/ fillGapsThrows
  <2>1. UNCHANGED <<src, epoch, disk>> /\ phase' \in {"dropped", "fullSync", "stopped"}
    BY ZenonT(30), <1>2 DEF DropDatabases, CloneFails, fillGapsThrows
  <2>. QED
    BY ZenonT(30), <1>0, <2>1 DEF MatchInv
<1>3. CASE Crash
  <2>1. /\ UNCHANGED <<src, epoch, disk>> /\ phase' = "down"
        /\ phase \in {"fillGaps", "fullSync", "dropped", "stopped"} => disk.log = {}
    BY ZenonT(30), <1>3 DEF Crash, SyncIsHalfDone
  <2>2. CommonPrefix'
    <3>1. CASE disk.log = {}
      BY ZenonT(30), <2>1, <3>1, NothingAgrees DEF CommonPrefix
    <3>2. CASE disk.log # {}
      BY ZenonT(30), <2>1, <3>2 DEF MatchInv, CommonPrefix, minLive
    <3>. QED
      BY ZenonT(30), <3>1, <3>2
  <2>. QED
    BY ZenonT(30), <1>0, <2>1, <2>2 DEF MatchInv
<1>4. CASE deleteOplogFiles
  <2>1. UNCHANGED <<src, epoch>> /\ disk'.log = {} /\ phase' = "clone"
    BY ZenonT(30), <1>4 DEF deleteOplogFiles
  <2>2. CommonPrefix'
    BY ZenonT(30), <2>1, NothingAgrees DEF CommonPrefix
  <2>. QED
    BY ZenonT(30), <2>1, <2>2, NothingAgrees DEF MatchInv
<1>. QED
  BY ZenonT(30), <1>1, <1>2, <1>3, <1>4

LEMMA CloneMatch == ASSUME ReplInfoInv, Clone PROVE MatchInv'
<1>1. /\ TypeOK /\ SourceInv /\ UNCHANGED <<src, epoch, conn>> /\ conn = epoch
      /\ disk'.log = WithBits(src.log, TRUE) /\ disk'.minLive = src.info /\ phase' = "fillGaps"
  BY ZenonT(30) DEF Clone, ReplInfoInv, WithBits
<1>2. src.log \in SUBSET SourceEntry
  BY ZenonT(30), <1>1, TypeFacts
<1>3. Entries(WithBits(src.log, TRUE)) = src.log
  BY ZenonT(30), <1>2, BitFacts
<1>4. Entries(disk'.log) = src.log /\ disk'.log # {}
  BY ZenonT(30), <1>1, <1>3, NothingAgrees DEF SourceInv
<1>5. minLive' = minLive
  BY ZenonT(30), <1>1 DEF minLive
<1>. QED
  BY ZenonT(30), <1>1, <1>4, <1>5 DEF MatchInv, SourceInv

\* _fillGaps: below minLive the clone had everything, and from there on up to
\* the last entry cloned it gets what the primary has.
LEMMA FillGapsMatch == ASSUME ReplInfoInv, MatchInv, fillGaps PROVE MatchInv'
<1>. DEFINE D == Entries(disk.log)
<1>1. /\ TypeOK /\ SourceInv /\ UNCHANGED <<src, epoch>> /\ phase = "fillGaps" /\ conn = epoch
      /\ LastGTID(disk.log) < minLive /\ phase' = "applyMissing"
      /\ disk'.log = disk.log \cup WithBits(Gaps, FALSE)
  BY ZenonT(30) DEF fillGaps, ReplInfoInv, WithBits, TypeOK
<1>2. /\ disk.log # {} /\ D \subseteq src.log
      /\ \A e \in src.log : e.gtid < disk.minLive => e \in D
      /\ \A e \in D : e.from <= epoch
  BY ZenonT(30), <1>1 DEF MatchInv
<1>3. Gaps \subseteq src.log /\ Gaps \in SUBSET SourceEntry
  BY ZenonT(30), <1>1, TypeFacts DEF Gaps, Visible
<1>4. Entries(disk'.log) = D \cup Gaps
  <2>1. Entries(WithBits(Gaps, FALSE)) = Gaps
    BY ZenonT(30), <1>3, BitFacts
  <2>2. Entries(disk.log \cup WithBits(Gaps, FALSE)) = D \cup Entries(WithBits(Gaps, FALSE))
    BY ZenonT(30) DEF Entries
  <2>3. disk'.log = disk.log \cup WithBits(Gaps, FALSE)
    BY ZenonT(30), <1>1
  <2>. QED
    BY ZenonT(30), <2>1, <2>2, <2>3
<1>5. /\ minLive \in Nat /\ minLive' = minLive /\ disk.minLive \in Nat /\ LastGTID(disk.log) \in Nat
      /\ \A e \in src.log : e.gtid \in Nat
  <2>1. minLive \in Nat /\ disk.minLive \in Nat /\ LastGTID(disk.log) \in Nat
    BY ZenonT(30), <1>1, MinLiveFacts, TypeFacts, EntryNats
  <2>2. minLive' = minLive
    BY ZenonT(30), <1>1 DEF minLive
  <2>. QED
    BY ZenonT(30), <1>1, <2>1, <2>2, SourceNats
<1>6. \A e \in D \cup Gaps : e.gtid <= LastGTID(disk.log)
  BY ZenonT(30), <1>1, DiskEntryFacts DEF Gaps
<1>7. ASSUME NEW f \in src.log, f.gtid <= LastGTID(disk.log) PROVE f \in D \cup Gaps
  <2>1. f \in Visible
    BY <1>1, <1>5, <1>7 DEF Visible
  <2>2. CASE f.gtid < disk.minLive
    BY ZenonT(30), <1>2, <2>2
  <2>3. CASE \E d \in disk.log : d.gtid = f.gtid
    <3>1. PICK d \in disk.log : d.gtid = f.gtid
      BY ZenonT(30), <2>3
    <3>2. Entry(d) \in D /\ Entry(d).gtid = f.gtid
      BY ZenonT(30), <1>1, <3>1, DiskEntryFacts
    <3>. QED
      BY ZenonT(30), <1>1, <1>2, <3>2 DEF SourceInv
  <2>4. CASE f.gtid >= disk.minLive /\ f.gtid \notin {d.gtid : d \in disk.log}
    BY ZenonT(30), <1>7, <2>1, <2>4 DEF Gaps
  <2>. QED
    BY <1>5, <2>2, <2>3, <2>4
<1>. HIDE DEF D
<1>8. Agree(D \cup Gaps, src.log, minLive)
  <2>1. D \cup Gaps \subseteq src.log
    BY ZenonT(30), <1>2, <1>3
  <2>2. LastGTID(disk.log) < minLive
    BY ZenonT(30), <1>1
  <2>3. \A x \in D \cup Gaps : x.gtid < minLive
    BY <1>5, <1>6, <2>1, <2>2
  <2>4. \A x \in D \cup Gaps, f \in src.log : f.gtid <= x.gtid => f \in D \cup Gaps
    <3>1. \A x \in D \cup Gaps, f \in src.log : f.gtid <= x.gtid => f.gtid <= LastGTID(disk.log)
      BY <1>5, <1>6, <2>1
    <3>. QED
      BY ZenonT(30), <1>7, <3>1
  <2>. QED
    BY ZenonT(30), <2>1, <2>3, <2>4 DEF Agree
<1>9. CommonPrefix'
  BY ZenonT(30), <1>1, <1>4, <1>5, <1>8 DEF CommonPrefix
<1>10. \A e \in D \cup Gaps : e.from <= epoch /\ e \in src.log
  BY ZenonT(30), <1>1, <1>2, <1>3 DEF SourceInv
<1>11. disk'.log # {}
  BY ZenonT(30), <1>1, <1>2
<1>. QED
  BY ZenonT(30), <1>1, <1>4, <1>9, <1>10, <1>11 DEF MatchInv

\* Steps that leave the entries as they are.
Settled == {"applyMissing", "applying", "live", "reset", "purge", "fatal"}

LEMMA SameEntriesMatch ==
    ASSUME ReplInfoInv, MatchInv, ReplInfoInv', UNCHANGED <<src, epoch>>,
           Entries(disk'.log) = Entries(disk.log), LastGTID(disk'.log) = LastGTID(disk.log),
           disk'.log # {}, phase \in Settled, phase' \in Settled,
           phase' = "live" /\ conn' = epoch => phase = "live" /\ conn = epoch,
           phase' \in {"reset", "purge"} => conn' < epoch
    PROVE  MatchInv'
<1>1. CommonPrefix'
  BY ZenonT(30) DEF MatchInv, CommonPrefix, minLive, Settled
<1>2. Entry(LastEntry(disk'.log)) = Entry(LastEntry(disk.log))
  <2>1. disk.log # {} /\ TypeOK /\ DiskInv /\ TypeOK'
    BY ZenonT(30) DEF MatchInv, Settled, ReplInfoInv
  <2>4. disk.log \in SUBSET MemberEntry /\ disk'.log \in SUBSET MemberEntry
    BY ZenonT(30), <2>1 DEF TypeOK
  <2>2. /\ Entry(LastEntry(disk.log)) \in Entries(disk.log)
        /\ Entry(LastEntry(disk.log)).gtid = LastGTID(disk.log)
    BY ZenonT(30), <2>1, <2>4, LastEntryFacts
  <2>3. /\ Entry(LastEntry(disk'.log)) \in Entries(disk'.log)
        /\ Entry(LastEntry(disk'.log)).gtid = LastGTID(disk'.log)
    BY ZenonT(30), <2>4, LastEntryFacts
  <2>. QED
    BY ZenonT(30), <2>1, <2>2, <2>3, EntriesDiffer
<1>. QED
  BY ZenonT(30), <1>1, <1>2 DEF MatchInv, Settled

LEMMA StartUpMatch ==
    ASSUME ReplInfoInv, MatchInv, ReplInfoInv', FindMissing \/ ApplyMissing \/ GoLive
    PROVE  MatchInv'
<1>1. CASE FindMissing
  BY ZenonT(30), <1>1, SameEntriesMatch DEF FindMissing, MatchInv, Settled
<1>2. CASE ApplyMissing
  <2>1. /\ TypeOK /\ UNCHANGED <<src, epoch, phase, conn>> /\ phase = "applying" /\ todo = Unapplied
        /\ todo # {} /\ disk.log # {}
    BY ZenonT(30), <1>2 DEF ApplyMissing, ReplInfoInv, PhaseInv, MatchInv
  <2>2. PICK e \in todo : ApplyEntry(e)
    <3>1. \A f \in todo : f.gtid \in Nat
      BY <2>1, TypeFacts DEF Unapplied
    <3>2. \E x \in {f.gtid : f \in todo} : \A y \in {f.gtid : f \in todo} : x <= y
      <4>1. {f.gtid : f \in todo} \in SUBSET Nat /\ {f.gtid : f \in todo} # {}
        BY ZenonT(30), <2>1, <3>1
      <4>. QED
        BY ZenonT(30), <4>1, NatMin
    <3>. QED
      BY ZenonT(30), <1>2, <3>2 DEF ApplyMissing
  <2>3. /\ Entries(disk'.log) = Entries(disk.log) /\ LastGTID(disk'.log) = LastGTID(disk.log)
        /\ disk'.log # {}
    BY ZenonT(30), <2>1, <2>2, ApplyFacts
  <2>. QED
    BY ZenonT(30), <2>1, <2>3, SameEntriesMatch DEF Settled
<1>3. CASE GoLive
  <2>1. /\ UNCHANGED <<src, epoch, disk>> /\ phase = "applying" /\ phase' = "live" /\ conn' # epoch
        /\ disk.log # {}
    BY ZenonT(30), <1>3 DEF GoLive, ReplInfoInv, TypeOK, MatchInv
  <2>. QED
    BY ZenonT(30), <2>1, SameEntriesMatch DEF Settled
<1>. QED
  BY ZenonT(30), <1>1, <1>2, <1>3

LEMMA RunningMatch ==
    ASSUME ReplInfoInv, MatchInv, ReplInfoInv',
           \/ noteGTIDAdded \/ noteApplyingGTID \/ noteGTIDApplied
           \/ RollbackReset \/ forceUpdateReplInfo \/ RollbackEnds \/ ReadMins \/ logToReplInfo
    PROVE  MatchInv'
<1>1. /\ UNCHANGED <<src, epoch, conn>> /\ disk'.log = disk.log
  <2>1. disk \in [log : SUBSET MemberEntry, minLive : Nat, minUnapplied : Nat]
    BY ZenonT(30) DEF ReplInfoInv, TypeOK
  <2>. QED
    BY ZenonT(30), <2>1 DEF noteGTIDAdded, noteApplyingGTID, noteGTIDApplied, RollbackReset, forceUpdateReplInfo,
                RollbackEnds, ReadMins, logToReplInfo
<1>2. phase \in {"live", "reset", "purge", "fatal"} /\ phase' \in {"live", "reset", "purge", "fatal"}
  BY ZenonT(30) DEF noteGTIDAdded, noteApplyingGTID, noteGTIDApplied, RollbackReset, forceUpdateReplInfo,
         RollbackEnds, ReadMins, logToReplInfo, ReplInfoInv, InfoInv
<1>3. /\ phase' = "live" => phase = "live" \/ conn # epoch
      /\ phase' \in {"reset", "purge"} => conn < epoch
  <2>1. conn \in Nat /\ epoch \in Nat /\ conn <= epoch
    BY ZenonT(30) DEF ReplInfoInv, TypeOK
  <2>2. phase' \in {"reset", "purge"} => phase \in {"reset", "purge"} \/ conn # epoch
    BY ZenonT(30) DEF noteGTIDAdded, noteApplyingGTID, noteGTIDApplied, RollbackReset, forceUpdateReplInfo,
           RollbackEnds, ReadMins, logToReplInfo
  <2>3. phase' = "live" => phase \in {"live", "purge"}
    BY ZenonT(30) DEF noteGTIDAdded, noteApplyingGTID, noteGTIDApplied, RollbackReset, forceUpdateReplInfo,
           RollbackEnds, ReadMins, logToReplInfo
  <2>. QED
    BY <2>1, <2>2, <2>3 DEF MatchInv
<1>4. disk.log # {}
  BY ZenonT(30), <1>2 DEF MatchInv
<1>. QED
  BY ZenonT(30), <1>1, <1>2, <1>3, <1>4, SameEntriesMatch DEF Settled

LEMMA ApplyQueuedMatch ==
    ASSUME ReplInfoInv, MatchInv, ReplInfoInv', ApplyQueued
    PROVE  MatchInv'
<1>1. TypeOK /\ UNCHANGED <<src, epoch, phase, conn>> /\ phase = "live" /\ disk.log # {}
  BY ZenonT(30) DEF ApplyQueued, ReplInfoInv, MatchInv
<1>2. PICK e \in Unapplied : ApplyEntry(e)
  BY ZenonT(30) DEF ApplyQueued, Unapplied
<1>3. /\ Entries(disk'.log) = Entries(disk.log) /\ LastGTID(disk'.log) = LastGTID(disk.log)
      /\ disk'.log # {}
  BY ZenonT(30), <1>1, <1>2, ApplyFacts
<1>. QED
  BY ZenonT(30), <1>1, <1>3, SameEntriesMatch DEF Settled

\* isRollbackRequired: what the primary returns first is our last entry.
LEMMA ConnectMatch == ASSUME ReplInfoInv, MatchInv, Connect PROVE MatchInv'
<1>1. /\ TypeOK /\ UNCHANGED <<src, epoch, disk, phase>> /\ conn' = epoch /\ phase = "live"
      /\ FirstFromLast = Entry(LastEntry(disk.log))
  BY ZenonT(30) DEF Connect, RollbackNeeded, ReplInfoInv
<1>. DEFINE ahead == {e \in Visible : e.gtid >= mem.lastLive}
            T == {e.gtid : e \in ahead}
<1>2. T \in SUBSET Nat /\ T # {}
  <2>1. \A e \in Visible : e.gtid \in Nat
    BY ZenonT(30), <1>1, SourceNats DEF Visible
  <2>2. \E e \in Visible : e.gtid >= mem.lastLive
    BY ZenonT(30) DEF Connect, SourceHasOurs
  <2>. QED
    BY ZenonT(30), <2>1, <2>2
<1>3. \E x \in T : \A y \in T : x <= y
  BY ZenonT(30), <1>2, NatMin
<1>4. FirstFromLast \in Visible
  BY ZenonT(30), <1>3 DEF FirstFromLast
<1>5. Entry(LastEntry(disk.log)) \in src.log
  BY ZenonT(30), <1>1, <1>4 DEF Visible
<1>6. CommonPrefix' /\ disk.log # {}
  BY ZenonT(30), <1>1 DEF MatchInv, CommonPrefix, minLive
<1>. QED
  BY ZenonT(30), <1>1, <1>5, <1>6 DEF MatchInv

\* What is written comes next in the primary's oplog.
LEMMA WriteMatch == ASSUME ReplInfoInv, MatchInv, ReplInfoInv', WriteEntry PROVE MatchInv'
<1>. DEFINE D == Entries(disk.log)
            last == LastGTID(disk.log)
<1>1. /\ TypeOK /\ SourceInv /\ UNCHANGED <<src, epoch, phase, conn>> /\ phase = "live"
      /\ conn = epoch /\ TypeOK' /\ DiskInv' /\ disk.log # {}
      /\ Agree(D, src.log, minLive) /\ Entry(LastEntry(disk.log)) \in src.log
      /\ \A e \in D : e.from <= epoch /\ (e.from = epoch => e \in src.log)
  BY ZenonT(30) DEF WriteEntry, ReplInfoInv, MatchInv, CommonPrefix
<1>2. PICK e \in Visible :
         /\ e.gtid > last /\ \A f \in Visible : f.gtid > last => e.gtid <= f.gtid
         /\ disk' = [disk EXCEPT !.log = disk.log \cup {WithBit(e, FALSE)}]
  BY ZenonT(30), WriteFacts
<1>3. /\ e \in src.log /\ e \in SourceEntry /\ e.gtid < minLive
      /\ \A f \in src.log : f.gtid < minLive => f \in Visible
  BY ZenonT(30), <1>1, TypeFacts DEF Visible
<1>4. disk'.log = disk.log \cup {WithBit(e, FALSE)} /\ Entry(WithBit(e, FALSE)) = e
  <2>1. disk \in [log : SUBSET MemberEntry, minLive : Nat, minUnapplied : Nat]
    BY ZenonT(30), <1>1 DEF TypeOK
  <2>2. Entry(WithBit(e, FALSE)) = e
    BY ZenonT(30), <1>3, SourceEntryFacts
  <2>. QED
    BY ZenonT(30), <1>2, <2>1, <2>2
<1>5. Entries(disk'.log) = D \cup {e}
  <2>1. Entries(disk.log \cup {WithBit(e, FALSE)}) = D \cup {Entry(WithBit(e, FALSE))}
    BY ZenonT(30) DEF Entries
  <2>. QED
    BY ZenonT(30), <1>4, <2>1
<1>6. /\ minLive \in Nat /\ minLive' = minLive /\ last \in Nat
      /\ \A f \in src.log : f.gtid \in Nat
      /\ \A f \in D : f.gtid \in Nat /\ f.gtid <= last
  <2>1. minLive \in Nat
    BY ZenonT(30), <1>1, MinLiveFacts
  <2>2. minLive' = minLive
    BY ZenonT(30), <1>1 DEF minLive
  <2>3. last \in Nat /\ \A f \in D : f.gtid \in Nat /\ f.gtid <= last
    BY ZenonT(30), <1>1, EntryNats
  <2>4. \A f \in src.log : f.gtid \in Nat
    BY ZenonT(30), <1>1, SourceNats
  <2>. QED
    BY ZenonT(30), <2>1, <2>2, <2>3, <2>4
<1>7. Entry(LastEntry(disk.log)) \in D /\ Entry(LastEntry(disk.log)).gtid = last
  BY ZenonT(30), <1>1, LastEntryFacts, TypeFacts
<1>. HIDE DEF D, last
<1>8. \A f \in D \cup src.log : f.gtid <= last => f \in D \cap src.log
  BY ZenonT(30), <1>1, <1>7 DEF Agree
<1>9. \A f \in src.log : f.gtid <= e.gtid => f \in D \cup {e}
  <2>. SUFFICES ASSUME NEW f \in src.log, f.gtid <= e.gtid PROVE f \in D \cup {e}
    BY ZenonT(30)
  <2>1. CASE f.gtid <= last
    BY ZenonT(30), <1>8, <2>1
  <2>2. CASE f.gtid > last
    <3>1. f \in Visible
      BY <1>3, <1>6
    <3>2. f.gtid = e.gtid
      BY <1>2, <1>3, <1>6, <2>2, <3>1
    <3>. QED
      BY ZenonT(30), <1>1, <1>3, <3>2 DEF SourceInv
  <2>. QED
    BY <1>6, <2>1, <2>2
<1>10. D \cup {e} \subseteq src.log
  <2>1. \A f \in D : f \in src.log
    BY ZenonT(30), <1>6, <1>8
  <2>. QED
    BY ZenonT(30), <1>3, <2>1
<1>11. Agree(D \cup {e}, src.log, minLive)
  <2>1. \A x \in D \cup {e} : x.gtid < minLive /\ x.gtid <= e.gtid
    BY <1>2, <1>3, <1>6
  <2>2. \A x \in D \cup {e}, f \in src.log : f.gtid <= x.gtid => f \in D \cup {e}
    <3>1. \A x \in D \cup {e}, f \in src.log : f.gtid <= x.gtid => f.gtid <= e.gtid
      BY <1>3, <1>6, <1>10, <2>1
    <3>. QED
      BY ZenonT(30), <1>9, <3>1
  <2>. QED
    BY ZenonT(30), <1>10, <2>1, <2>2 DEF Agree
<1>12. CommonPrefix'
  BY ZenonT(30), <1>1, <1>5, <1>6, <1>11 DEF CommonPrefix
<1>13. Entry(LastEntry(disk'.log)) \in src.log /\ disk'.log # {}
  <2>1. disk'.log # {} /\ disk'.log \in SUBSET MemberEntry
    BY ZenonT(30), <1>1, <1>4 DEF TypeOK
  <2>. QED
    BY ZenonT(30), <1>5, <1>10, <2>1, LastEntryFacts
<1>14. \A x \in D \cup {e} : x.from <= epoch /\ x \in src.log
  BY ZenonT(30), <1>1, <1>10 DEF SourceInv
<1>. QED
  BY ZenonT(30), <1>1, <1>5, <1>12, <1>13, <1>14 DEF MatchInv

\* What is rolled back is above all that is left.
LEMMA PurgeMatch == ASSUME ReplInfoInv, MatchInv, Purge PROVE MatchInv'
<1>. DEFINE D == Entries(disk.log)
            e == LastEntry(disk.log)
            x == Entry(e)
<1>1. /\ TypeOK /\ DiskInv /\ UNCHANGED <<src, epoch, phase, conn>> /\ phase = "purge"
      /\ Agree(D, src.log, minLive) /\ conn < epoch
      /\ \A f \in D : f.from <= epoch /\ (f.from = epoch => f \in src.log)
  BY ZenonT(30) DEF Purge, ReplInfoInv, MatchInv, CommonPrefix
<1>2. e \in disk.log /\ e.gtid = LastGTID(disk.log) /\ disk'.log = disk.log \ {e} /\ disk'.log # {}
  BY ZenonT(30), PurgeFacts
<1>3. x \in D /\ x.gtid = LastGTID(disk.log)
  BY ZenonT(30), <1>1, <1>2, DiskEntryFacts
<1>4. /\ \A f \in D : f.gtid \in Nat /\ f.gtid <= x.gtid
      /\ \A f, g \in D : f.gtid = g.gtid => f = g
  <2>1. \A f \in D : f.gtid \in Nat /\ f.gtid <= x.gtid
    BY ZenonT(30), <1>1, <1>3, EntryNats
  <2>2. \A f, g \in D : f.gtid = g.gtid => f = g
    BY ZenonT(30), <1>1, EntriesDiffer
  <2>. QED
    BY ZenonT(30), <2>1, <2>2
<1>. HIDE DEF e
<1>5. Entries(disk'.log) = D \ {x}
  <2>1. \A f \in disk.log : Entry(f) = x => f = e
    <3>1. \A f \in disk.log : Entry(f).gtid = f.gtid
      BY ZenonT(30), <1>1, EntryInDisk
    <3>2. \A f \in disk.log : f.gtid = e.gtid => f = e
      BY ZenonT(30), <1>1, <1>2 DEF DiskInv
    <3>. QED
      BY ZenonT(30), <1>2, <3>1, <3>2
  <2>. QED
    BY ZenonT(30), <1>2, <2>1 DEF Entries
<1>. HIDE DEF D, x
<1>6. \A f \in D \ {x} : f.gtid < x.gtid
  BY <1>3, <1>4
<1>7. Agree(D \ {x}, src.log, minLive)
  <2>. SUFFICES ASSUME NEW f \in (D \ {x}) \cap src.log
                PROVE  /\ f.gtid < minLive
                       /\ \A g \in (D \ {x}) \cup src.log : g.gtid <= f.gtid => g \in (D \ {x}) \cap src.log
    BY ZenonT(30) DEF Agree
  <2>1. /\ f.gtid < minLive /\ f.gtid < x.gtid /\ f.gtid \in Nat /\ x.gtid \in Nat
        /\ \A g \in D \cup src.log : g.gtid <= f.gtid => g \in D \cap src.log
    BY ZenonT(30), <1>1, <1>3, <1>4, <1>6 DEF Agree
  <2>2. ~ (x.gtid <= f.gtid)
    BY <2>1
  <2>. QED
    BY ZenonT(30), <2>1, <2>2
<1>8. CommonPrefix'
  BY ZenonT(30), <1>1, <1>5, <1>7 DEF CommonPrefix, minLive
<1>. QED
  BY ZenonT(30), <1>1, <1>2, <1>5, <1>8 DEF MatchInv

LEMMA MatchStep ==
    ASSUME ReplInfoInv, MatchInv, ReplInfoInv', ~ CrashAfterClone, [Next]_vars
    PROVE  MatchInv'
<1>1. CASE SourceStep
  BY ZenonT(30), <1>1, SourceMatch
<1>2. CASE StartUp
  BY ZenonT(30), <1>2, SyncMatch, CloneMatch, FillGapsMatch, StartUpMatch DEF StartUp
<1>3. CASE Producer \/ Applier
  BY ZenonT(30), <1>3, ConnectMatch, WriteMatch, RunningMatch, ApplyQueuedMatch DEF Producer, Applier
<1>4. CASE Rollback \/ InfoThread
  BY ZenonT(30), <1>4, RunningMatch, PurgeMatch DEF Rollback, InfoThread
<1>5. CASE Crash
  BY ZenonT(30), <1>5, SyncMatch
<1>6. CASE UNCHANGED vars
  <2>1. CommonPrefix' <=> CommonPrefix
    BY ZenonT(30), <1>6 DEF vars, CommonPrefix, minLive
  <2>. QED
    BY ZenonT(30), <1>6, <2>1 DEF vars, MatchInv, minLive
<1>. QED
  BY ZenonT(30), <1>1, <1>2, <1>3, <1>4, <1>5, <1>6 DEF Next, SourceStep

\* A live member whose last entry is its source's has the source's oplog up to
\* that entry, as isRollbackRequired takes for granted when it compares one
\* entry, provided that no crash falls between the clone and _fillGaps.
THEOREM OplogsMatch == ASSUME ~ CrashAfterClone PROVE Spec => []LogsMatch
<1>1. Init => MatchInv
  <2>. SUFFICES ASSUME Init PROVE MatchInv
    BY ZenonT(30)
  <2>1. disk.log = {} /\ phase = "down"
    BY ZenonT(30) DEF Init
  <2>. QED
    BY ZenonT(30), <2>1, NothingAgrees DEF MatchInv, CommonPrefix
<1>2. ReplInfoInv /\ MatchInv /\ ReplInfoInv' /\ [Next]_vars => MatchInv'
  BY ZenonT(30), MatchStep
<1>3. ReplInfoInv /\ MatchInv => LogsMatch
  <2>. SUFFICES ASSUME ReplInfoInv, MatchInv, phase = "live", Entry(LastEntry(disk.log)) \in Visible
                PROVE  Entries(disk.log) = {e \in Visible : e.gtid <= LastGTID(disk.log)}
    BY ZenonT(30) DEF LogsMatch
  <2>. DEFINE D == Entries(disk.log)
              last == LastGTID(disk.log)
  <2>1. TypeOK /\ disk.log # {} /\ Agree(D, src.log, minLive)
    BY ZenonT(30) DEF ReplInfoInv, MatchInv, CommonPrefix
  <2>2. Entry(LastEntry(disk.log)) \in D \cap src.log /\ Entry(LastEntry(disk.log)).gtid = last
    BY ZenonT(30), <2>1, LastEntryFacts, TypeFacts DEF Visible
  <2>3. \A e \in D : e.gtid <= last
    BY ZenonT(30), <2>1, DiskEntryFacts
  <2>4. /\ last < minLive /\ last \in Nat /\ minLive \in Nat /\ \A e \in src.log : e.gtid \in Nat
    <3>1. last < minLive
      BY ZenonT(30), <2>1, <2>2 DEF Agree
    <3>. QED
      BY ZenonT(30), <2>1, <3>1, MinLiveFacts, EntryNats, SourceNats
  <2>. HIDE DEF D, last
  <2>5. \A e \in D \cup src.log : e.gtid <= last => e \in D \cap src.log
    BY ZenonT(30), <2>1, <2>2 DEF Agree
  <2>6. ASSUME NEW e \in src.log, e.gtid <= last PROVE e.gtid < minLive
    <3>1. e.gtid \in Nat
      BY ZenonT(30), <2>4
    <3>. QED
      BY <2>4, <2>6, <3>1
  <2>7. D = {e \in Visible : e.gtid <= last}
    BY ZenonT(30), <2>3, <2>5, <2>6 DEF Visible
  <2>. QED
    BY ZenonT(30), <2>7 DEF D, last
<1>. QED
  BY <1>1, <1>2, <1>3, ReplInfoAlways, PTL DEF Spec

=============================================================================
