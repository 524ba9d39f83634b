----------------------- MODULE CappedCollectionProofs -----------------------
(***************************************************************************)
(* Proofs about CappedCollection, for any clients and any depth of nested  *)
(* transactions.  The keys that matter are those a transaction holds: the  *)
(* least key of each level of a stack, that of the transaction that has    *)
(* just ended, and the key that getNextPK has given out for the insert     *)
(* under way.  They are distinct, they grow towards the top of a stack,    *)
(* and all but the last are in uncommittedMinPKs, so that noteComplete     *)
(* takes away nobody else's, and no key that is still to be committed is   *)
(* below what a tailable cursor has read.                                  *)
(***************************************************************************)
EXTENDS CappedCollection, NaturalSets

\* The seconds each prover has for a leaf that names none.
USE SMTT(30), ZenonT(30)

\* A sequence, whatever it holds.
IsSeq(s) == s \in Seq(Range(s))

IsTxn(t) ==
    /\ DOMAIN t = {"ops", "minPK", "n", "size"}
    /\ IsSeq(t.ops) /\ t.minPK \in Nat

IsClient(r) ==
    /\ DOMAIN r = {"stack", "pc", "pk", "ended"}
    /\ IsSeq(r.stack) /\ \A i \in 1..Len(r.stack) : IsTxn(r.stack[i])
    /\ IsTxn(r.ended) /\ r.pk \in Nat
    /\ r.pc \in {"idle", "insert", "trim", "delete", "abort", "noteCommit", "noteAbort", "forget"}
    /\ r.pc \in {"insert", "trim", "delete", "abort"} => r.stack # <<>>

\* The keys a client holds: 0 is the transaction that has ended, then come the
\* levels of the stack, and last the insert under way.
Slots(r) == 0..(Len(r.stack) + 1)

KeyOf(r, i) ==
    IF i = 0 THEN r.ended.minPK
    ELSE IF i <= Len(r.stack) THEN r.stack[i].minPK
    ELSE IF r.pc = "insert" THEN r.pk ELSE NoPK

InsertsOf(r, i) == Keys("insert", (IF i = 0 THEN r.ended ELSE r.stack[i]).ops)

\* One client: its keys grow, and its inserts are not below them.
ClientInv(r, next, uncommitted) ==
    /\ \A i \in Slots(r) : KeyOf(r, i) < next
    /\ \A i, j \in Slots(r) :
          0 < i /\ i < j /\ KeyOf(r, i) # NoPK /\ KeyOf(r, j) # NoPK => KeyOf(r, i) < KeyOf(r, j)
    /\ \A i \in 0..Len(r.stack) :
          /\ KeyOf(r, i) # NoPK => KeyOf(r, i) \in uncommitted
          /\ \A k \in InsertsOf(r, i) : k \in Nat /\ k < next /\ KeyOf(r, i) # NoPK /\ KeyOf(r, i) <= k
    /\ r.pc = "insert" => r.pk # NoPK /\ (KeyOf(r, Len(r.stack)) = NoPK <=> r.pk \in uncommitted)
    /\ r.pc \notin {"noteCommit", "noteAbort"} => KeyOf(r, 0) = NoPK

ShapeInv ==
    /\ nextPK \in Nat \ {0} /\ uncommittedMinPKs \in SUBSET (Nat \ {0})
    /\ DOMAIN client = Clients /\ \A c \in Clients : IsClient(client[c])

\* No key is held twice, and whatever is uncommitted is held or was dropped.
KeysInv ==
    /\ \A c \in Clients : ClientInv(client[c], nextPK, uncommittedMinPKs)
    /\ \A c, d \in Clients : \A i \in Slots(client[c]), j \in Slots(client[d]) :
          KeyOf(client[c], i) # NoPK /\ KeyOf(client[c], i) = KeyOf(client[d], j) => c = d /\ i = j
    /\ \A u \in uncommittedMinPKs :
          u < nextPK /\ (u \in dropped \/ \E c \in Clients : \E i \in Slots(client[c]) : KeyOf(client[c], i) = u)
    /\ ~ verifyFailed

\* What is still to be committed is not below what the cursor has read.
CursorInv ==
    /\ committed \in SUBSET Nat
    /\ DOMAIN reader = {"primary", "secondary"} /\ DOMAIN reader["primary"] = {"upTo", "seen"}
    /\ reader["primary"].upTo \in Nat /\ reader["primary"].seen \in SUBSET Nat
    /\ reader["primary"].upTo <= nextPK
    /\ \A u \in uncommittedMinPKs : reader["primary"].upTo <= u
    /\ PrimaryReaderMissesNothing

NotedInv == ShapeInv /\ KeysInv /\ CursorInv

-----------------------------------------------------------------------------
(* Sequences, and the keys of the operations in them.                      *)

LEMMA SeqFacts ==
    ASSUME NEW s, IsSeq(s)
    PROVE  /\ Len(s) \in Nat /\ DOMAIN s = 1..Len(s) /\ (s = <<>> <=> Len(s) = 0)
           /\ \A i \in 1..Len(s) : s[i] \in Range(s)
           /\ \A x \in Range(s) : \E i \in 1..Len(s) : x = s[i]
<1>1. s \in Seq(Range(s))
  BY ZenonT(30) DEF IsSeq
<1>2. Len(s) \in Nat /\ DOMAIN s = 1..Len(s) /\ (s = <<>> <=> Len(s) = 0)
  BY <1>1
<1>. QED
  BY ZenonT(30), <1>2 DEF Range

LEMMA SeqIsSeq ==
    ASSUME NEW S, NEW s \in Seq(S)
    PROVE  IsSeq(s)
<1>1. Len(s) \in Nat /\ DOMAIN s = 1..Len(s) /\ s = [i \in 1..Len(s) |-> s[i]]
  OBVIOUS
<1>2. \A i \in 1..Len(s) : s[i] \in Range(s)
  BY ZenonT(30), <1>1 DEF Range
<1>3. s \in Seq(Range(s))
  BY <1>1, <1>2
<1>. QED
  BY ZenonT(30), <1>3 DEF IsSeq

LEMMA NoElements ==
    ASSUME NEW s, s = <<>>
    PROVE  IsSeq(s) /\ Len(s) = 0 /\ Range(s) = {}
<1>1. s \in Seq(Range(s)) /\ Len(s) = 0
  OBVIOUS
<1>2. IsSeq(s)
  BY ZenonT(30), <1>1 DEF IsSeq
<1>3. \A x \in Range(s) : \E i \in 1..Len(s) : x = s[i]
  BY <1>2, SeqFacts
<1>. QED
  BY <1>1, <1>2, <1>3

LEMMA AppendFacts ==
    ASSUME NEW s, IsSeq(s), NEW x
    PROVE  /\ IsSeq(Append(s, x)) /\ Len(Append(s, x)) = Len(s) + 1
           /\ \A i \in 1..Len(s) : Append(s, x)[i] = s[i]
           /\ Append(s, x)[Len(s) + 1] = x
           /\ Range(Append(s, x)) = Range(s) \union {x}
<1>. DEFINE T == Range(s) \union {x}
<1>0. Len(s) \in Nat /\ DOMAIN s = 1..Len(s)
  BY ZenonT(30), SeqFacts
<1>1. s \in Seq(T) /\ x \in T
  <2>1. s \in Seq(Range(s)) /\ Range(s) \subseteq T
    BY ZenonT(30) DEF IsSeq
  <2>. QED
    BY <2>1
<1>. HIDE DEF T
<1>2. Append(s, x) \in Seq(T) /\ Len(Append(s, x)) = Len(s) + 1
  BY <1>1
<1>3. /\ \A i \in 1..Len(s) : Append(s, x)[i] = s[i]
      /\ Append(s, x)[Len(s) + 1] = x
  BY <1>1
<1>4. DOMAIN Append(s, x) = 1..(Len(s) + 1)
  BY <1>2
<1>5. Range(Append(s, x)) = Range(s) \union {x}
  BY <1>0, <1>3, <1>4 DEF Range
<1>. QED
  BY ZenonT(30), <1>2, <1>3, <1>5, SeqIsSeq

LEMMA BelowFacts ==
    ASSUME NEW s, IsSeq(s), s # <<>>
    PROVE  /\ IsSeq(Below(s)) /\ Len(Below(s)) = Len(s) - 1 /\ Len(s) \in Nat /\ Len(s) >= 1
           /\ \A i \in 1..(Len(s) - 1) : Below(s)[i] = s[i]
<1>1. s \in Seq(Range(s)) /\ Len(s) \in Nat /\ Len(s) >= 1
  BY SeqFacts DEF IsSeq
<1>. DEFINE n == Len(s) - 1
<1>2. n \in Nat /\ n <= Len(s)
  BY <1>1
<1>. HIDE DEF n
<1>3. SubSeq(s, 1, n) \in Seq(Range(s))
  BY <1>1, <1>2
<1>4. Len(SubSeq(s, 1, n)) = n
  BY <1>2
<1>5. \A i \in 1..n : SubSeq(s, 1, n)[i] = s[i]
  BY <1>2
<1>. QED
  BY ZenonT(30), <1>1, <1>3, <1>4, <1>5, SeqIsSeq DEF Below, n

Replaced(s, n, x) == [s EXCEPT ![n] = x]

IsReplaced(t, s, n, x) ==
    /\ IsSeq(t) /\ Len(t) = Len(s) /\ t[n] = x
    /\ \A i \in 1..Len(s) : i # n => t[i] = s[i]

LEMMA ReplacedFacts ==
    ASSUME NEW s, IsSeq(s), NEW n \in 1..Len(s), NEW x
    PROVE  IsReplaced(Replaced(s, n, x), s, n, x)
<1>. DEFINE t == Replaced(s, n, x)
<1>0. Len(s) \in Nat /\ DOMAIN s = 1..Len(s) /\ \A i \in 1..Len(s) : s[i] \in Range(s)
  BY ZenonT(30), SeqFacts
<1>1. /\ DOMAIN t = 1..Len(s) /\ t[n] = x /\ \A i \in 1..Len(s) : i # n => t[i] = s[i]
      /\ t = [i \in 1..Len(s) |-> t[i]]
  BY ZenonT(30), <1>0 DEF Replaced
<1>. HIDE DEF t
<1>2. t \in Seq(Range(s) \union {x}) /\ Len(t) = Len(s)
  <2>. DEFINE T == Range(s) \union {x}
  <2>1. \A i \in 1..Len(s) : t[i] \in T
    BY ZenonT(30), <1>0, <1>1
  <2>. HIDE DEF T
  <2>2. t \in [1..Len(s) -> T]
    BY ZenonT(30), <1>1, <2>1
  <2>3. t \in Seq(T)
    <3>1. [1..Len(s) -> T] \in {[1..k -> T] : k \in Nat}
      BY ZenonT(30), <1>0
    <3>2. Seq(T) = UNION {[1..k -> T] : k \in Nat}
      OBVIOUS
    <3>. QED
      BY <2>2, <3>1, <3>2, ZenonT(30)
  <2>4. Len(t) = Len(s)
    BY <1>0, <1>1, <2>3
  <2>. QED
    BY ZenonT(30), <2>3, <2>4 DEF T
<1>. QED
  BY ZenonT(30), <1>1, <1>2, SeqIsSeq DEF t, IsReplaced

LEMMA ConcatFacts ==
    ASSUME NEW s, IsSeq(s), NEW t, IsSeq(t)
    PROVE  IsSeq(s \o t) /\ Range(s \o t) = Range(s) \union Range(t)
<1>. DEFINE T == Range(s) \union Range(t)
<1>0. /\ Len(s) \in Nat /\ DOMAIN s = 1..Len(s) /\ Len(t) \in Nat /\ DOMAIN t = 1..Len(t)
  BY ZenonT(30), SeqFacts
<1>1. s \in Seq(T) /\ t \in Seq(T)
  <2>1. s \in Seq(Range(s)) /\ t \in Seq(Range(t)) /\ Range(s) \subseteq T /\ Range(t) \subseteq T
    BY ZenonT(30) DEF IsSeq
  <2>. QED
    BY <2>1
<1>. HIDE DEF T
<1>2. /\ s \o t \in Seq(T) /\ Len(s \o t) = Len(s) + Len(t)
      /\ \A i \in 1..(Len(s) + Len(t)) :
            (s \o t)[i] = IF i <= Len(s) THEN s[i] ELSE t[i - Len(s)]
  BY <1>1
<1>3. DOMAIN (s \o t) = 1..(Len(s) + Len(t))
  BY <1>0, <1>2
<1>4. \A i \in 1..Len(t) : (s \o t)[i + Len(s)] = t[i]
  BY <1>0, <1>2
<1>5. \A i \in 1..Len(s) : (s \o t)[i] = s[i]
  BY <1>0, <1>2
<1>6. Range(s \o t) \subseteq Range(s) \union Range(t)
  <2>. SUFFICES ASSUME NEW i \in 1..(Len(s) + Len(t))
                PROVE  (s \o t)[i] \in Range(s) \union Range(t)
    BY ZenonT(30), <1>3 DEF Range
  <2>1. CASE i <= Len(s)
    BY <1>0, <1>5, <2>1 DEF Range
  <2>2. CASE ~ (i <= Len(s))
    <3>1. i - Len(s) \in 1..Len(t)
      BY <1>0, <2>2
    <3>2. (s \o t)[i] = t[i - Len(s)]
      BY ZenonT(30), <1>2, <2>2
    <3>. QED
      BY ZenonT(30), <1>0, <3>1, <3>2 DEF Range
  <2>. QED
    BY ZenonT(30), <2>1, <2>2
<1>7. \A i \in 1..Len(t) : i + Len(s) \in DOMAIN (s \o t)
  BY <1>0, <1>3
<1>8. \A i \in 1..Len(s) : i \in DOMAIN (s \o t)
  BY <1>0, <1>3
<1>9. Range(s) \union Range(t) \subseteq Range(s \o t)
  <2>1. \A i \in 1..Len(s) : s[i] \in Range(s \o t)
    BY ZenonT(30), <1>5, <1>8 DEF Range
  <2>2. \A i \in 1..Len(t) : t[i] \in Range(s \o t)
    BY ZenonT(30), <1>4, <1>7 DEF Range
  <2>3. \A x \in Range(s) : \E i \in 1..Len(s) : x = s[i]
    BY ZenonT(30), <1>0 DEF Range
  <2>4. \A x \in Range(t) : \E i \in 1..Len(t) : x = t[i]
    BY ZenonT(30), <1>0 DEF Range
  <2>. QED
    BY ZenonT(30), <2>1, <2>2, <2>3, <2>4
<1>. QED
  BY ZenonT(30), <1>2, <1>6, <1>9, SeqIsSeq

LEMMA KeysFacts ==
    ASSUME NEW kind, NEW s, NEW t, NEW u, Range(u) = Range(s) \union Range(t)
    PROVE  Keys(kind, u) = Keys(kind, s) \union Keys(kind, t)
  BY ZenonT(30) DEF Keys

\* What is appended to a log adds its key, if it is an insert.
Logged(s, kind, pk) == Append(s, <<kind, pk>>)

LEMMA LoggedFacts ==
    ASSUME NEW s, IsSeq(s), NEW kind, NEW pk
    PROVE  /\ IsSeq(Logged(s, kind, pk))
           /\ kind = "insert" => Keys("insert", Logged(s, kind, pk)) = Keys("insert", s) \union {pk}
           /\ kind # "insert" => Keys("insert", Logged(s, kind, pk)) = Keys("insert", s)
<1>. DEFINE t == Logged(s, kind, pk)
<1>1. IsSeq(t) /\ Range(t) = Range(s) \union {<<kind, pk>>}
  BY ZenonT(30), AppendFacts DEF Logged
<1>. HIDE DEF t
<1>2. <<kind, pk>>[1] = kind /\ <<kind, pk>>[2] = pk
  BY ZenonT(30)
<1>3. /\ kind = "insert" => Keys("insert", t) = Keys("insert", s) \union {pk}
      /\ kind # "insert" => Keys("insert", t) = Keys("insert", s)
  BY ZenonT(30), <1>1, <1>2 DEF Keys
<1>. QED
  BY ZenonT(30), <1>1, <1>3 DEF t

\* A delete is logged with the size of the document, and adds no insert.
LEMMA DeleteFacts ==
    ASSUME NEW s, IsSeq(s), NEW pk, NEW size
    PROVE  LET t == Append(s, <<"delete", pk, size>>)
           IN  IsSeq(t) /\ Keys("insert", t) = Keys("insert", s)
<1>. DEFINE t == Append(s, <<"delete", pk, size>>)
<1>1. IsSeq(t) /\ Range(t) = Range(s) \union {<<"delete", pk, size>>}
  BY ZenonT(30), AppendFacts
<1>. HIDE DEF t
<1>2. <<"delete", pk, size>>[1] # "insert"
  BY ZenonT(30)
<1>3. Keys("insert", t) = Keys("insert", s)
  BY ZenonT(30), <1>1, <1>2 DEF Keys
<1>. QED
  BY ZenonT(30), <1>1, <1>3 DEF t

-----------------------------------------------------------------------------
(* A step of one client.                                                   *)

Held(r) == {KeyOf(r, i) : i \in Slots(r)} \ {NoPK}

LEMMA KeyFacts ==
    ASSUME NEW r, IsClient(r)
    PROVE  /\ Len(r.stack) \in Nat /\ (r.pc \in {"insert", "trim", "delete", "abort"} => Len(r.stack) >= 1)
           /\ \A i \in Slots(r) : KeyOf(r, i) \in Nat
           /\ 0..Len(r.stack) \subseteq Slots(r) /\ Len(r.stack) + 1 \in Slots(r)
           /\ KeyOf(r, Len(r.stack) + 1) = IF r.pc = "insert" THEN r.pk ELSE NoPK
<1>1. /\ IsSeq(r.stack) /\ r.ended.minPK \in Nat /\ r.pk \in Nat
      /\ \A i \in 1..Len(r.stack) : r.stack[i].minPK \in Nat
      /\ r.pc \in {"insert", "trim", "delete", "abort"} => r.stack # <<>>
  BY ZenonT(30) DEF IsClient, IsTxn
<1>2. Len(r.stack) \in Nat /\ (r.stack # <<>> => Len(r.stack) >= 1)
  BY <1>1, SeqFacts
<1>3. 0..Len(r.stack) \subseteq Slots(r) /\ Len(r.stack) + 1 \in Slots(r)
  BY <1>2 DEF Slots
<1>4. ASSUME NEW i \in Slots(r) PROVE KeyOf(r, i) \in Nat
  <2>1. CASE i = 0
    BY ZenonT(30), <1>1, <2>1 DEF KeyOf
  <2>2. CASE i \in 1..Len(r.stack)
    BY <1>1, <1>2, <2>2 DEF KeyOf
  <2>3. CASE i = Len(r.stack) + 1
    BY <1>1, <1>2, <2>3 DEF KeyOf, NoPK
  <2>. QED
    BY <1>2, <2>1, <2>2, <2>3 DEF Slots
<1>5. KeyOf(r, Len(r.stack) + 1) = IF r.pc = "insert" THEN r.pk ELSE NoPK
  BY <1>2 DEF KeyOf
<1>. QED
  BY ZenonT(30), <1>1, <1>2, <1>3, <1>4, <1>5

\* A level of the stack.
LEMMA LevelFacts ==
    ASSUME NEW r, Len(r.stack) \in Nat, NEW i \in 1..Len(r.stack)
    PROVE  KeyOf(r, i) = r.stack[i].minPK /\ InsertsOf(r, i) = Keys("insert", r.stack[i].ops)
<1>1. i # 0 /\ i <= Len(r.stack)
  OBVIOUS
<1>. QED
  BY ZenonT(30), <1>1 DEF KeyOf, InsertsOf

\* The same level of two stacks.
LEMMA SameLevel ==
    ASSUME NEW q, NEW r, Len(q.stack) \in Nat, Len(r.stack) \in Nat,
           NEW i, i \in 1..Len(q.stack), i \in 1..Len(r.stack), r.stack[i] = q.stack[i]
    PROVE  KeyOf(r, i) = KeyOf(q, i) /\ InsertsOf(r, i) = InsertsOf(q, i)
  BY ZenonT(30), LevelFacts

\* A stack without the top level of another.
Popped(q, r) ==
    /\ Len(q.stack) \in Nat /\ Len(r.stack) \in Nat /\ Len(r.stack) = Len(q.stack) - 1
    /\ \A i \in 1..(Len(q.stack) - 1) : r.stack[i] = q.stack[i]

\* The levels they share have the same keys.
SameBelow(q, r) ==
    \A i \in 1..(Len(q.stack) - 1) : KeyOf(r, i) = KeyOf(q, i) /\ InsertsOf(r, i) = InsertsOf(q, i)

\* Popping the stack leaves the keys of the levels below.
LEMMA LevelsBelow == ASSUME NEW q, NEW r, Popped(q, r) PROVE SameBelow(q, r)
<1>. SUFFICES ASSUME NEW i \in 1..(Len(q.stack) - 1)
              PROVE  KeyOf(r, i) = KeyOf(q, i) /\ InsertsOf(r, i) = InsertsOf(q, i)
  BY DEF SameBelow
<1>1. /\ Len(q.stack) \in Nat /\ Len(r.stack) \in Nat
      /\ i \in 1..Len(q.stack) /\ i \in 1..Len(r.stack) /\ r.stack[i] = q.stack[i]
  BY DEF Popped
<1>. QED
  BY ZenonT(30), <1>1, SameLevel

\* Slots up to the top level n, and the one after it.
LEMMA SlotFacts ==
    ASSUME NEW n \in Nat, n >= 1
    PROVE  /\ \A i \in 0..(n + 1) : i \in 0..(n - 1) \/ i = n \/ i = n + 1
           /\ \A i \in 0..n : i = 0 \/ i \in 1..(n - 1) \/ i = n
           /\ \A i \in 0..n : i \in 0..(n - 1) \/ i = n
           /\ \A i \in 0..(n - 1) : i \in 0..n /\ i \in 0..(n + 1) /\ i # n /\ i # n + 1
           /\ \A i \in 1..(n - 1) : i \in 0..(n - 1) /\ i # 0
           /\ n \in 0..n /\ n \in 1..n /\ n \in 0..(n + 1) /\ n + 1 \in 0..(n + 1) /\ n # n + 1 /\ n # 0
  OBVIOUS

\* Client c becomes r.
Becomes(c, r) ==
    /\ DOMAIN client' = Clients /\ client'[c] = r
    /\ \A d \in Clients \ {c} : client'[d] = client[d]

\* What a client's step may do to the keys: it gives up some that it held, and
\* takes new ones that getNextPK gives out.
LEMMA ClientStep ==
    ASSUME ShapeInv, KeysInv, NEW c \in Clients, NEW r,
           Becomes(c, r), IsClient(r),
           nextPK' \in Nat, nextPK <= nextPK', uncommittedMinPKs' \in SUBSET (Nat \ {0}),
           ClientInv(r, nextPK', uncommittedMinPKs'),
           \A i, j \in Slots(r) : KeyOf(r, i) # NoPK /\ KeyOf(r, i) = KeyOf(r, j) => i = j,
           \A k \in Held(r) : k \in Held(client[c]) \/ k >= nextPK,
           \A u \in uncommittedMinPKs \ uncommittedMinPKs' : u \in Held(client[c]),
           \A u \in uncommittedMinPKs' \ uncommittedMinPKs : u \in Held(r),
           \A u \in uncommittedMinPKs' : u \in Held(client[c]) => u \in Held(r) \/ u \in dropped',
           dropped \subseteq dropped', ~ verifyFailed'
    PROVE  ShapeInv' /\ KeysInv'
<1>1. /\ DOMAIN client' = Clients /\ client'[c] = r
      /\ \A d \in Clients \ {c} : client'[d] = client[d]
  BY ZenonT(30) DEF Becomes
<1>2. ShapeInv'
  <2>1. \A d \in Clients : IsClient(client'[d])
    BY ZenonT(30), <1>1 DEF ShapeInv
  <2>2. nextPK' \in Nat \ {0}
    BY DEF ShapeInv
  <2>. QED
    BY ZenonT(30), <1>1, <2>1, <2>2 DEF ShapeInv
<1>3. \A q : \A i \in Slots(q) : KeyOf(q, i) # NoPK => KeyOf(q, i) \in Held(q)
  BY ZenonT(30) DEF Held
<1>4. \A q : \A k \in Held(q) : k # NoPK /\ \E i \in Slots(q) : k = KeyOf(q, i)
  BY ZenonT(30) DEF Held
<1>5. \A d \in Clients : /\ \A k \in Held(client[d]) : k < nextPK
                         /\ d # c => \A k \in Held(client[d]) : k \notin Held(client[c])
  <2>1. ASSUME NEW d \in Clients, NEW k \in Held(client[d]) PROVE k < nextPK
    <3>1. ClientInv(client[d], nextPK, uncommittedMinPKs)
      BY ZenonT(30) DEF KeysInv
    <3>2. PICK i \in Slots(client[d]) : k = KeyOf(client[d], i)
      BY ZenonT(30), <1>4
    <3>. QED
      BY ZenonT(30), <3>1, <3>2 DEF ClientInv
  <2>2. ASSUME NEW d \in Clients, d # c, NEW k \in Held(client[d]), k \in Held(client[c]) PROVE FALSE
    <3>1. PICK i \in Slots(client[d]) : k = KeyOf(client[d], i)
      BY ZenonT(30), <1>4
    <3>2. PICK j \in Slots(client[c]) : k = KeyOf(client[c], j)
      BY ZenonT(30), <1>4, <2>2
    <3>3. k # NoPK
      BY ZenonT(30), <1>4
    <3>. QED
      BY ZenonT(30), <2>2, <3>1, <3>2, <3>3 DEF KeysInv
  <2>. QED
    BY ZenonT(30), <2>1, <2>2
<1>6. ASSUME NEW d \in Clients \ {c} PROVE ClientInv(client[d], nextPK', uncommittedMinPKs')
  <2>. DEFINE q == client[d]
  <2>1. /\ ClientInv(q, nextPK, uncommittedMinPKs) /\ IsClient(q)
    BY ZenonT(30), <1>6 DEF KeysInv, ShapeInv
  <2>. HIDE DEF q
  <2>2. \A k \in Held(q) : k \in uncommittedMinPKs <=> k \in uncommittedMinPKs'
    <3>1. nextPK \in Nat /\ uncommittedMinPKs' \in SUBSET (Nat \ {0})
      BY ZenonT(30) DEF ShapeInv
    <3>2. TAKE k \in Held(q)
    <3>3. k < nextPK /\ k \notin Held(client[c])
      BY ZenonT(30), <1>5, <1>6 DEF q
    <3>4. k \in uncommittedMinPKs => k \in uncommittedMinPKs'
      BY ZenonT(30), <3>3
    <3>5. ASSUME k \in uncommittedMinPKs', k \notin uncommittedMinPKs PROVE FALSE
      <4>1. k \in Held(r) /\ k \in Nat
        BY ZenonT(30), <3>1, <3>5
      <4>2. k >= nextPK
        BY ZenonT(30), <3>3, <4>1
      <4>. QED
        BY <3>1, <3>3, <4>1, <4>2
    <3>. QED
      BY ZenonT(30), <3>4, <3>5
  <2>. QED
    <3>1. /\ Len(q.stack) \in Nat /\ \A i \in Slots(q) : KeyOf(q, i) \in Nat
          /\ 0..Len(q.stack) \subseteq Slots(q) /\ Len(q.stack) + 1 \in Slots(q)
          /\ q.pc = "insert" => KeyOf(q, Len(q.stack) + 1) = q.pk
      BY ZenonT(30), <2>1, KeyFacts
    <3>4. nextPK \in Nat
      BY ZenonT(30) DEF ShapeInv
    <3>5. \A i \in Slots(q) : KeyOf(q, i) < nextPK'
      BY <2>1, <3>1, <3>4 DEF ClientInv
    <3>6. \A i \in 0..Len(q.stack) :
             /\ KeyOf(q, i) # NoPK => KeyOf(q, i) \in uncommittedMinPKs'
             /\ \A k \in InsertsOf(q, i) : k \in Nat /\ k < nextPK' /\ KeyOf(q, i) # NoPK /\ KeyOf(q, i) <= k
      <4>. SUFFICES ASSUME NEW i \in 0..Len(q.stack)
                    PROVE  /\ KeyOf(q, i) # NoPK => KeyOf(q, i) \in uncommittedMinPKs'
                           /\ \A k \in InsertsOf(q, i) :
                                 k \in Nat /\ k < nextPK' /\ KeyOf(q, i) # NoPK /\ KeyOf(q, i) <= k
        BY ZenonT(30)
      <4>1. i \in Slots(q)
        BY ZenonT(30), <3>1
      <4>2. /\ KeyOf(q, i) # NoPK => KeyOf(q, i) \in uncommittedMinPKs
            /\ \A k \in InsertsOf(q, i) :
                  k \in Nat /\ k < nextPK /\ KeyOf(q, i) # NoPK /\ KeyOf(q, i) <= k
        BY ZenonT(30), <2>1 DEF ClientInv
      <4>3. KeyOf(q, i) # NoPK => KeyOf(q, i) \in uncommittedMinPKs'
        BY ZenonT(30), <1>3, <2>2, <4>1, <4>2
      <4>. QED
        BY <3>4, <4>2, <4>3
    <3>7. q.pc = "insert" => q.pk # NoPK /\ (KeyOf(q, Len(q.stack)) = NoPK <=> q.pk \in uncommittedMinPKs')
      BY ZenonT(30), <1>3, <2>1, <2>2, <3>1 DEF ClientInv
    <3>8. /\ \A i, j \in Slots(q) :
                0 < i /\ i < j /\ KeyOf(q, i) # NoPK /\ KeyOf(q, j) # NoPK => KeyOf(q, i) < KeyOf(q, j)
          /\ q.pc \notin {"noteCommit", "noteAbort"} => KeyOf(q, 0) = NoPK
      BY ZenonT(30), <2>1 DEF ClientInv
    <3>9. ClientInv(q, nextPK', uncommittedMinPKs')
      BY ZenonT(30), <3>5, <3>6, <3>7, <3>8 DEF ClientInv
    <3>. QED
      BY ZenonT(30), <3>9 DEF q
<1>7. \A d \in Clients : ClientInv(client'[d], nextPK', uncommittedMinPKs')
  BY ZenonT(30), <1>1, <1>6
<1>8. ASSUME NEW d \in Clients, NEW e \in Clients, NEW i \in Slots(client'[d]), NEW j \in Slots(client'[e]),
             KeyOf(client'[d], i) # NoPK, KeyOf(client'[d], i) = KeyOf(client'[e], j)
      PROVE  d = e /\ i = j
  <2>0. nextPK \in Nat
    BY ZenonT(30) DEF ShapeInv
  <2>1. ASSUME NEW f \in Clients \ {c}, NEW k \in Held(client[f]), k \in Held(r) PROVE FALSE
    <3>1. k < nextPK /\ k \notin Held(client[c])
      BY ZenonT(30), <1>5, <2>1
    <3>2. k \in Nat
      <4>1. IsClient(client[f])
        BY ZenonT(30) DEF ShapeInv
      <4>. QED
        BY <1>4, <2>1, <4>1, KeyFacts
    <3>. QED
      BY <2>0, <2>1, <3>1, <3>2
  <2>2. CASE d = c /\ e = c
    BY ZenonT(30), <1>1, <1>8, <2>2
  <2>3. CASE d = c /\ e # c
    BY ZenonT(30), <1>1, <1>3, <1>8, <2>1, <2>3
  <2>4. CASE d # c /\ e = c
    BY ZenonT(30), <1>1, <1>3, <1>8, <2>1, <2>4
  <2>5. CASE d # c /\ e # c
    BY <1>1, <1>8, <2>5 DEF KeysInv
  <2>. QED
    BY ZenonT(30), <2>2, <2>3, <2>4, <2>5
<1>9. ASSUME NEW u \in uncommittedMinPKs'
      PROVE  u < nextPK' /\ (u \in dropped' \/ \E d \in Clients : \E i \in Slots(client'[d]) : KeyOf(client'[d], i) = u)
  <2>1. CASE u \in Held(r)
    <3>1. PICK i \in Slots(r) : u = KeyOf(r, i)
      BY ZenonT(30), <1>4, <2>1
    <3>2. u < nextPK'
      BY ZenonT(30), <3>1 DEF ClientInv
    <3>. QED
      BY ZenonT(30), <1>1, <3>1, <3>2
  <2>2. CASE u \notin Held(r)
    <3>1. u \in uncommittedMinPKs /\ (u \in Held(client[c]) => u \in dropped')
      BY ZenonT(30), <1>9, <2>2
    <3>2. u < nextPK'
      BY <3>1 DEF KeysInv, ShapeInv
    <3>3. CASE u \in dropped'
      BY ZenonT(30), <3>2, <3>3
    <3>4. CASE u \notin dropped'
      <4>1. PICK d \in Clients : \E i \in Slots(client[d]) : KeyOf(client[d], i) = u
        BY ZenonT(30), <3>1, <3>4 DEF KeysInv
      <4>2. u \in Held(client[d])
        BY ZenonT(30), <1>3, <4>1, <1>9 DEF NoPK
      <4>3. d # c
        BY ZenonT(30), <3>1, <3>4, <4>2
      <4>. QED
        BY ZenonT(30), <1>1, <3>2, <4>1, <4>3
    <3>. QED
      BY ZenonT(30), <3>3, <3>4
  <2>. QED
    BY ZenonT(30), <2>1, <2>2
<1>. QED
  BY <1>2, <1>7, <1>8, <1>9 DEF KeysInv

\* What a step that reads nothing and commits nothing leaves of the cursor.
LEMMA CursorStays ==
    ASSUME NotedInv, reader' = reader, committed' = committed,
           nextPK' \in Nat, nextPK <= nextPK',
           \A u \in uncommittedMinPKs' : u \in uncommittedMinPKs \/ u = nextPK
    PROVE  CursorInv'
<1>1. /\ nextPK \in Nat /\ reader["primary"].upTo \in Nat
      /\ CursorInv
  BY ZenonT(30) DEF NotedInv, ShapeInv, CursorInv
<1>2. /\ reader'["primary"].upTo <= nextPK'
      /\ \A u \in uncommittedMinPKs' : reader'["primary"].upTo <= u
  BY <1>1 DEF CursorInv
<1>. QED
  BY ZenonT(30), <1>1, <1>2 DEF CursorInv, PrimaryReaderMissesNothing

LEMMA NewTxnFacts == IsTxn(NewTxn) /\ NewTxn.minPK = NoPK /\ Keys("insert", NewTxn.ops) = {}
<1>1. NewTxn.ops = <<>> /\ NewTxn.minPK = 0 /\ NewTxn.n = 0 /\ NewTxn.size = 0
  BY ZenonT(30) DEF NewTxn, NoPK
<1>2. IsSeq(NewTxn.ops) /\ Range(NewTxn.ops) = {}
  BY ZenonT(30), <1>1, NoElements
<1>3. Keys("insert", NewTxn.ops) = {}
  BY ZenonT(30), <1>2 DEF Keys
<1>4. DOMAIN NewTxn = {"ops", "minPK", "n", "size"}
  BY ZenonT(30) DEF NewTxn
<1>. QED
  BY <1>1, <1>2, <1>3, <1>4 DEF IsTxn, NoPK

LEMMA ClientFacts ==
    ASSUME NotedInv, NEW c \in Clients, NEW q, q = client[c]
    PROVE  /\ IsClient(q) /\ ClientInv(q, nextPK, uncommittedMinPKs)
           /\ ShapeInv /\ KeysInv /\ nextPK \in Nat /\ nextPK > 0
           /\ Len(q.stack) \in Nat /\ IsSeq(q.stack) /\ \A i \in Slots(q) : KeyOf(q, i) \in Nat
           /\ \A i, j \in Slots(q) : KeyOf(q, i) # NoPK /\ KeyOf(q, i) = KeyOf(q, j) => i = j
<1>1. IsClient(q) /\ ClientInv(q, nextPK, uncommittedMinPKs) /\ ShapeInv /\ KeysInv
  BY ZenonT(30) DEF NotedInv, ShapeInv, KeysInv
<1>2. Len(q.stack) \in Nat /\ \A i \in Slots(q) : KeyOf(q, i) \in Nat
  BY ZenonT(30), <1>1, KeyFacts
<1>3. IsSeq(q.stack)
  BY ZenonT(30), <1>1 DEF IsClient
<1>4. \A i, j \in Slots(q) : KeyOf(q, i) # NoPK /\ KeyOf(q, i) = KeyOf(q, j) => i = j
  BY <1>1 DEF KeysInv
<1>5. nextPK \in Nat /\ nextPK > 0
  BY <1>1 DEF ShapeInv
<1>. QED
  BY ZenonT(30), <1>1, <1>2, <1>3, <1>4, <1>5

\* The keys of a client grow.
LEMMA KeysGrow ==
    ASSUME NEW r, NEW next, NEW uncommitted, ClientInv(r, next, uncommitted),
           NEW i \in Slots(r), NEW j \in Slots(r),
           0 < i, i < j, KeyOf(r, i) # NoPK, KeyOf(r, j) # NoPK
    PROVE  KeyOf(r, i) < KeyOf(r, j)
  BY ZenonT(30) DEF ClientInv

\* Steps that change nothing but one client.
LEMMA KeysStay ==
    ASSUME NotedInv, NEW c \in Clients, NEW r, Becomes(c, r), IsClient(r),
           UNCHANGED <<nextPK, uncommittedMinPKs, verifyFailed>>,
           ClientInv(r, nextPK, uncommittedMinPKs),
           \A i, j \in Slots(r) : KeyOf(r, i) # NoPK /\ KeyOf(r, i) = KeyOf(r, j) => i = j,
           Held(r) \subseteq Held(client[c]),
           \A k \in Held(client[c]) : k \in Held(r) \/ k \in dropped' \/ k \notin uncommittedMinPKs,
           dropped \subseteq dropped'
    PROVE  ShapeInv' /\ KeysInv'
<1>1. /\ ShapeInv /\ KeysInv /\ nextPK \in Nat /\ uncommittedMinPKs \in SUBSET (Nat \ {0})
      /\ ~ verifyFailed
  BY ZenonT(30) DEF NotedInv, ShapeInv, KeysInv
<1>2. /\ nextPK' \in Nat /\ nextPK <= nextPK' /\ uncommittedMinPKs' \in SUBSET (Nat \ {0})
      /\ ClientInv(r, nextPK', uncommittedMinPKs') /\ ~ verifyFailed'
      /\ \A u \in uncommittedMinPKs \ uncommittedMinPKs' : u \in Held(client[c])
      /\ \A u \in uncommittedMinPKs' \ uncommittedMinPKs : u \in Held(r)
      /\ \A u \in uncommittedMinPKs' : u \in Held(client[c]) => u \in Held(r) \/ u \in dropped'
      /\ \A k \in Held(r) : k \in Held(client[c]) \/ k >= nextPK
  BY <1>1
<1>. QED
  BY ZenonT(30), <1>1, <1>2, ClientStep

LEMMA SameKeys ==
    ASSUME NotedInv, NEW c \in Clients, NEW r, Becomes(c, r), IsClient(r),
           UNCHANGED <<nextPK, uncommittedMinPKs, committed, reader, verifyFailed>>,
           ClientInv(r, nextPK, uncommittedMinPKs),
           \A i, j \in Slots(r) : KeyOf(r, i) # NoPK /\ KeyOf(r, i) = KeyOf(r, j) => i = j,
           Held(r) \subseteq Held(client[c]),
           \A k \in Held(client[c]) : k \in Held(r) \/ k \in dropped' \/ k \notin uncommittedMinPKs,
           dropped \subseteq dropped'
    PROVE  NotedInv'
<1>1. ShapeInv' /\ KeysInv'
  BY ZenonT(30), KeysStay
<1>2. nextPK' \in Nat /\ nextPK <= nextPK'
  BY DEF NotedInv, ShapeInv
<1>3. CursorInv'
  BY ZenonT(30), <1>2, CursorStays
<1>. QED
  BY ZenonT(30), <1>1, <1>3 DEF NotedInv

LEMMA BeginInv == ASSUME NotedInv, NEW c \in Clients, Begin(c) PROVE NotedInv'
<1>. DEFINE q == client[c]
            n == Len(q.stack)
            r == client'[c]
<1>0. q.pc = "idle" /\ UNCHANGED <<nextPK, uncommittedMinPKs, committed, reader, dropped, verifyFailed>>
  BY ZenonT(30) DEF Begin, collVars, history
<1>1. /\ IsClient(q) /\ ClientInv(q, nextPK, uncommittedMinPKs) /\ nextPK \in Nat /\ nextPK > 0
      /\ n \in Nat /\ IsSeq(q.stack) /\ \A i \in Slots(q) : KeyOf(q, i) \in Nat
      /\ \A i, j \in Slots(q) : KeyOf(q, i) # NoPK /\ KeyOf(q, i) = KeyOf(q, j) => i = j
  BY ZenonT(30), ClientFacts
<1>2. KeyOf(q, n + 1) = NoPK
  BY ZenonT(30), <1>0, <1>1, KeyFacts
<1>3. DOMAIN client = Clients /\ DOMAIN q = {"stack", "pc", "pk", "ended"}
  BY ZenonT(30), <1>1 DEF NotedInv, ShapeInv, IsClient
<1>4. /\ Becomes(c, r) /\ DOMAIN r = {"stack", "pc", "pk", "ended"}
      /\ r.stack = Append(q.stack, NewTxn) /\ r.pc = q.pc /\ r.pk = q.pk /\ r.ended = q.ended
  BY ZenonT(30), <1>3 DEF Begin, Becomes
<1>. HIDE DEF q, r
<1>5. /\ IsSeq(r.stack) /\ Len(r.stack) = n + 1 /\ r.stack[n + 1] = NewTxn
      /\ \A i \in 1..n : r.stack[i] = q.stack[i]
  <2>1. IsSeq(q.stack)
    BY ZenonT(30), <1>1
  <2>. QED
    BY <1>4, <2>1, AppendFacts
<1>. HIDE DEF n
<1>6. IsClient(r)
  <2>1. \A i \in 1..(n + 1) : IsTxn(r.stack[i])
    BY <1>0, <1>1, <1>2, <1>5, NewTxnFacts DEF IsClient, n
  <2>3. IsTxn(r.ended) /\ r.pk \in Nat
    BY ZenonT(30), <1>1, <1>4 DEF IsClient
  <2>. QED
    BY ZenonT(30), <1>0, <1>4, <1>5, <2>1, <2>3 DEF IsClient
<1>7. /\ Slots(q) = 0..(n + 1) /\ Slots(r) = 0..(n + 2)
      /\ \A i \in 0..n : KeyOf(r, i) = KeyOf(q, i) /\ InsertsOf(r, i) = InsertsOf(q, i)
      /\ KeyOf(r, n + 1) = NoPK /\ KeyOf(r, n + 2) = NoPK /\ InsertsOf(r, n + 1) = {}
  <2>1. \A i \in 0..n : KeyOf(r, i) = KeyOf(q, i) /\ InsertsOf(r, i) = InsertsOf(q, i)
    BY <1>1, <1>2, <1>4, <1>5 DEF KeyOf, InsertsOf, n
  <2>2. KeyOf(r, n + 1) = NoPK /\ KeyOf(r, n + 2) = NoPK /\ InsertsOf(r, n + 1) = {}
    BY <1>0, <1>1, <1>2, <1>4, <1>5, NewTxnFacts DEF KeyOf, InsertsOf
  <2>. QED
    BY <1>1, <1>2, <1>5, <2>1, <2>2 DEF Slots, n
<1>8. \A i \in Slots(r) : KeyOf(r, i) # NoPK => i \in 0..n /\ KeyOf(q, i) = KeyOf(r, i)
  BY <1>1, <1>2, <1>7
<1>9. ClientInv(r, nextPK, uncommittedMinPKs)
  <2>1. \A i \in Slots(r) : KeyOf(r, i) < nextPK
    BY <1>0, <1>1, <1>2, <1>7, <1>8 DEF ClientInv, ShapeInv, NoPK
  <2>2. \A i, j \in Slots(r) :
           0 < i /\ i < j /\ KeyOf(r, i) # NoPK /\ KeyOf(r, j) # NoPK => KeyOf(r, i) < KeyOf(r, j)
    BY <1>0, <1>1, <1>2, <1>7, <1>8 DEF ClientInv
  <2>3. \A i \in 0..Len(r.stack) :
           /\ KeyOf(r, i) # NoPK => KeyOf(r, i) \in uncommittedMinPKs
           /\ \A k \in InsertsOf(r, i) : k \in Nat /\ k < nextPK /\ KeyOf(r, i) # NoPK /\ KeyOf(r, i) <= k
    BY <1>0, <1>1, <1>2, <1>5, <1>7 DEF ClientInv, n
  <2>4. KeyOf(r, 0) = NoPK /\ r.pc = "idle"
    BY <1>0, <1>1, <1>2, <1>4, <1>7 DEF ClientInv
  <2>. QED
    BY ZenonT(30), <2>1, <2>2, <2>3, <2>4 DEF ClientInv
<1>10. Held(r) \subseteq Held(q) /\ Held(q) \subseteq Held(r)
  BY <1>1, <1>2, <1>7, <1>8 DEF Held
<1>11. \A i, j \in Slots(r) : KeyOf(r, i) # NoPK /\ KeyOf(r, i) = KeyOf(r, j) => i = j
  BY <1>0, <1>1, <1>7, <1>8
<1>. QED
  BY ZenonT(30), <1>0, <1>4, <1>6, <1>9, <1>10, <1>11, SameKeys DEF q

\* Steps that leave the keys of the levels as they are.
LEMMA SameLevels ==
    ASSUME NotedInv, NEW c \in Clients, NEW q, q = client[c], NEW r,
           Becomes(c, r), IsClient(r),
           UNCHANGED <<nextPK, uncommittedMinPKs, committed, reader, dropped, verifyFailed>>,
           Len(r.stack) = Len(q.stack),
           \A i \in 0..Len(q.stack) : KeyOf(r, i) = KeyOf(q, i) /\ InsertsOf(r, i) = InsertsOf(q, i),
           q.pc \in {"idle", "trim", "delete", "forget"}, r.pc \in {"idle", "trim", "delete", "abort"}
    PROVE  NotedInv'
<1>. DEFINE n == Len(q.stack)
<1>1. /\ IsClient(q) /\ ClientInv(q, nextPK, uncommittedMinPKs) /\ n \in Nat
      /\ \A i, j \in Slots(q) : KeyOf(q, i) # NoPK /\ KeyOf(q, i) = KeyOf(q, j) => i = j
  <2>1. IsClient(q) /\ ClientInv(q, nextPK, uncommittedMinPKs)
    BY ZenonT(30) DEF NotedInv, ShapeInv, KeysInv
  <2>2. Len(q.stack) \in Nat
    BY ZenonT(30), <2>1, KeyFacts
  <2>3. \A i, j \in Slots(q) : KeyOf(q, i) # NoPK /\ KeyOf(q, i) = KeyOf(q, j) => i = j
    BY ZenonT(30) DEF NotedInv, KeysInv
  <2>. QED
    BY ZenonT(30), <2>1, <2>2, <2>3
<1>2. KeyOf(q, n + 1) = NoPK /\ KeyOf(r, n + 1) = NoPK
  <2>1. q.pc # "insert" /\ r.pc # "insert"
    BY ZenonT(30)
  <2>2. KeyOf(q, Len(q.stack) + 1) = NoPK
    BY ZenonT(30), <1>1, <2>1, KeyFacts
  <2>3. KeyOf(r, Len(r.stack) + 1) = NoPK
    BY ZenonT(30), <2>1, KeyFacts
  <2>. QED
    BY ZenonT(30), <2>2, <2>3
<1>. HIDE DEF n
<1>3. Slots(q) = 0..(n + 1) /\ Slots(r) = 0..(n + 1)
  BY ZenonT(30) DEF Slots, n
<1>4. \A i \in Slots(r) : i \in Slots(q) /\ KeyOf(r, i) = KeyOf(q, i)
  BY <1>1, <1>2, <1>3 DEF n
<1>5. ClientInv(r, nextPK, uncommittedMinPKs)
  <2>1. \A i \in Slots(r) : KeyOf(r, i) < nextPK
    BY ZenonT(30), <1>1, <1>4 DEF ClientInv
  <2>2. \A i, j \in Slots(r) :
           0 < i /\ i < j /\ KeyOf(r, i) # NoPK /\ KeyOf(r, j) # NoPK => KeyOf(r, i) < KeyOf(r, j)
    <3>. SUFFICES ASSUME NEW i \in Slots(r), NEW j \in Slots(r),
                         0 < i, i < j, KeyOf(r, i) # NoPK, KeyOf(r, j) # NoPK
                  PROVE  KeyOf(r, i) < KeyOf(r, j)
      BY ZenonT(30)
    <3>1. /\ i \in Slots(q) /\ KeyOf(r, i) = KeyOf(q, i)
          /\ j \in Slots(q) /\ KeyOf(r, j) = KeyOf(q, j)
      BY ZenonT(30), <1>4
    <3>. QED
      BY ZenonT(30), <1>1, <3>1, KeysGrow
  <2>3. \A i \in 0..Len(r.stack) :
           /\ KeyOf(r, i) # NoPK => KeyOf(r, i) \in uncommittedMinPKs
           /\ \A k \in InsertsOf(r, i) : k \in Nat /\ k < nextPK /\ KeyOf(r, i) # NoPK /\ KeyOf(r, i) <= k
    BY <1>1 DEF ClientInv
  <2>4. KeyOf(r, 0) = NoPK
    BY <1>1 DEF ClientInv, n
  <2>. QED
    BY ZenonT(30), <2>1, <2>2, <2>3, <2>4 DEF ClientInv
<1>6. Held(r) \subseteq Held(q) /\ Held(q) \subseteq Held(r)
  BY ZenonT(30), <1>3, <1>4 DEF Held
<1>7. \A i, j \in Slots(r) : KeyOf(r, i) # NoPK /\ KeyOf(r, i) = KeyOf(r, j) => i = j
  BY ZenonT(30), <1>1, <1>4
<1>. QED
  BY ZenonT(30), <1>5, <1>6, <1>7, SameKeys

\* A client whose level at the top is replaced.
LEMMA SetTopFacts ==
    ASSUME NotedInv, NEW c \in Clients, NEW q, q = client[c], q.stack # <<>>, NEW r, r = client'[c],
           NEW t, IsTxn(t), NEW pc \in {"idle", "trim", "delete", "abort"}, client' = SetTop(c, t, pc)
    PROVE  /\ Becomes(c, r) /\ IsClient(r)
           /\ Len(r.stack) = Len(q.stack) /\ r.pc = pc
           /\ \A i \in 0..(Len(q.stack) - 1) :
                 KeyOf(r, i) = KeyOf(q, i) /\ InsertsOf(r, i) = InsertsOf(q, i)
           /\ KeyOf(r, Len(q.stack)) = t.minPK
           /\ InsertsOf(r, Len(q.stack)) = Keys("insert", t.ops)
<1>. DEFINE n == Len(q.stack)
<1>1. IsClient(q) /\ n \in Nat /\ IsSeq(q.stack)
  BY ZenonT(30), ClientFacts
<1>2. DOMAIN client = Clients /\ DOMAIN q = {"stack", "pc", "pk", "ended"} /\ DOMAIN q.stack = 1..n
  BY ZenonT(30), <1>1, SeqFacts DEF NotedInv, ShapeInv, IsClient
<1>3. n \in 1..n
  BY <1>1, SeqFacts
<1>4. /\ Becomes(c, r) /\ DOMAIN r = {"stack", "pc", "pk", "ended"}
      /\ r.stack = [q.stack EXCEPT ![n] = t] /\ r.pc = pc /\ r.pk = q.pk /\ r.ended = q.ended
  BY ZenonT(30), <1>2 DEF SetTop, Becomes
<1>6. /\ IsSeq(r.stack) /\ Len(r.stack) = n /\ r.stack[n] = t
      /\ \A i \in 1..n : i # n => r.stack[i] = q.stack[i]
  <2>1. r.stack = Replaced(q.stack, n, t)
    BY ZenonT(30), <1>4 DEF Replaced
  <2>2. n \in 1..Len(q.stack)
    BY ZenonT(30), <1>3
  <2>. HIDE DEF n
  <2>3. IsReplaced(Replaced(q.stack, n, t), q.stack, n, t)
    BY ZenonT(30), <1>1, <2>2, ReplacedFacts
  <2>. QED
    BY ZenonT(30), <2>1, <2>3 DEF n, IsReplaced
<1>. HIDE DEF n
<1>7. IsClient(r)
  <2>1. \A i \in 1..n : IsTxn(r.stack[i])
    BY ZenonT(30), <1>1, <1>6 DEF IsClient, n
  <2>2. IsTxn(r.ended) /\ r.pk \in Nat
    BY ZenonT(30), <1>1, <1>4 DEF IsClient
  <2>3. r.stack # <<>>
    BY <1>1, <1>3, <1>6, NoElements
  <2>. QED
    BY ZenonT(30), <1>4, <1>6, <2>1, <2>2, <2>3 DEF IsClient
<1>8. \A i \in 0..(n - 1) : KeyOf(r, i) = KeyOf(q, i) /\ InsertsOf(r, i) = InsertsOf(q, i)
  BY <1>1, <1>4, <1>6 DEF KeyOf, InsertsOf, n
<1>9. KeyOf(r, n) = t.minPK /\ InsertsOf(r, n) = Keys("insert", t.ops)
  BY <1>1, <1>3, <1>6 DEF KeyOf, InsertsOf
<1>. QED
  BY ZenonT(30), <1>4, <1>6, <1>7, <1>8, <1>9 DEF n

LEMMA TopFacts ==
    ASSUME NotedInv, NEW c \in Clients, NEW q, q = client[c], q.stack # <<>>
    PROVE  /\ Len(q.stack) \in Nat /\ Len(q.stack) >= 1 /\ IsTxn(Top(c)) /\ IsSeq(Top(c).ops)
           /\ Top(c) = q.stack[Len(q.stack)]
           /\ KeyOf(q, Len(q.stack)) = Top(c).minPK
           /\ InsertsOf(q, Len(q.stack)) = Keys("insert", Top(c).ops)
<1>1. IsClient(q) /\ Len(q.stack) \in Nat /\ IsSeq(q.stack)
  BY ZenonT(30), ClientFacts
<1>2. Len(q.stack) >= 1
  BY <1>1, SeqFacts
<1>3. Top(c) = q.stack[Len(q.stack)]
  BY ZenonT(30) DEF Top, Innermost
<1>4. IsTxn(Top(c))
  BY <1>1, <1>2, <1>3 DEF IsClient
<1>. QED
  BY <1>1, <1>2, <1>3, <1>4 DEF KeyOf, InsertsOf, IsTxn

\* The top changes and keeps its least key and its inserts.
LEMMA SameTop ==
    ASSUME NotedInv, NEW c \in Clients, client[c].stack # <<>>, client[c].pc \in {"idle", "delete"},
           NEW t, IsTxn(t), NEW pc \in {"idle", "trim", "delete", "abort"}, client' = SetTop(c, t, pc),
           t.minPK = Top(c).minPK, Keys("insert", t.ops) = Keys("insert", Top(c).ops),
           UNCHANGED <<nextPK, uncommittedMinPKs, committed, reader, dropped, verifyFailed>>
    PROVE  NotedInv'
<1>. DEFINE q == client[c]
            n == Len(q.stack)
            r == client'[c]
<1>1. /\ n \in Nat /\ n >= 1 /\ KeyOf(q, n) = Top(c).minPK
      /\ InsertsOf(q, n) = Keys("insert", Top(c).ops)
  BY ZenonT(30), TopFacts
<1>2. /\ Becomes(c, r) /\ IsClient(r) /\ Len(r.stack) = n /\ r.pc = pc
      /\ \A i \in 0..(n - 1) : KeyOf(r, i) = KeyOf(q, i) /\ InsertsOf(r, i) = InsertsOf(q, i)
      /\ KeyOf(r, n) = t.minPK /\ InsertsOf(r, n) = Keys("insert", t.ops)
  BY SetTopFacts
<1>3. \A i \in 0..n : i \in 0..(n - 1) \/ i = n
  BY <1>1
<1>4. \A i \in 0..n : KeyOf(r, i) = KeyOf(q, i) /\ InsertsOf(r, i) = InsertsOf(q, i)
  BY ZenonT(30), <1>1, <1>2, <1>3
<1>. QED
  BY ZenonT(30), <1>2, <1>4, SameLevels

LEMMA SamePC ==
    ASSUME NotedInv, NEW c \in Clients, client[c].pc \in {"trim", "delete", "forget"},
           NEW pc \in {"idle", "delete", "abort"}, client[c].pc = "forget" => pc = "idle",
           client' = [client EXCEPT ![c].pc = pc],
           UNCHANGED <<nextPK, uncommittedMinPKs, committed, reader, dropped, verifyFailed>>
    PROVE  NotedInv'
<1>. DEFINE q == client[c]
            r == client'[c]
<1>1. IsClient(q) /\ DOMAIN client = Clients /\ DOMAIN q = {"stack", "pc", "pk", "ended"}
  BY ZenonT(30) DEF NotedInv, ShapeInv, IsClient
<1>2. /\ Becomes(c, r) /\ DOMAIN r = {"stack", "pc", "pk", "ended"}
      /\ r.stack = q.stack /\ r.pc = pc /\ r.pk = q.pk /\ r.ended = q.ended
  BY ZenonT(30), <1>1 DEF Becomes
<1>3. Len(q.stack) \in Nat
  BY ZenonT(30), <1>1, KeyFacts
<1>. HIDE DEF q, r
<1>4. IsClient(r)
  BY ZenonT(30), <1>1, <1>2 DEF IsClient, q
<1>5. \A i \in 0..Len(q.stack) : KeyOf(r, i) = KeyOf(q, i) /\ InsertsOf(r, i) = InsertsOf(q, i)
  BY <1>2, <1>3 DEF KeyOf, InsertsOf
<1>. QED
  BY ZenonT(30), <1>2, <1>4, <1>5, SameLevels DEF q

LEMMA UpdateInv == ASSUME NotedInv, NEW c \in Clients, UpdateObject(c) PROVE NotedInv'
<1>1. /\ client[c].stack # <<>> /\ client[c].pc = "idle"
      /\ UNCHANGED <<nextPK, uncommittedMinPKs, committed, reader, dropped, verifyFailed>>
  BY ZenonT(30) DEF UpdateObject, Live, history
<1>2. PICK pk : client' = SetTop(c, [Top(c) EXCEPT !.ops = Append(@, <<"update", pk>>)], "idle")
  BY ZenonT(30) DEF UpdateObject
<1>. DEFINE t == [Top(c) EXCEPT !.ops = Append(@, <<"update", pk>>)]
<1>3. IsTxn(Top(c)) /\ IsSeq(Top(c).ops)
  BY ZenonT(30), <1>1, TopFacts
<1>4. /\ DOMAIN t = {"ops", "minPK", "n", "size"} /\ t.minPK = Top(c).minPK /\ t.minPK \in Nat
      /\ t.ops = Logged(Top(c).ops, "update", pk)
  BY ZenonT(30), <1>3 DEF IsTxn, Logged
<1>5. client' = SetTop(c, t, "idle")
  BY ZenonT(30), <1>2
<1>. HIDE DEF t
<1>6. IsSeq(t.ops) /\ Keys("insert", t.ops) = Keys("insert", Top(c).ops)
  BY <1>3, <1>4, LoggedFacts
<1>7. IsTxn(t)
  BY ZenonT(30), <1>4, <1>6 DEF IsTxn
<1>. QED
  BY ZenonT(30), <1>1, <1>4, <1>5, <1>6, <1>7, SameTop

LEMMA CheckGorgedInv ==
    ASSUME NotedInv, NEW c \in Clients, CheckGorged(c) \/ NoteAbortForgets(c) PROVE NotedInv'
<1>1. UNCHANGED <<nextPK, uncommittedMinPKs, committed, reader, dropped, verifyFailed>>
  BY ZenonT(30) DEF CheckGorged, NoteAbortForgets, collVars, history
<1>2. \E pc \in {"idle", "delete", "abort"} :
         /\ client[c].pc \in {"trim", "delete", "forget"} /\ (client[c].pc = "forget" => pc = "idle")
         /\ client' = [client EXCEPT ![c].pc = pc]
  BY ZenonT(30) DEF CheckGorged, NoteAbortForgets
<1>. QED
  BY ZenonT(30), <1>1, <1>2, SamePC

\* A document is counted as deleted, and its delete may be logged.
LEMMA DeletedFacts ==
    ASSUME NEW t, IsTxn(t), NEW pk
    PROVE  LET d == Deleted(t, pk)
               l == [d EXCEPT !.ops = Append(@, <<"delete", pk, SizeOf(pk)>>)]
           IN  /\ IsTxn(d) /\ d.minPK = t.minPK /\ Keys("insert", d.ops) = Keys("insert", t.ops)
               /\ IsTxn(l) /\ l.minPK = t.minPK /\ Keys("insert", l.ops) = Keys("insert", t.ops)
<1>. DEFINE d == Deleted(t, pk)
            l == [d EXCEPT !.ops = Append(@, <<"delete", pk, SizeOf(pk)>>)]
<1>1. DOMAIN d = {"ops", "minPK", "n", "size"} /\ d.minPK = t.minPK /\ d.ops = t.ops
  BY ZenonT(30) DEF IsTxn, Deleted
<1>. HIDE DEF d
<1>2. /\ DOMAIN l = {"ops", "minPK", "n", "size"} /\ l.minPK = t.minPK
      /\ l.ops = Append(t.ops, <<"delete", pk, SizeOf(pk)>>)
  BY ZenonT(30), <1>1
<1>. HIDE DEF l
<1>3. IsSeq(l.ops) /\ Keys("insert", l.ops) = Keys("insert", t.ops)
  BY ZenonT(30), <1>2, DeleteFacts DEF IsTxn
<1>4. IsTxn(d) /\ IsTxn(l)
  BY ZenonT(30), <1>1, <1>2, <1>3 DEF IsTxn
<1>. QED
  BY ZenonT(30), <1>1, <1>2, <1>3, <1>4 DEF d, l

LEMMA TrimInv == ASSUME NotedInv, NEW c \in Clients, Trim(c) PROVE NotedInv'
<1>1. client[c].pc = "delete"
  BY ZenonT(30) DEF Trim
<1>2. UNCHANGED <<nextPK, uncommittedMinPKs, committed, reader, dropped, verifyFailed>>
  BY ZenonT(30) DEF Trim, collVars
<1>3. client[c].stack # <<>>
  BY ZenonT(30), <1>1 DEF NotedInv, ShapeInv, IsClient
<1>. DEFINE Logged3(pk) == [Deleted(Top(c), pk) EXCEPT !.ops = Append(@, <<"delete", pk, SizeOf(pk)>>)]
<1>4. \/ \E pc \in {"idle", "abort"} : client' = [client EXCEPT ![c].pc = pc]
      \/ \E pk : client' = SetTop(c, Deleted(Top(c), pk), "abort")
      \/ \E pk : \E pc \in {"idle", "delete"} : client' = SetTop(c, Logged3(pk), pc)
  <2>1. \/ client' = [client EXCEPT ![c].pc = "idle"]
        \/ \E pk : TrimThrows(c, pk) \/ TrimDeletes(c, pk)
    BY ZenonT(30) DEF Trim
  <2>2. ASSUME NEW pk, TrimThrows(c, pk)
        PROVE  \/ client' = [client EXCEPT ![c].pc = "abort"]
               \/ client' = SetTop(c, Deleted(Top(c), pk), "abort")
    BY ZenonT(30), <2>2 DEF TrimThrows
  <2>3. ASSUME NEW pk, TrimDeletes(c, pk)
        PROVE  \E pc \in {"idle", "delete"} : client' = SetTop(c, Logged3(pk), pc)
    BY ZenonT(30), <2>3 DEF TrimDeletes
  <2>. HIDE DEF Logged3
  <2>. QED
    BY ZenonT(30), <2>1, <2>2, <2>3
<1>5. ASSUME NEW pc \in {"idle", "abort"}, client' = [client EXCEPT ![c].pc = pc] PROVE NotedInv'
  BY ZenonT(30), <1>1, <1>2, <1>5, SamePC
<1>6. IsTxn(Top(c))
  BY ZenonT(30), <1>3, TopFacts
<1>7. ASSUME NEW pk, client' = SetTop(c, Deleted(Top(c), pk), "abort") PROVE NotedInv'
  <2>. DEFINE t == Deleted(Top(c), pk)
  <2>1. IsTxn(t) /\ t.minPK = Top(c).minPK /\ Keys("insert", t.ops) = Keys("insert", Top(c).ops)
    BY ZenonT(30), <1>6, DeletedFacts
  <2>2. client' = SetTop(c, t, "abort")
    BY ZenonT(30), <1>7
  <2>. HIDE DEF t
  <2>. QED
    BY ZenonT(30), <1>1, <1>2, <1>3, <2>1, <2>2, SameTop
<1>8. ASSUME NEW pk, NEW pc \in {"idle", "delete"}, client' = SetTop(c, Logged3(pk), pc) PROVE NotedInv'
  <2>. DEFINE t == Logged3(pk)
  <2>1. IsTxn(t) /\ t.minPK = Top(c).minPK /\ Keys("insert", t.ops) = Keys("insert", Top(c).ops)
    BY ZenonT(30), <1>6, DeletedFacts
  <2>2. client' = SetTop(c, t, pc)
    BY ZenonT(30), <1>8
  <2>. HIDE DEF t
  <2>. QED
    BY ZenonT(30), <1>1, <1>2, <1>3, <2>1, <2>2, SameTop
<1>. HIDE DEF Logged3
<1>. QED
  BY ZenonT(30), <1>4, <1>5, <1>7, <1>8

LEMMA GetNextPKInv == ASSUME NotedInv, NEW c \in Clients, GetNextPK(c) PROVE NotedInv'
<1>. DEFINE q == client[c]
            n == Len(q.stack)
            r == client'[c]
<1>0. /\ q.pc = "idle" /\ q.stack # <<>> /\ nextPK' = nextPK + 1
      /\ UNCHANGED <<committed, reader, dropped, verifyFailed>>
  BY ZenonT(30) DEF GetNextPK, Live, history
<1>1. /\ IsClient(q) /\ ClientInv(q, nextPK, uncommittedMinPKs) /\ nextPK \in Nat /\ nextPK > 0
      /\ n \in Nat /\ IsSeq(q.stack) /\ \A i \in Slots(q) : KeyOf(q, i) \in Nat
      /\ \A i, j \in Slots(q) : KeyOf(q, i) # NoPK /\ KeyOf(q, i) = KeyOf(q, j) => i = j
  BY ZenonT(30), ClientFacts
<1>2. KeyOf(q, n) = Top(c).minPK /\ n >= 1
  BY ZenonT(30), <1>0, TopFacts
<1>3. DOMAIN client = Clients /\ DOMAIN q = {"stack", "pc", "pk", "ended"}
  BY ZenonT(30), <1>1 DEF NotedInv, ShapeInv, IsClient
<1>4. /\ Becomes(c, r) /\ DOMAIN r = {"stack", "pc", "pk", "ended"}
      /\ r.stack = q.stack /\ r.pc = "insert" /\ r.pk = nextPK /\ r.ended = q.ended
  BY ZenonT(30), <1>3 DEF GetNextPK, Becomes
<1>5. uncommittedMinPKs' = IF KeyOf(q, n) = NoPK THEN uncommittedMinPKs \union {nextPK}
                                                  ELSE uncommittedMinPKs
  BY ZenonT(30), <1>2 DEF GetNextPK
<1>. HIDE DEF q, r
<1>6. IsClient(r)
  BY ZenonT(30), <1>0, <1>1, <1>4 DEF IsClient
<1>7. /\ Slots(q) = 0..(n + 1) /\ Slots(r) = 0..(n + 1) /\ Len(r.stack) = n
      /\ \A i \in 0..n : KeyOf(r, i) = KeyOf(q, i) /\ InsertsOf(r, i) = InsertsOf(q, i)
      /\ KeyOf(r, n + 1) = nextPK /\ KeyOf(q, n + 1) = NoPK
  BY <1>0, <1>1, <1>4 DEF KeyOf, InsertsOf, Slots
<1>. HIDE DEF n
<1>8. \A i \in Slots(r) : (i \in 0..n /\ KeyOf(r, i) = KeyOf(q, i)) \/ (i = n + 1 /\ KeyOf(r, i) = nextPK)
  BY <1>1, <1>7
<1>9. \A i \in 0..n : i \in Slots(q) /\ KeyOf(q, i) < nextPK
  BY <1>1, <1>7 DEF ClientInv
<1>10. ClientInv(r, nextPK', uncommittedMinPKs')
  <2>1. \A i \in Slots(r) : KeyOf(r, i) < nextPK'
    BY <1>0, <1>1, <1>8, <1>9
  <2>2. \A i, j \in Slots(r) :
           0 < i /\ i < j /\ KeyOf(r, i) # NoPK /\ KeyOf(r, j) # NoPK => KeyOf(r, i) < KeyOf(r, j)
    <3>. TAKE i, j \in Slots(r)
    <3>1. CASE j \in 0..n
      BY <1>1, <1>7, <1>9, <3>1 DEF ClientInv
    <3>2. CASE j = n + 1
      BY <1>1, <1>7, <1>8, <1>9, <3>2
    <3>. QED
      BY ZenonT(30), <1>8, <3>1, <3>2
  <2>3. \A i \in 0..Len(r.stack) :
           /\ KeyOf(r, i) # NoPK => KeyOf(r, i) \in uncommittedMinPKs'
           /\ \A k \in InsertsOf(r, i) : k \in Nat /\ k < nextPK' /\ KeyOf(r, i) # NoPK /\ KeyOf(r, i) <= k
    BY <1>0, <1>1, <1>5, <1>7 DEF ClientInv, n
  <2>4. r.pk # NoPK /\ (KeyOf(r, Len(r.stack)) = NoPK <=> r.pk \in uncommittedMinPKs')
    <3>1. nextPK \notin uncommittedMinPKs
      BY <1>1 DEF NotedInv, KeysInv
    <3>. QED
      BY <1>1, <1>2, <1>4, <1>5, <1>7, <3>1 DEF NoPK
  <2>5. KeyOf(r, 0) = NoPK
    BY <1>0, <1>1, <1>7 DEF ClientInv
  <2>. QED
    BY ZenonT(30), <2>1, <2>2, <2>3, <2>4, <2>5 DEF ClientInv
<1>11. /\ \A k \in Held(r) : k \in Held(q) \/ k >= nextPK
       /\ Held(q) \subseteq Held(r) /\ nextPK \in Held(r)
  BY <1>1, <1>7, <1>8, <1>9 DEF Held, NoPK
<1>12. \A i, j \in Slots(r) : KeyOf(r, i) # NoPK /\ KeyOf(r, i) = KeyOf(r, j) => i = j
  BY <1>1, <1>8, <1>9
<1>13. /\ nextPK' \in Nat /\ nextPK <= nextPK' /\ uncommittedMinPKs' \in SUBSET (Nat \ {0})
       /\ ~ verifyFailed'
  <2>1. uncommittedMinPKs \in SUBSET (Nat \ {0}) /\ ~ verifyFailed
    BY ZenonT(30) DEF NotedInv, ShapeInv, KeysInv
  <2>2. nextPK' \in Nat /\ nextPK <= nextPK' /\ nextPK \in Nat \ {0}
    BY <1>0, <1>1
  <2>. QED
    BY ZenonT(30), <1>0, <1>5, <2>1, <2>2
<1>14. ShapeInv' /\ KeysInv'
  <2>1. ShapeInv /\ KeysInv
    BY ZenonT(30) DEF NotedInv
  <2>2. /\ \A k \in Held(r) : k \in Held(client[c]) \/ k >= nextPK
        /\ \A u \in uncommittedMinPKs \ uncommittedMinPKs' : u \in Held(client[c])
        /\ \A u \in uncommittedMinPKs' \ uncommittedMinPKs : u \in Held(r)
        /\ \A u \in uncommittedMinPKs' : u \in Held(client[c]) => u \in Held(r) \/ u \in dropped'
        /\ dropped \subseteq dropped'
    BY ZenonT(30), <1>0, <1>5, <1>11 DEF q
  <2>. QED
    BY ZenonT(30), <1>4, <1>6, <1>10, <1>12, <1>13, <2>1, <2>2, ClientStep
<1>15. CursorInv'
  <2>1. \A u \in uncommittedMinPKs' : u \in uncommittedMinPKs \/ u = nextPK
    BY ZenonT(30), <1>5
  <2>. QED
    BY ZenonT(30), <1>0, <1>13, <2>1, CursorStays
<1>. QED
  BY ZenonT(30), <1>14, <1>15 DEF NotedInv

\* The insert under way becomes one of the top level's.
LEMMA CheckUniqueAndInsertInv ==
    ASSUME NotedInv, NEW c \in Clients, CheckUniqueAndInsert(c) PROVE NotedInv'
<1>. DEFINE q == client[c]
            r == client'[c]
            n == Len(q.stack)
            noted == [Top(c) EXCEPT !.minPK = IF @ = NoPK THEN q.pk ELSE @, !.n = @ + 1, !.size = @ + 2]
            done == [noted EXCEPT !.ops = Append(@, <<"insert", q.pk>>)]
<1>0. /\ q.pc = "insert"
      /\ UNCHANGED <<nextPK, uncommittedMinPKs, committed, reader, dropped, verifyFailed>>
  BY ZenonT(30) DEF CheckUniqueAndInsert, history
<1>1. /\ IsClient(q) /\ ClientInv(q, nextPK, uncommittedMinPKs) /\ nextPK \in Nat /\ nextPK > 0
      /\ n \in Nat /\ IsSeq(q.stack) /\ \A i \in Slots(q) : KeyOf(q, i) \in Nat
      /\ \A i, j \in Slots(q) : KeyOf(q, i) # NoPK /\ KeyOf(q, i) = KeyOf(q, j) => i = j
  BY ZenonT(30), ClientFacts
<1>2. q.stack # <<>> /\ q.pk \in Nat
  BY ZenonT(30), <1>0, <1>1 DEF IsClient
<1>3. /\ n >= 1 /\ IsTxn(Top(c)) /\ IsSeq(Top(c).ops) /\ KeyOf(q, n) = Top(c).minPK
      /\ InsertsOf(q, n) = Keys("insert", Top(c).ops)
  BY ZenonT(30), <1>2, TopFacts
<1>4. PICK t, pc : /\ pc \in {"trim", "abort"} /\ client' = SetTop(c, t, pc)
                   /\ t = noted \/ t = done
  BY ZenonT(30) DEF CheckUniqueAndInsert
<1>5. /\ DOMAIN t = {"ops", "minPK", "n", "size"}
      /\ t.minPK = IF Top(c).minPK = NoPK THEN q.pk ELSE Top(c).minPK
      /\ t.ops = Top(c).ops \/ t.ops = Logged(Top(c).ops, "insert", q.pk)
  BY ZenonT(30), <1>3, <1>4 DEF IsTxn, Logged
<1>. HIDE DEF noted, done
<1>6. /\ IsSeq(t.ops)
      /\ \A k \in Keys("insert", t.ops) : k \in InsertsOf(q, n) \/ k = q.pk
  BY <1>3, <1>5, LoggedFacts
<1>7. IsTxn(t)
  BY ZenonT(30), <1>2, <1>3, <1>5, <1>6 DEF IsTxn
<1>8. /\ Becomes(c, r) /\ IsClient(r) /\ Len(r.stack) = n /\ r.pc = pc
      /\ \A i \in 0..(n - 1) : KeyOf(r, i) = KeyOf(q, i) /\ InsertsOf(r, i) = InsertsOf(q, i)
      /\ KeyOf(r, n) = t.minPK /\ InsertsOf(r, n) = Keys("insert", t.ops)
  BY <1>2, <1>4, <1>7, SetTopFacts
<1>. HIDE DEF r
<1>9. /\ KeyOf(r, n) = IF KeyOf(q, n) = NoPK THEN q.pk ELSE KeyOf(q, n)
      /\ KeyOf(q, n + 1) = q.pk /\ KeyOf(r, n + 1) = NoPK
      /\ Slots(q) = 0..(n + 1) /\ Slots(r) = 0..(n + 1)
  BY ZenonT(30), <1>0, <1>1, <1>3, <1>4, <1>5, <1>8, KeyFacts DEF Slots
<1>. HIDE DEF n, q
<1>10. \A i \in Slots(r) : i \in 0..(n - 1) \/ i = n \/ i = n + 1
  BY ZenonT(30), <1>1, <1>3, <1>9, SlotFacts
<1>11. /\ \A i \in 0..(n - 1) : i \in Slots(q) /\ i # n + 1
       /\ n \in Slots(q) /\ n + 1 \in Slots(q) /\ n # n + 1 /\ NoPK < nextPK
  <2>1. nextPK \in Nat /\ nextPK > 0
    BY ZenonT(30), <1>1
  <2>2. NoPK < nextPK
    BY <2>1 DEF NoPK
  <2>. QED
    BY ZenonT(30), <1>1, <1>3, <1>9, <2>2, SlotFacts
<1>12. ClientInv(r, nextPK, uncommittedMinPKs)
  <2>1. \A i \in Slots(r) : KeyOf(r, i) < nextPK
    BY ZenonT(30), <1>1, <1>8, <1>9, <1>10, <1>11 DEF ClientInv
  <2>2. \A i, j \in Slots(r) :
           0 < i /\ i < j /\ KeyOf(r, i) # NoPK /\ KeyOf(r, j) # NoPK => KeyOf(r, i) < KeyOf(r, j)
    <3>. SUFFICES ASSUME NEW i \in Slots(r), NEW j \in Slots(r),
                         0 < i, i < j, KeyOf(r, i) # NoPK, KeyOf(r, j) # NoPK
                  PROVE  KeyOf(r, i) < KeyOf(r, j)
      BY ZenonT(30)
    <3>1. n \in Nat /\ i \in 0..(n + 1) /\ (j \in 0..(n - 1) \/ j = n)
      BY ZenonT(30), <1>1, <1>9, <1>10
    <3>2. i \in 0..(n - 1) /\ i < n + 1
      BY <3>1
    <3>3. KeyOf(r, i) = KeyOf(q, i)
      BY ZenonT(30), <1>8, <3>2
    <3>4. j \in Slots(q) /\ (KeyOf(r, j) = KeyOf(q, j) \/ KeyOf(r, j) = KeyOf(q, n + 1))
      BY ZenonT(30), <1>8, <1>9, <1>11, <3>1
    <3>. QED
      BY ZenonT(30), <1>1, <1>11, <3>2, <3>3, <3>4, KeysGrow
  <2>3. ASSUME NEW i \in 0..Len(r.stack)
        PROVE  /\ KeyOf(r, i) # NoPK => KeyOf(r, i) \in uncommittedMinPKs
               /\ \A k \in InsertsOf(r, i) : k \in Nat /\ k < nextPK /\ KeyOf(r, i) # NoPK /\ KeyOf(r, i) <= k
    <3>1. CASE i \in 0..(n - 1)
      BY ZenonT(30), <1>1, <1>3, <1>8, <3>1 DEF ClientInv, n
    <3>2. CASE i = n
      <4>0. n \in Slots(q) /\ n + 1 \in Slots(q) /\ q.pk # NoPK /\ q.pk < nextPK /\ q.pk \in Nat
        BY ZenonT(30), <1>0, <1>1, <1>2, <1>9, <1>11 DEF ClientInv
      <4>1. KeyOf(r, i) # NoPK /\ KeyOf(r, i) \in uncommittedMinPKs
        BY <1>0, <1>1, <1>9, <3>2, <4>0 DEF ClientInv, n
      <4>2. KeyOf(r, i) <= q.pk
        BY <1>1, <1>3, <1>9, <3>2, <4>0 DEF ClientInv
      <4>3. \A k \in InsertsOf(q, n) : k \in Nat /\ k < nextPK /\ KeyOf(q, n) # NoPK /\ KeyOf(q, n) <= k
        BY <1>1 DEF ClientInv, n
      <4>. QED
        BY ZenonT(30), <1>6, <1>8, <1>9, <3>2, <4>0, <4>1, <4>2, <4>3
    <3>. QED
      BY ZenonT(30), <1>1, <1>3, <1>8, <3>1, <3>2, SlotFacts
  <2>4. KeyOf(r, 0) = NoPK /\ r.pc # "insert"
    <3>1. KeyOf(q, 0) = NoPK
      BY ZenonT(30), <1>0, <1>1 DEF ClientInv
    <3>2. 0 \in 0..(n - 1)
      BY <1>1, <1>3
    <3>3. KeyOf(r, 0) = KeyOf(q, 0) /\ r.pc \in {"trim", "abort"}
      BY ZenonT(30), <1>4, <1>8, <3>2
    <3>. QED
      BY ZenonT(30), <3>1, <3>3
  <2>. QED
    BY ZenonT(30), <2>1, <2>2, <2>3, <2>4 DEF ClientInv
<1>13. Held(r) \subseteq Held(q)
  BY ZenonT(30), <1>8, <1>9, <1>10, <1>11 DEF Held
<1>14. \A k \in Held(q) : k \in Held(r) \/ k \notin uncommittedMinPKs
  <2>. SUFFICES ASSUME NEW i \in Slots(q), KeyOf(q, i) # NoPK
                PROVE  KeyOf(q, i) \in Held(r) \/ KeyOf(q, i) \notin uncommittedMinPKs
    BY ZenonT(30) DEF Held
  <2>1. KeyOf(q, n) = NoPK <=> q.pk \in uncommittedMinPKs
    BY ZenonT(30), <1>0, <1>1 DEF ClientInv, n
  <2>2. i \in 0..(n - 1) \/ i = n \/ i = n + 1
    BY <1>1, <1>9
  <2>3. \A j \in Slots(r) : KeyOf(r, j) # NoPK => KeyOf(r, j) \in Held(r)
    BY ZenonT(30) DEF Held
  <2>4. i \in Slots(r) /\ n \in Slots(r)
    BY <1>1, <1>9
  <2>5. CASE i \in 0..(n - 1)
    BY ZenonT(30), <1>8, <2>3, <2>4, <2>5
  <2>6. CASE i = n
    BY ZenonT(30), <1>9, <2>3, <2>4, <2>6
  <2>7. CASE i = n + 1
    BY ZenonT(30), <1>9, <2>1, <2>3, <2>4, <2>7
  <2>. QED
    BY ZenonT(30), <2>2, <2>5, <2>6, <2>7
<1>15. \A i, j \in Slots(r) : KeyOf(r, i) # NoPK /\ KeyOf(r, i) = KeyOf(r, j) => i = j
  <2>1. \A i \in Slots(r) : KeyOf(r, i) # NoPK =>
           \/ i \in Slots(q) /\ i # n + 1 /\ KeyOf(r, i) = KeyOf(q, i)
           \/ i = n /\ KeyOf(r, i) = KeyOf(q, n + 1)
    BY ZenonT(30), <1>8, <1>9, <1>10, <1>11
  <2>. QED
    BY ZenonT(30), <1>1, <1>11, <2>1
<1>. QED
  BY ZenonT(30), <1>0, <1>8, <1>12, <1>13, <1>14, <1>15, SameKeys DEF q

LEMMA TransferFacts ==
    ASSUME NEW child, NEW parent, IsTxn(child), IsTxn(parent)
    PROVE  /\ IsTxn(Transfer(child, parent))
           /\ Transfer(child, parent).minPK = IF parent.minPK = NoPK THEN child.minPK ELSE parent.minPK
           /\ Keys("insert", Transfer(child, parent).ops)
                 = Keys("insert", parent.ops) \union Keys("insert", child.ops)
<1>. DEFINE t == Transfer(child, parent)
<1>1. /\ DOMAIN t = {"ops", "minPK", "n", "size"} /\ t.ops = parent.ops \o child.ops
      /\ t.minPK = IF parent.minPK = NoPK THEN child.minPK ELSE parent.minPK
  BY ZenonT(30) DEF Transfer
<1>2. IsSeq(parent.ops) /\ IsSeq(child.ops) /\ parent.minPK \in Nat /\ child.minPK \in Nat
  BY ZenonT(30) DEF IsTxn
<1>. HIDE DEF t
<1>3. IsSeq(t.ops) /\ Range(t.ops) = Range(parent.ops) \union Range(child.ops)
  BY ZenonT(30), <1>1, <1>2, ConcatFacts
<1>4. Keys("insert", t.ops) = Keys("insert", parent.ops) \union Keys("insert", child.ops)
  BY ZenonT(30), <1>3, KeysFacts
<1>5. IsTxn(t)
  BY ZenonT(30), <1>1, <1>2, <1>3 DEF IsTxn
<1>. QED
  BY ZenonT(30), <1>1, <1>4, <1>5 DEF t

\* The parent takes over the key of the child if it has none of its own; if it
\* has one, that of the child is dropped.
LEMMA CommitChildInv == ASSUME NotedInv, NEW c \in Clients, CommitChild(c) PROVE NotedInv'
<1>. DEFINE q == client[c]
            r == client'[c]
            n == Len(q.stack)
            parents == Below(q.stack)
            parent == q.stack[n - 1]
<1>0. /\ q.pc = "idle" /\ n > 1
      /\ UNCHANGED <<nextPK, uncommittedMinPKs, committed, reader, verifyFailed>>
  BY ZenonT(30) DEF CommitChild, collVars
<1>1. /\ IsClient(q) /\ ClientInv(q, nextPK, uncommittedMinPKs) /\ nextPK \in Nat /\ nextPK > 0
      /\ n \in Nat /\ IsSeq(q.stack) /\ \A i \in Slots(q) : KeyOf(q, i) \in Nat
      /\ \A i, j \in Slots(q) : KeyOf(q, i) # NoPK /\ KeyOf(q, i) = KeyOf(q, j) => i = j
  BY ZenonT(30), ClientFacts
<1>2. q.stack # <<>>
  <2>1. n \in Nat /\ n > 1 /\ IsSeq(q.stack)
    BY ZenonT(30), <1>0, <1>1
  <2>2. n # 0
    <3>. HIDE DEF n
    <3>. QED
      BY <2>1
  <2>. QED
    BY ZenonT(30), <2>1, <2>2, SeqFacts
<1>3. /\ IsTxn(Top(c)) /\ KeyOf(q, n) = Top(c).minPK /\ InsertsOf(q, n) = Keys("insert", Top(c).ops)
  BY ZenonT(30), <1>2, TopFacts
<1>4. /\ IsSeq(parents) /\ Len(parents) = n - 1
      /\ \A i \in 1..(n - 1) : parents[i] = q.stack[i]
  BY ZenonT(30), <1>1, <1>2, BelowFacts
<1>5. n - 1 \in 1..(n - 1) /\ n - 1 \in 1..n
  BY <1>0, <1>1
<1>6. /\ parents[n - 1] = parent /\ Innermost(parents) = parent /\ IsTxn(parent)
      /\ KeyOf(q, n - 1) = parent.minPK /\ InsertsOf(q, n - 1) = Keys("insert", parent.ops)
  <2>1. parents[n - 1] = parent /\ Innermost(parents) = parent
    BY ZenonT(30), <1>4, <1>5 DEF Innermost
  <2>2. IsTxn(parent)
    BY ZenonT(30), <1>1, <1>5 DEF IsClient
  <2>3. n - 1 # 0 /\ n - 1 <= n
    <3>1. n \in Nat /\ n > 1
      BY ZenonT(30), <1>0, <1>1
    <3>. HIDE DEF n
    <3>. QED
      BY <3>1
  <2>4. KeyOf(q, n - 1) = parent.minPK /\ InsertsOf(q, n - 1) = Keys("insert", parent.ops)
    BY ZenonT(30), <2>3 DEF KeyOf, InsertsOf
  <2>. QED
    BY ZenonT(30), <2>1, <2>2, <2>4
<1>7. DOMAIN client = Clients /\ DOMAIN q = {"stack", "pc", "pk", "ended"}
  BY ZenonT(30), <1>1 DEF NotedInv, ShapeInv, IsClient
<1>8. /\ client' = [client EXCEPT ![c].stack = [parents EXCEPT ![Len(parents)] = Transfer(Top(c), @)]]
      /\ dropped' = dropped \union Dropped(Top(c), Innermost(parents))
  BY ZenonT(30) DEF CommitChild
<1>. HIDE DEF parents
<1>9. /\ Becomes(c, r) /\ DOMAIN r = {"stack", "pc", "pk", "ended"} /\ r.pc = "idle"
      /\ r.pk = q.pk /\ r.ended = q.ended
      /\ r.stack = Replaced(parents, n - 1, Transfer(Top(c), parent))
  BY ZenonT(30), <1>0, <1>4, <1>6, <1>7, <1>8 DEF Becomes, Replaced
<1>. HIDE DEF q, r, n, parent
<1>10. /\ IsSeq(r.stack) /\ Len(r.stack) = n - 1 /\ r.stack[n - 1] = Transfer(Top(c), parent)
       /\ \A i \in 1..(n - 1) : i # n - 1 => r.stack[i] = q.stack[i]
  <2>. DEFINE s == Replaced(parents, n - 1, Transfer(Top(c), parent))
  <2>1. IsSeq(parents) /\ n - 1 \in 1..Len(parents)
    BY ZenonT(30), <1>4, <1>5
  <2>2. /\ IsSeq(s) /\ Len(s) = Len(parents) /\ s[n - 1] = Transfer(Top(c), parent)
        /\ \A i \in 1..Len(parents) : i # n - 1 => s[i] = parents[i]
    <3>. DEFINE m == n - 1
                x == Transfer(Top(c), parent)
    <3>1. IsSeq(parents) /\ m \in 1..Len(parents)
      BY ZenonT(30), <2>1
    <3>. HIDE DEF m, x
    <3>2. IsReplaced(Replaced(parents, m, x), parents, m, x)
      BY ZenonT(30), <3>1, ReplacedFacts
    <3>. QED
      BY ZenonT(30), <3>2 DEF m, x, IsReplaced
  <2>. QED
    BY ZenonT(30), <1>4, <1>9, <2>2
<1>11. /\ IsTxn(r.stack[n - 1])
       /\ r.stack[n - 1].minPK = IF KeyOf(q, n - 1) = NoPK THEN KeyOf(q, n) ELSE KeyOf(q, n - 1)
       /\ Keys("insert", r.stack[n - 1].ops) = InsertsOf(q, n - 1) \union InsertsOf(q, n)
  <2>1. /\ IsTxn(Transfer(Top(c), parent))
        /\ Transfer(Top(c), parent).minPK = IF parent.minPK = NoPK THEN Top(c).minPK ELSE parent.minPK
        /\ Keys("insert", Transfer(Top(c), parent).ops)
              = Keys("insert", parent.ops) \union Keys("insert", Top(c).ops)
    BY ZenonT(30), <1>3, <1>6, TransferFacts
  <2>. QED
    BY ZenonT(30), <1>3, <1>6, <1>10, <2>1
<1>12. IsClient(r)
  <2>1. \A i \in 1..(n - 1) : IsTxn(r.stack[i])
    <3>1. n \in Nat
      BY ZenonT(30), <1>1
    <3>2. \A i \in 1..(n - 1) : i \in 1..n
      BY <3>1
    <3>. QED
      BY ZenonT(30), <1>1, <1>10, <1>11, <3>2 DEF IsClient, n
  <2>. QED
    BY ZenonT(30), <1>1, <1>9, <1>10, <2>1 DEF IsClient
<1>13. /\ Slots(q) = 0..(n + 1) /\ Slots(r) = 0..n /\ KeyOf(r, n) = NoPK /\ KeyOf(q, n + 1) = NoPK
       /\ KeyOf(r, n - 1) = (IF KeyOf(q, n - 1) = NoPK THEN KeyOf(q, n) ELSE KeyOf(q, n - 1))
       /\ InsertsOf(r, n - 1) = InsertsOf(q, n - 1) \union InsertsOf(q, n)
       /\ \A i \in 0..(n - 2) : KeyOf(r, i) = KeyOf(q, i) /\ InsertsOf(r, i) = InsertsOf(q, i)
  <2>1. KeyOf(r, n) = NoPK /\ KeyOf(q, n + 1) = NoPK
    <3>1. n \in Nat /\ Len(r.stack) = n - 1
      BY ZenonT(30), <1>1, <1>10
    <3>2. Len(r.stack) + 1 = n
      BY <3>1
    <3>. QED
      BY ZenonT(30), <1>0, <1>1, <1>9, <1>12, <3>2, KeyFacts DEF n
  <2>2. /\ KeyOf(r, n - 1) = r.stack[n - 1].minPK
        /\ InsertsOf(r, n - 1) = Keys("insert", r.stack[n - 1].ops)
    <3>1. Len(r.stack) \in Nat
      BY ZenonT(30), <1>12, KeyFacts
    <3>. QED
      BY ZenonT(30), <1>5, <1>10, <3>1, LevelFacts
  <2>3. \A i \in 0..(n - 2) : KeyOf(r, i) = KeyOf(q, i) /\ InsertsOf(r, i) = InsertsOf(q, i)
    <3>. SUFFICES ASSUME NEW i \in 0..(n - 2)
                  PROVE  KeyOf(r, i) = KeyOf(q, i) /\ InsertsOf(r, i) = InsertsOf(q, i)
      BY ZenonT(30)
    <3>1. CASE i = 0
      BY ZenonT(30), <1>9, <3>1 DEF KeyOf, InsertsOf
    <3>2. CASE i # 0
      <4>1. i \in 1..(n - 1) /\ i # n - 1 /\ i <= n /\ i <= n - 1
        BY <1>1, <3>2
      <4>2. r.stack[i] = q.stack[i] /\ Len(r.stack) = n - 1 /\ Len(q.stack) = n
        BY ZenonT(30), <1>10, <4>1 DEF n
      <4>. QED
        BY ZenonT(30), <3>2, <4>1, <4>2 DEF KeyOf, InsertsOf
    <3>. QED
      BY ZenonT(30), <3>1, <3>2
  <2>4. Slots(q) = 0..(n + 1) /\ Slots(r) = 0..n
    BY <1>1, <1>10 DEF Slots, n
  <2>. QED
    BY ZenonT(30), <1>11, <2>1, <2>2, <2>3, <2>4
<1>14. \A i \in Slots(r) : i \in 0..(n - 2) \/ i = n - 1 \/ i = n
  <2>1. n \in Nat /\ n > 1 /\ Slots(r) = 0..n
    BY ZenonT(30), <1>0, <1>1, <1>13
  <2>. QED
    BY <2>1
<1>15. ClientInv(r, nextPK, uncommittedMinPKs)
  <2>1. \A i \in Slots(r) : KeyOf(r, i) < nextPK
    BY <1>0, <1>1, <1>13, <1>14 DEF ClientInv, NoPK
  <2>2. \A i, j \in Slots(r) :
           0 < i /\ i < j /\ KeyOf(r, i) # NoPK /\ KeyOf(r, j) # NoPK => KeyOf(r, i) < KeyOf(r, j)
    <3>. SUFFICES ASSUME NEW i \in Slots(r), NEW j \in Slots(r),
                         0 < i, i < j, KeyOf(r, i) # NoPK, KeyOf(r, j) # NoPK
                  PROVE  KeyOf(r, i) < KeyOf(r, j)
      BY ZenonT(30)
    <3>1. j # n
      BY ZenonT(30), <1>13
    <3>2. i \in 0..(n - 2) /\ i \in Slots(q) /\ j \in Slots(q) /\ i < n /\ n \in Slots(q)
      BY <1>0, <1>1, <1>13, <3>1
    <3>3. KeyOf(r, i) = KeyOf(q, i)
      BY ZenonT(30), <1>13, <3>2
    <3>4. KeyOf(r, j) = KeyOf(q, j) \/ KeyOf(r, j) = KeyOf(q, n)
      BY ZenonT(30), <1>13, <1>14, <3>1
    <3>. QED
      BY ZenonT(30), <1>1, <3>2, <3>3, <3>4, KeysGrow
  <2>3. ASSUME NEW i \in 0..Len(r.stack)
        PROVE  /\ KeyOf(r, i) # NoPK => KeyOf(r, i) \in uncommittedMinPKs
               /\ \A k \in InsertsOf(r, i) : k \in Nat /\ k < nextPK /\ KeyOf(r, i) # NoPK /\ KeyOf(r, i) <= k
    <3>0. \A j \in 0..n :
             /\ KeyOf(q, j) # NoPK => KeyOf(q, j) \in uncommittedMinPKs
             /\ \A k \in InsertsOf(q, j) : k \in Nat /\ k < nextPK /\ KeyOf(q, j) # NoPK /\ KeyOf(q, j) <= k
      BY ZenonT(30), <1>1 DEF ClientInv, n
    <3>1. CASE i \in 0..(n - 2)
      BY <1>1, <1>13, <3>0, <3>1
    <3>2. CASE i = n - 1
      <4>1. n - 1 \in 0..n /\ n \in 0..n /\ n - 1 \in Slots(q) /\ n \in Slots(q)
        BY <1>0, <1>1, <1>13
      <4>2. KeyOf(q, n - 1) # NoPK /\ KeyOf(q, n) # NoPK => KeyOf(q, n - 1) < KeyOf(q, n)
        BY <1>0, <1>1, <4>1 DEF ClientInv
      <4>3. KeyOf(q, n - 1) \in Nat /\ KeyOf(q, n) \in Nat
        BY ZenonT(30), <1>1, <4>1
      <4>. QED
        BY <1>13, <3>0, <3>2, <4>1, <4>2, <4>3
    <3>. QED
      <4>1. n \in Nat /\ i \in 0..(n - 1)
        BY ZenonT(30), <1>1, <1>10
      <4>2. i \in 0..(n - 2) \/ i = n - 1
        BY <4>1
      <4>. QED
        BY ZenonT(30), <3>1, <3>2, <4>2
  <2>4. KeyOf(r, 0) = NoPK
    BY <1>0, <1>1, <1>13 DEF ClientInv
  <2>. QED
    BY ZenonT(30), <1>9, <2>1, <2>2, <2>3, <2>4 DEF ClientInv
<1>16. Held(r) \subseteq Held(q)
  <2>1. n \in Nat /\ n > 1
    BY ZenonT(30), <1>0, <1>1
  <2>2. n - 1 \in 0..(n + 1) /\ n \in 0..(n + 1) /\ \A i \in 0..(n - 2) : i \in 0..(n + 1)
    BY <2>1
  <2>. QED
    BY ZenonT(30), <1>13, <1>14, <2>2 DEF Held
<1>17. \A k \in Held(q) : k \in Held(r) \/ k \in dropped'
  <2>. SUFFICES ASSUME NEW i \in Slots(q), KeyOf(q, i) # NoPK
                PROVE  KeyOf(q, i) \in Held(r) \/ KeyOf(q, i) \in dropped'
    BY ZenonT(30) DEF Held
  <2>1. CASE i \in 0..(n - 2)
    BY <1>1, <1>13, <2>1 DEF Held
  <2>2. CASE i = n - 1
    BY <1>0, <1>1, <1>13, <2>2 DEF Held
  <2>3. CASE i = n
    <3>1. CASE KeyOf(q, n - 1) = NoPK
      BY <1>0, <1>1, <1>13, <2>3, <3>1 DEF Held
    <3>2. CASE KeyOf(q, n - 1) # NoPK
      BY ZenonT(30), <1>3, <1>6, <1>8, <2>3, <3>2 DEF Dropped
    <3>. QED
      BY ZenonT(30), <3>1, <3>2
  <2>4. CASE i = n + 1
    BY ZenonT(30), <1>13, <2>4
  <2>5. n \in Nat /\ n > 1 /\ i \in 0..(n + 1)
    BY ZenonT(30), <1>0, <1>1, <1>13
  <2>6. i \in 0..(n - 2) \/ i = n - 1 \/ i = n \/ i = n + 1
    BY <2>5
  <2>. QED
    BY ZenonT(30), <2>1, <2>2, <2>3, <2>4, <2>6
<1>18. \A i, j \in Slots(r) : KeyOf(r, i) # NoPK /\ KeyOf(r, i) = KeyOf(r, j) => i = j
  <2>. SUFFICES ASSUME NEW i \in Slots(r), NEW j \in Slots(r),
                       KeyOf(r, i) # NoPK, KeyOf(r, i) = KeyOf(r, j)
                PROVE  i = j
    BY ZenonT(30)
  <2>. DEFINE Place(x) == IF x = n - 1 /\ KeyOf(q, n - 1) = NoPK THEN n ELSE x
  <2>1. ASSUME NEW x \in Slots(r), KeyOf(r, x) # NoPK
        PROVE  x \in 0..(n - 1) /\ Place(x) \in Slots(q) /\ KeyOf(q, Place(x)) = KeyOf(r, x)
    <3>1. x \in 0..(n - 1)
      BY <1>0, <1>1, <1>13, <2>1
    <3>2. x \in Slots(q) /\ n \in Slots(q) /\ (x = n - 1 \/ x \in 0..(n - 2))
      BY <1>0, <1>1, <1>13, <3>1
    <3>. QED
      BY ZenonT(30), <1>13, <3>1, <3>2
  <2>2. Place(i) = Place(j)
    BY ZenonT(30), <1>1, <2>1
  <2>. QED
    BY <1>0, <1>1, <2>1, <2>2
<1>. QED
  BY ZenonT(30), <1>0, <1>8, <1>9, <1>12, <1>15, <1>16, <1>17, <1>18, SameKeys DEF q

\* A transaction ends: its key stays held until it is noted.
LEMMA Ending ==
    ASSUME NotedInv, NEW c \in Clients, NEW q, q = client[c], q.stack # <<>>, q.pc \in {"idle", "abort"},
           NEW r, Becomes(c, r), DOMAIN r = {"stack", "pc", "pk", "ended"},
           IsSeq(r.stack), Len(r.stack) = Len(q.stack) - 1,
           \A i \in 1..(Len(q.stack) - 1) : r.stack[i] = q.stack[i],
           r.ended = Top(c), r.pc \in {"noteCommit", "noteAbort"}, r.pk = q.pk,
           UNCHANGED <<nextPK, uncommittedMinPKs, dropped, verifyFailed>>
    PROVE  ShapeInv' /\ KeysInv'
<1>. DEFINE n == Len(q.stack)
<1>1. /\ IsClient(q) /\ ClientInv(q, nextPK, uncommittedMinPKs) /\ nextPK \in Nat /\ nextPK > 0
      /\ n \in Nat /\ \A i \in Slots(q) : KeyOf(q, i) \in Nat
      /\ \A i, j \in Slots(q) : KeyOf(q, i) # NoPK /\ KeyOf(q, i) = KeyOf(q, j) => i = j
  <2>1. IsClient(q) /\ ClientInv(q, nextPK, uncommittedMinPKs) /\ nextPK \in Nat /\ nextPK > 0
    BY DEF NotedInv, ShapeInv, KeysInv
  <2>2. Len(q.stack) \in Nat /\ \A i \in Slots(q) : KeyOf(q, i) \in Nat
    BY ZenonT(30), <2>1, KeyFacts
  <2>3. \A i, j \in Slots(q) : KeyOf(q, i) # NoPK /\ KeyOf(q, i) = KeyOf(q, j) => i = j
    BY ZenonT(30) DEF NotedInv, KeysInv
  <2>. QED
    BY ZenonT(30), <2>1, <2>2, <2>3
<1>2. /\ n >= 1 /\ IsTxn(Top(c)) /\ KeyOf(q, n) = Top(c).minPK
      /\ InsertsOf(q, n) = Keys("insert", Top(c).ops)
  BY ZenonT(30), TopFacts
<1>3. IsClient(r)
  <2>1. \A i \in 1..Len(r.stack) : IsTxn(r.stack[i])
    BY <1>1 DEF IsClient
  <2>2. r.pk \in Nat
    BY ZenonT(30), <1>1 DEF IsClient
  <2>. QED
    BY ZenonT(30), <1>2, <2>1, <2>2 DEF IsClient
<1>4. /\ Slots(q) = 0..(n + 1) /\ Slots(r) = 0..n /\ KeyOf(r, n) = NoPK /\ KeyOf(q, n + 1) = NoPK
      /\ KeyOf(q, 0) = NoPK
      /\ KeyOf(r, 0) = KeyOf(q, n) /\ InsertsOf(r, 0) = InsertsOf(q, n)
      /\ \A i \in 1..(n - 1) : KeyOf(r, i) = KeyOf(q, i) /\ InsertsOf(r, i) = InsertsOf(q, i)
  <2>1. KeyOf(r, n) = NoPK /\ KeyOf(q, n + 1) = NoPK
    <3>1. n \in Nat /\ Len(r.stack) = n - 1
      BY ZenonT(30), <1>1
    <3>2. Len(r.stack) + 1 = n
      <4>. HIDE DEF n
      <4>. QED
        BY <3>1
    <3>. QED
      BY ZenonT(30), <1>1, <1>3, <3>2, KeyFacts
  <2>2. KeyOf(r, 0) = KeyOf(q, n) /\ InsertsOf(r, 0) = InsertsOf(q, n)
    BY ZenonT(30), <1>2 DEF KeyOf, InsertsOf
  <2>3. \A i \in 1..(n - 1) : KeyOf(r, i) = KeyOf(q, i) /\ InsertsOf(r, i) = InsertsOf(q, i)
    <3>1. Len(q.stack) \in Nat /\ Len(r.stack) \in Nat
      BY ZenonT(30), <1>1, <1>3, KeyFacts
    <3>2. Popped(q, r)
      BY ZenonT(30), <3>1 DEF Popped
    <3>3. SameBelow(q, r)
      BY ZenonT(30), <3>2, LevelsBelow
    <3>. QED
      BY ZenonT(30), <3>3 DEF SameBelow
  <2>4. Slots(q) = 0..(n + 1) /\ Slots(r) = 0..n
    BY <1>1 DEF Slots
  <2>5. KeyOf(q, 0) = NoPK
    BY ZenonT(30), <1>1 DEF ClientInv
  <2>. QED
    BY ZenonT(30), <2>1, <2>2, <2>3, <2>4, <2>5
<1>. HIDE DEF n
<1>5. \A i \in Slots(r) : i = 0 \/ i \in 1..(n - 1) \/ i = n
  <2>1. n \in Nat /\ n >= 1 /\ Slots(r) = 0..n
    BY ZenonT(30), <1>1, <1>2, <1>4
  <2>. QED
    BY <2>1
<1>10. n \in Nat /\ n >= 1 /\ n \in Slots(q) /\ \A i \in 1..(n - 1) : i \in Slots(q) /\ i # 0
  <2>1. n \in Nat /\ n >= 1
    BY ZenonT(30), <1>1, <1>2
  <2>. QED
    BY ZenonT(30), <1>4, <2>1, SlotFacts
<1>6. ClientInv(r, nextPK, uncommittedMinPKs)
  <2>1. \A i \in Slots(r) : KeyOf(r, i) < nextPK
    <3>1. nextPK \in Nat /\ nextPK > 0
      BY ZenonT(30), <1>1
    <3>2. NoPK < nextPK
      BY <3>1 DEF NoPK
    <3>. QED
      BY ZenonT(30), <1>1, <1>4, <1>5, <1>10, <3>2 DEF ClientInv
  <2>2. \A i, j \in Slots(r) :
           0 < i /\ i < j /\ KeyOf(r, i) # NoPK /\ KeyOf(r, j) # NoPK => KeyOf(r, i) < KeyOf(r, j)
    <3>. SUFFICES ASSUME NEW i \in Slots(r), NEW j \in Slots(r),
                         0 < i, i < j, KeyOf(r, i) # NoPK, KeyOf(r, j) # NoPK
                  PROVE  KeyOf(r, i) < KeyOf(r, j)
      BY ZenonT(30)
    <3>1. n \in Nat /\ (i = 0 \/ i \in 1..(n - 1)) /\ (j = 0 \/ j \in 1..(n - 1))
      BY ZenonT(30), <1>4, <1>5, <1>10
    <3>2. i \in 1..(n - 1) /\ j \in 1..(n - 1)
      BY <3>1
    <3>. QED
      <4>1. KeyOf(q, i) = KeyOf(r, i) /\ KeyOf(q, j) = KeyOf(r, j) /\ i \in Slots(q) /\ j \in Slots(q)
        BY ZenonT(30), <1>4, <1>10, <3>2
      <4>2. KeyOf(q, i) < KeyOf(q, j)
        BY ZenonT(30), <1>1, <4>1 DEF ClientInv
      <4>. QED
        BY ZenonT(30), <4>1, <4>2
  <2>3. \A i \in 0..Len(r.stack) :
           /\ KeyOf(r, i) # NoPK => KeyOf(r, i) \in uncommittedMinPKs
           /\ \A k \in InsertsOf(r, i) : k \in Nat /\ k < nextPK /\ KeyOf(r, i) # NoPK /\ KeyOf(r, i) <= k
    <3>1. \A j \in 0..n :
             /\ KeyOf(q, j) # NoPK => KeyOf(q, j) \in uncommittedMinPKs
             /\ \A k \in InsertsOf(q, j) : k \in Nat /\ k < nextPK /\ KeyOf(q, j) # NoPK /\ KeyOf(q, j) <= k
      BY ZenonT(30), <1>1 DEF ClientInv, n
    <3>2. \A i \in 0..Len(r.stack) : i = 0 \/ i \in 1..(n - 1)
      <4>1. n \in Nat /\ Len(r.stack) = n - 1
        BY ZenonT(30), <1>10 DEF n
      <4>. QED
        BY <4>1
    <3>. SUFFICES ASSUME NEW i \in 0..Len(r.stack)
                  PROVE  /\ KeyOf(r, i) # NoPK => KeyOf(r, i) \in uncommittedMinPKs
                         /\ \A k \in InsertsOf(r, i) :
                               k \in Nat /\ k < nextPK /\ KeyOf(r, i) # NoPK /\ KeyOf(r, i) <= k
      BY ZenonT(30)
    <3>3. PICK j \in 0..n : KeyOf(r, i) = KeyOf(q, j) /\ InsertsOf(r, i) = InsertsOf(q, j)
      <4>1. n \in 0..n /\ \A m \in 1..(n - 1) : m \in 0..n
        BY ZenonT(30), <1>10, SlotFacts
      <4>. QED
        BY ZenonT(30), <1>4, <3>2, <4>1
    <3>. QED
      BY ZenonT(30), <3>1, <3>3
  <2>. QED
    BY ZenonT(30), <2>1, <2>2, <2>3 DEF ClientInv
<1>7. Held(r) \subseteq Held(q)
  <2>. SUFFICES ASSUME NEW i \in Slots(r), KeyOf(r, i) # NoPK PROVE KeyOf(r, i) \in Held(q)
    BY DEF Held
  <2>1. \E j \in Slots(q) : KeyOf(r, i) = KeyOf(q, j)
    <3>1. CASE i = 0
      BY ZenonT(30), <1>4, <1>10, <3>1
    <3>2. CASE i \in 1..(n - 1)
      BY ZenonT(30), <1>4, <1>10, <3>2
    <3>3. i # n
      BY ZenonT(30), <1>4
    <3>. QED
      BY ZenonT(30), <1>5, <3>1, <3>2, <3>3
  <2>. QED
    BY ZenonT(30), <2>1 DEF Held
<1>8. \A k \in Held(q) : k \in Held(r)
  <2>. SUFFICES ASSUME NEW i \in Slots(q), KeyOf(q, i) # NoPK PROVE KeyOf(q, i) \in Held(r)
    BY DEF Held
  <2>1. n \in Nat /\ n >= 1 /\ i \in 0..(n + 1)
    BY ZenonT(30), <1>1, <1>2, <1>4
  <2>2. i = 0 \/ i \in 1..(n - 1) \/ i = n \/ i = n + 1
    BY <2>1
  <2>. QED
    BY <1>4, <2>1, <2>2 DEF Held
<1>9. \A i, j \in Slots(r) : KeyOf(r, i) # NoPK /\ KeyOf(r, i) = KeyOf(r, j) => i = j
  <2>1. \A i \in 1..n : i \in Slots(q)
    <3>1. Slots(q) = 0..(n + 1)
      BY ZenonT(30), <1>4
    <3>. QED
      BY <1>10, <3>1
  <2>. QED
    <3>. SUFFICES ASSUME NEW i \in Slots(r), NEW j \in Slots(r),
                         KeyOf(r, i) # NoPK, KeyOf(r, i) = KeyOf(r, j)
                  PROVE  i = j
      BY ZenonT(30)
    <3>. DEFINE Place(x) == IF x = 0 THEN n ELSE x
    <3>1. ASSUME NEW x \in Slots(r), KeyOf(r, x) # NoPK
          PROVE  x \in 0..(n - 1) /\ Place(x) \in Slots(q) /\ KeyOf(q, Place(x)) = KeyOf(r, x)
      <4>1. x \in 0..(n - 1) /\ n \in 1..n /\ (x = 0 \/ x \in 1..(n - 1)) /\ (x # 0 => x \in 1..n)
        <5>1. n \in Nat /\ n >= 1 /\ (x = 0 \/ x \in 1..(n - 1))
          BY ZenonT(30), <1>4, <1>5, <1>10, <3>1
        <5>. QED
          BY <5>1
      <4>. QED
        BY ZenonT(30), <1>4, <2>1, <4>1
    <3>2. Place(i) = Place(j)
      <4>1. /\ Place(i) \in Slots(q) /\ KeyOf(q, Place(i)) = KeyOf(r, i)
            /\ Place(j) \in Slots(q) /\ KeyOf(q, Place(j)) = KeyOf(r, j)
        BY ZenonT(30), <3>1
      <4>. HIDE DEF Place
      <4>. QED
        BY ZenonT(30), <1>1, <4>1
    <3>. QED
      BY <1>1, <3>1, <3>2
<1>. QED
  BY ZenonT(30), <1>3, <1>6, <1>7, <1>8, <1>9, KeysStay

LEMMA AbortInv == ASSUME NotedInv, NEW c \in Clients, Abort(c) PROVE NotedInv'
<1>. DEFINE q == client[c]
            r == client'[c]
<1>1. /\ q.pc \in {"idle", "abort"} /\ q.stack # <<>>
      /\ UNCHANGED <<nextPK, uncommittedMinPKs, committed, reader, dropped, verifyFailed>>
  BY ZenonT(30) DEF Abort, Live, collVars, history
<1>2. /\ DOMAIN client = Clients /\ DOMAIN q = {"stack", "pc", "pk", "ended"} /\ IsSeq(q.stack)
      /\ nextPK \in Nat
  BY ZenonT(30) DEF NotedInv, ShapeInv, IsClient
<1>3. /\ Becomes(c, r) /\ DOMAIN r = {"stack", "pc", "pk", "ended"}
      /\ r.stack = Below(q.stack) /\ r.pc = "noteAbort" /\ r.ended = Top(c) /\ r.pk = q.pk
  BY ZenonT(30), <1>2 DEF Abort, Becomes
<1>. HIDE DEF q, r
<1>4. /\ IsSeq(r.stack) /\ Len(r.stack) = Len(q.stack) - 1
      /\ \A i \in 1..(Len(q.stack) - 1) : r.stack[i] = q.stack[i]
  BY <1>1, <1>2, <1>3, BelowFacts
<1>5. ShapeInv' /\ KeysInv'
  BY ZenonT(30), <1>1, <1>3, <1>4, Ending DEF q
<1>6. nextPK' \in Nat /\ nextPK <= nextPK'
  BY <1>1, <1>2
<1>7. CursorInv'
  BY ZenonT(30), <1>1, <1>6, CursorStays
<1>. QED
  BY ZenonT(30), <1>5, <1>7 DEF NotedInv

\* What a root commits is not below a key that is uncommitted until it is noted.
LEMMA CommitRootInv ==
    ASSUME NotedInv, NEW c \in Clients, CommitRoot(c) \/ CommitRootThrows(c) PROVE NotedInv'
<1>. DEFINE q == client[c]
            r == client'[c]
            inserts == Keys("insert", Top(c).ops)
<1>1. /\ q.pc = "idle" /\ Len(q.stack) = 1
      /\ UNCHANGED <<nextPK, uncommittedMinPKs, reader, dropped, verifyFailed>>
  BY ZenonT(30) DEF CommitRoot, CommitRootThrows, collVars, history
<1>2. /\ DOMAIN client = Clients /\ DOMAIN q = {"stack", "pc", "pk", "ended"} /\ IsSeq(q.stack)
      /\ nextPK \in Nat /\ ClientInv(q, nextPK, uncommittedMinPKs) /\ CursorInv
  BY ZenonT(30) DEF NotedInv, ShapeInv, KeysInv, IsClient
<1>3. /\ Becomes(c, r) /\ DOMAIN r = {"stack", "pc", "pk", "ended"}
      /\ r.stack = <<>> /\ r.pc = "noteCommit" /\ r.ended = Top(c) /\ r.pk = q.pk
  BY <1>2 DEF CommitRoot, CommitRootThrows, Becomes
<1>4. committed' \subseteq committed \union inserts
  BY ZenonT(30) DEF CommitRoot, CommitRootThrows
<1>. HIDE DEF q, r
<1>5. q.stack # <<>> /\ IsSeq(r.stack) /\ Len(r.stack) = 0
  <2>1. Len(q.stack) = 1 /\ (q.stack = <<>> => Len(q.stack) = 0)
    BY ZenonT(30), <1>1, <1>2, SeqFacts
  <2>2. q.stack # <<>>
    BY <2>1
  <2>. QED
    BY ZenonT(30), <1>3, <2>2, NoElements
<1>6. ShapeInv' /\ KeysInv'
  <2>3. Len(q.stack) = 1
    BY ZenonT(30), <1>1
  <2>1. \A i \in 1..(Len(q.stack) - 1) : r.stack[i] = q.stack[i]
    BY <2>3
  <2>2. Len(r.stack) = Len(q.stack) - 1 /\ r.pc \in {"noteCommit", "noteAbort"} /\ q.pc \in {"idle", "abort"}
    <3>1. 0 = Len(q.stack) - 1
      BY <2>3
    <3>. QED
      BY ZenonT(30), <1>1, <1>3, <1>5, <3>1
  <2>. QED
    BY ZenonT(30), <1>1, <1>3, <1>5, <2>1, <2>2, Ending DEF q
<1>7. InsertsOf(q, 1) = inserts
  BY ZenonT(30), <1>1, <1>5, TopFacts DEF q
<1>. HIDE DEF inserts
<1>8. \A k \in inserts : k \in Nat /\ \E u \in uncommittedMinPKs : u <= k
  <2>1. 1 \in 0..Len(q.stack)
    BY <1>1
  <2>. QED
    BY ZenonT(30), <1>2, <1>7, <2>1 DEF ClientInv
<1>9. CursorInv'
  <2>1. /\ committed \in SUBSET Nat /\ reader["primary"].upTo \in Nat
        /\ \A u \in uncommittedMinPKs : u \in Nat /\ reader["primary"].upTo <= u
    BY ZenonT(30), <1>2 DEF CursorInv, NotedInv, ShapeInv
  <2>2. committed' \in SUBSET Nat
    BY ZenonT(30), <1>4, <1>8, <2>1
  <2>3. \A k \in inserts : ~ (k < reader["primary"].upTo)
    BY <1>8, <2>1
  <2>4. PrimaryReaderMissesNothing'
    BY ZenonT(30), <1>1, <1>2, <1>4, <2>3 DEF PrimaryReaderMissesNothing, CursorInv
  <2>. QED
    BY ZenonT(30), <1>1, <1>2, <2>2, <2>4 DEF CursorInv
<1>. QED
  BY ZenonT(30), <1>6, <1>9 DEF NotedInv

\* noteComplete finds the key, and nobody else holds it.
LEMMA NoteInv ==
    ASSUME NotedInv, NEW c \in Clients, NoteCommit(c) \/ NoteAbort(c) PROVE NotedInv'
<1>. DEFINE q == client[c]
            r == client'[c]
            n == Len(q.stack)
            key == KeyOf(q, 0)
<1>0. /\ q.pc \in {"noteCommit", "noteAbort"} /\ NoteComplete(q.ended.minPK)
      /\ UNCHANGED <<nextPK, committed, reader, dropped>>
  BY ZenonT(30) DEF NoteCommit, NoteAbort, history
<1>1. /\ IsClient(q) /\ ClientInv(q, nextPK, uncommittedMinPKs) /\ nextPK \in Nat /\ nextPK > 0
      /\ n \in Nat /\ IsSeq(q.stack) /\ \A i \in Slots(q) : KeyOf(q, i) \in Nat
      /\ \A i, j \in Slots(q) : KeyOf(q, i) # NoPK /\ KeyOf(q, i) = KeyOf(q, j) => i = j
  BY ZenonT(30), ClientFacts
<1>2. /\ DOMAIN client = Clients /\ DOMAIN q = {"stack", "pc", "pk", "ended"}
      /\ uncommittedMinPKs \in SUBSET (Nat \ {0}) /\ ~ verifyFailed
  BY ZenonT(30), <1>1 DEF NotedInv, ShapeInv, KeysInv, IsClient
<1>3. /\ Becomes(c, r) /\ DOMAIN r = {"stack", "pc", "pk", "ended"}
      /\ r.stack = q.stack /\ r.pc \in {"idle", "forget"} /\ r.ended = NewTxn /\ r.pk = NoPK
  BY <1>2 DEF NoteCommit, NoteAbort, Becomes
<1>. HIDE DEF q, r
<1>4. key # NoPK => key \in uncommittedMinPKs
  BY <1>1 DEF ClientInv
<1>5. uncommittedMinPKs' = uncommittedMinPKs \ {key} /\ ~ verifyFailed'
  BY ZenonT(30), <1>0, <1>2, <1>4 DEF NoteComplete, KeyOf
<1>. HIDE DEF key
<1>6. IsClient(r)
  BY <1>1, <1>3, NewTxnFacts DEF IsClient, NoPK
<1>7. /\ Slots(q) = 0..(n + 1) /\ Slots(r) = 0..(n + 1) /\ Len(r.stack) = n
      /\ KeyOf(r, n + 1) = NoPK /\ KeyOf(q, n + 1) = NoPK
      /\ KeyOf(r, 0) = NoPK /\ InsertsOf(r, 0) = {}
      /\ \A i \in 1..n : KeyOf(r, i) = KeyOf(q, i) /\ InsertsOf(r, i) = InsertsOf(q, i)
  <2>1. KeyOf(r, n + 1) = NoPK /\ KeyOf(q, n + 1) = NoPK
    BY ZenonT(30), <1>0, <1>1, <1>3, <1>6, KeyFacts
  <2>2. KeyOf(r, 0) = NoPK /\ InsertsOf(r, 0) = {}
    BY ZenonT(30), <1>3, NewTxnFacts DEF KeyOf, InsertsOf
  <2>3. \A i \in 1..n : KeyOf(r, i) = KeyOf(q, i) /\ InsertsOf(r, i) = InsertsOf(q, i)
    <3>. SUFFICES ASSUME NEW i \in 1..n
                  PROVE  KeyOf(r, i) = KeyOf(q, i) /\ InsertsOf(r, i) = InsertsOf(q, i)
      BY ZenonT(30)
    <3>1. /\ Len(q.stack) \in Nat /\ Len(r.stack) \in Nat
          /\ i \in 1..Len(q.stack) /\ i \in 1..Len(r.stack) /\ r.stack[i] = q.stack[i]
      BY ZenonT(30), <1>1, <1>3
    <3>. QED
      BY ZenonT(30), <3>1, SameLevel
  <2>. QED
    BY ZenonT(30), <1>3, <2>1, <2>2, <2>3 DEF Slots
<1>. HIDE DEF n
<1>8. \A i \in Slots(r) : KeyOf(r, i) # NoPK => i \in 1..n /\ KeyOf(r, i) = KeyOf(q, i)
  <2>1. \A i \in Slots(r) : i = 0 \/ i \in 1..n \/ i = n + 1
    BY <1>1, <1>7
  <2>. QED
    BY ZenonT(30), <1>7, <2>1
<1>9. \A i \in 1..n : KeyOf(q, i) # NoPK => KeyOf(q, i) # key
  <2>1. 0 \in Slots(q) /\ \A i \in 1..n : i \in Slots(q) /\ i # 0
    BY <1>1, <1>7
  <2>. QED
    BY ZenonT(30), <1>1, <2>1 DEF key
<1>10. ClientInv(r, nextPK, uncommittedMinPKs')
  <2>1. \A i \in Slots(r) : KeyOf(r, i) < nextPK
    <3>1. \A i \in Slots(r) : i \in Slots(q)
      BY ZenonT(30), <1>7
    <3>. QED
      BY ZenonT(30), <1>1, <1>8, <3>1 DEF ClientInv, NoPK
  <2>2. \A i, j \in Slots(r) :
           0 < i /\ i < j /\ KeyOf(r, i) # NoPK /\ KeyOf(r, j) # NoPK => KeyOf(r, i) < KeyOf(r, j)
    BY ZenonT(30), <1>1, <1>7, <1>8 DEF ClientInv
  <2>3. \A i \in 0..Len(r.stack) :
           /\ KeyOf(r, i) # NoPK => KeyOf(r, i) \in uncommittedMinPKs'
           /\ \A k \in InsertsOf(r, i) : k \in Nat /\ k < nextPK /\ KeyOf(r, i) # NoPK /\ KeyOf(r, i) <= k
    <3>1. \A j \in 1..n :
             /\ KeyOf(q, j) # NoPK => KeyOf(q, j) \in uncommittedMinPKs
             /\ \A k \in InsertsOf(q, j) : k \in Nat /\ k < nextPK /\ KeyOf(q, j) # NoPK /\ KeyOf(q, j) <= k
      BY <1>1 DEF ClientInv, n
    <3>2. \A i \in 0..Len(r.stack) : i = 0 \/ i \in 1..n
      BY <1>1, <1>7
    <3>. QED
      BY ZenonT(30), <1>5, <1>7, <1>9, <3>1, <3>2
  <2>. QED
    BY ZenonT(30), <1>3, <1>7, <2>1, <2>2, <2>3 DEF ClientInv
<1>11. Held(r) \subseteq Held(q)
  BY ZenonT(30), <1>1, <1>7, <1>8 DEF Held
<1>12. key # NoPK => key \in Held(q)
  BY <1>1, <1>7 DEF Held, key
<1>13. \A k \in Held(q) : k \in Held(r) \/ k = key
  <2>. SUFFICES ASSUME NEW i \in Slots(q), KeyOf(q, i) # NoPK PROVE KeyOf(q, i) \in Held(r) \/ KeyOf(q, i) = key
    BY ZenonT(30) DEF Held
  <2>1. i = 0 \/ i \in 1..n \/ i = n + 1
    BY <1>1, <1>7
  <2>2. \A j \in 1..n : j \in Slots(r)
    BY <1>1, <1>7
  <2>. QED
    BY ZenonT(30), <1>7, <2>1, <2>2 DEF Held, key
<1>14. \A i, j \in Slots(r) : KeyOf(r, i) # NoPK /\ KeyOf(r, i) = KeyOf(r, j) => i = j
  <2>1. \A i \in Slots(r) : i \in Slots(q)
    BY ZenonT(30), <1>7
  <2>. QED
    BY ZenonT(30), <1>1, <1>8, <2>1
<1>15. ShapeInv' /\ KeysInv'
  <2>1. /\ nextPK' \in Nat /\ nextPK <= nextPK' /\ uncommittedMinPKs' \in SUBSET (Nat \ {0})
        /\ ClientInv(r, nextPK', uncommittedMinPKs') /\ ShapeInv /\ KeysInv
    <3>1. nextPK' = nextPK
      BY ZenonT(30), <1>0
    <3>2. ClientInv(r, nextPK', uncommittedMinPKs')
      BY ZenonT(30), <1>10, <3>1
    <3>3. ShapeInv /\ KeysInv
      BY ZenonT(30) DEF NotedInv
    <3>4. uncommittedMinPKs' \in SUBSET (Nat \ {0})
      BY ZenonT(30), <1>2, <1>5
    <3>5. nextPK' \in Nat /\ nextPK <= nextPK'
      BY <1>1, <3>1
    <3>. QED
      BY ZenonT(30), <3>2, <3>3, <3>4, <3>5
  <2>2. /\ \A k \in Held(r) : k \in Held(client[c]) \/ k >= nextPK
        /\ \A u \in uncommittedMinPKs \ uncommittedMinPKs' : u \in Held(client[c])
        /\ \A u \in uncommittedMinPKs' \ uncommittedMinPKs : u \in Held(r)
        /\ \A u \in uncommittedMinPKs' : u \in Held(client[c]) => u \in Held(r) \/ u \in dropped'
        /\ dropped \subseteq dropped'
    BY ZenonT(30), <1>0, <1>2, <1>5, <1>11, <1>12, <1>13 DEF q, NoPK
  <2>. QED
    BY ZenonT(30), <1>3, <1>5, <1>6, <1>14, <2>1, <2>2, ClientStep
<1>16. CursorInv'
  <2>1. nextPK' \in Nat /\ nextPK <= nextPK'
    BY <1>0, <1>1
  <2>2. \A u \in uncommittedMinPKs' : u \in uncommittedMinPKs \/ u = nextPK
    BY ZenonT(30), <1>5
  <2>. QED
    BY ZenonT(30), <1>0, <2>1, <2>2, CursorStays
<1>. QED
  BY ZenonT(30), <1>15, <1>16 DEF NotedInv

-----------------------------------------------------------------------------
(* The other steps, and the theorems.                                      *)

LEMMA Untouched ==
    ASSUME NotedInv, UNCHANGED <<nextPK, uncommittedMinPKs, client, dropped, verifyFailed>>
    PROVE  ShapeInv' /\ KeysInv'
  BY DEF NotedInv, ShapeInv, KeysInv

LEMMA SecondaryInv ==
    ASSUME NotedInv, SecondaryApply \/ SecondaryCommit \/ SecondaryNoteCommit \/ UNCHANGED vars
    PROVE  NotedInv'
<1>1. UNCHANGED <<nextPK, uncommittedMinPKs, client, committed, reader, dropped, verifyFailed>>
  BY ZenonT(30) DEF SecondaryApply, SecondaryCommit, SecondaryNoteCommit, vars, collVars, history
<1>2. ShapeInv' /\ KeysInv'
  BY ZenonT(30), <1>1, Untouched
<1>3. CursorInv'
  BY ZenonT(30), <1>1 DEF NotedInv, CursorInv, PrimaryReaderMissesNothing
<1>. QED
  BY ZenonT(30), <1>2, <1>3 DEF NotedInv

\* The bound of the cursor is below every uncommitted key.
LEMMA BoundFacts ==
    ASSUME NEW next \in Nat, NEW U \in SUBSET Nat, \A u \in U : u < next
    PROVE  /\ MinUnsafeKey(U, next) \in Nat /\ MinUnsafeKey(U, next) <= next
           /\ \A u \in U : MinUnsafeKey(U, next) <= u
<1>1. CASE U = {}
  BY <1>1 DEF MinUnsafeKey
<1>2. CASE U # {}
  <2>1. Min(U) \in U /\ \A u \in U : Min(U) <= u
    BY ZenonT(30), <1>2, MinIsLeast
  <2>. DEFINE least == Min(U)
  <2>2. MinUnsafeKey(U, next) = least /\ least \in U /\ \A u \in U : least <= u
    BY ZenonT(30), <1>2, <2>1 DEF MinUnsafeKey
  <2>. HIDE DEF least
  <2>3. least \in Nat /\ least < next
    BY ZenonT(30), <2>2
  <2>. QED
    BY <2>2, <2>3
<1>. QED
  BY ZenonT(30), <1>1, <1>2

LEMMA ReadInv == ASSUME NotedInv, ReadPrimary \/ ReadSecondary PROVE NotedInv'
<1>1. UNCHANGED <<nextPK, uncommittedMinPKs, client, committed, dropped, verifyFailed>>
  BY ZenonT(30) DEF ReadPrimary, ReadSecondary, Read, collVars, history
<1>2. ShapeInv' /\ KeysInv'
  BY ZenonT(30), <1>1, Untouched
<1>3. /\ nextPK \in Nat /\ uncommittedMinPKs \in SUBSET Nat /\ \A u \in uncommittedMinPKs : u < nextPK
      /\ CursorInv
  BY ZenonT(30) DEF NotedInv, ShapeInv, KeysInv
<1>4. CASE ReadPrimary
  <2>. DEFINE bound == MinUnsafeKey(uncommittedMinPKs, nextPK)
              old == reader["primary"]
              new == reader'["primary"]
  <2>1. bound \in Nat /\ bound <= nextPK /\ \A u \in uncommittedMinPKs : bound <= u
    BY ZenonT(30), <1>3, BoundFacts
  <2>2. /\ DOMAIN reader = {"primary", "secondary"} /\ DOMAIN old = {"upTo", "seen"}
        /\ old.upTo \in Nat /\ old.seen \in SUBSET Nat /\ committed \in SUBSET Nat
    BY ZenonT(30), <1>3 DEF CursorInv
  <2>3. bound > old.upTo /\ reader' = [reader EXCEPT !["primary"].upTo = bound,
           !["primary"].seen = @ \union {pk \in committed : old.upTo <= pk /\ pk < bound}]
    BY <1>4, ZenonT(30) DEF ReadPrimary, Read
  <2>. HIDE DEF bound
  <2>4. /\ DOMAIN reader' = {"primary", "secondary"} /\ new.upTo = bound
        /\ DOMAIN new = {"upTo", "seen"}
        /\ new.seen = old.seen \union {pk \in committed : old.upTo <= pk /\ pk < bound}
    BY ZenonT(30), <2>2, <2>3
  <2>5. {pk \in committed : pk < old.upTo} \subseteq old.seen
    BY ZenonT(30), <1>3 DEF CursorInv, PrimaryReaderMissesNothing
  <2>6. {pk \in committed : pk < new.upTo} \subseteq new.seen /\ new.seen \in SUBSET Nat
    <3>1. ASSUME NEW pk \in committed, pk < new.upTo PROVE pk \in new.seen
      <4>1. pk \in Nat /\ old.upTo \in Nat /\ bound \in Nat /\ pk < bound
        BY ZenonT(30), <2>1, <2>2, <2>4, <3>1
      <4>2. CASE pk < old.upTo
        BY ZenonT(30), <2>4, <2>5, <4>2
      <4>3. CASE old.upTo <= pk
        BY ZenonT(30), <2>4, <4>1, <4>3
      <4>. QED
        BY <4>1, <4>2, <4>3
    <3>. QED
      BY ZenonT(30), <2>2, <2>4, <3>1
  <2>. QED
    BY ZenonT(30), <1>1, <1>2, <2>1, <2>2, <2>4, <2>6 DEF NotedInv, CursorInv, PrimaryReaderMissesNothing
<1>5. CASE ReadSecondary
  <2>1. DOMAIN reader' = {"primary", "secondary"} /\ reader'["primary"] = reader["primary"]
    BY ZenonT(30), <1>3, <1>5 DEF ReadSecondary, Read, CursorInv
  <2>. QED
    BY ZenonT(30), <1>1, <1>2, <1>3, <2>1 DEF NotedInv, CursorInv, PrimaryReaderMissesNothing
<1>. QED
  BY ZenonT(30), <1>4, <1>5

LEMMA InitNoted == Init => NotedInv
<1>. SUFFICES ASSUME Init PROVE NotedInv
  BY ZenonT(30)
<1>1. /\ nextPK = 1 /\ uncommittedMinPKs = {} /\ committed = {} /\ dropped = {} /\ verifyFailed = FALSE
      /\ DOMAIN client = Clients
      /\ DOMAIN reader = {"primary", "secondary"} /\ DOMAIN reader["primary"] = {"upTo", "seen"}
      /\ reader["primary"].upTo = 1 /\ reader["primary"].seen = {}
  BY ZenonT(30) DEF Init
<1>2. ASSUME NEW c \in Clients
      PROVE  /\ IsClient(client[c]) /\ ClientInv(client[c], nextPK, uncommittedMinPKs)
             /\ \A i \in Slots(client[c]) : KeyOf(client[c], i) = NoPK
  <2>. DEFINE q == client[c]
  <2>1. /\ DOMAIN q = {"stack", "pc", "pk", "ended"} /\ q.stack = <<>> /\ q.pc = "idle"
        /\ q.pk = NoPK /\ q.ended = NewTxn
    BY ZenonT(30) DEF Init
  <2>. HIDE DEF q
  <2>2. IsSeq(q.stack) /\ Len(q.stack) = 0
    BY ZenonT(30), <2>1, NoElements
  <2>3. IsClient(q)
    BY <2>1, <2>2, NewTxnFacts DEF IsClient, NoPK
  <2>4. /\ Slots(q) = 0..1 /\ KeyOf(q, 0) = NoPK /\ KeyOf(q, 1) = NoPK /\ InsertsOf(q, 0) = {}
    BY <2>1, <2>2, NewTxnFacts DEF Slots, KeyOf, InsertsOf
  <2>5. \A i \in Slots(q) : KeyOf(q, i) = NoPK
    BY <2>4
  <2>6. ClientInv(q, nextPK, uncommittedMinPKs)
    BY <1>1, <2>1, <2>2, <2>4, <2>5 DEF ClientInv, NoPK
  <2>. QED
    BY ZenonT(30), <2>3, <2>5, <2>6 DEF q
<1>3. ShapeInv
  BY <1>1, <1>2 DEF ShapeInv
<1>4. KeysInv
  BY ZenonT(30), <1>1, <1>2 DEF KeysInv
<1>5. CursorInv
  BY <1>1 DEF CursorInv, PrimaryReaderMissesNothing
<1>. QED
  BY ZenonT(30), <1>3, <1>4, <1>5 DEF NotedInv

LEMMA NotedStep == NotedInv /\ [Next]_vars => NotedInv'
<1>. SUFFICES ASSUME NotedInv, [Next]_vars PROVE NotedInv'
  BY ZenonT(30)
<1>1. ASSUME NEW c \in Clients,
             \/ Begin(c) \/ GetNextPK(c) \/ CheckUniqueAndInsert(c) \/ CheckGorged(c) \/ Trim(c)
             \/ UpdateObject(c)
             \/ CommitChild(c) \/ CommitRoot(c) \/ CommitRootThrows(c) \/ NoteCommit(c)
             \/ Abort(c) \/ NoteAbort(c) \/ NoteAbortForgets(c)
      PROVE  NotedInv'
  BY ZenonT(30), <1>1, BeginInv, GetNextPKInv, CheckUniqueAndInsertInv, CheckGorgedInv, TrimInv, UpdateInv, CommitChildInv,
     CommitRootInv, NoteInv, AbortInv, ZenonT(30)
<1>2. CASE SecondaryApply \/ SecondaryCommit \/ SecondaryNoteCommit \/ UNCHANGED vars
  BY ZenonT(30), <1>2, SecondaryInv
<1>3. CASE ReadPrimary \/ ReadSecondary
  BY ZenonT(30), <1>3, ReadInv
<1>. QED
  BY <1>1, <1>2, <1>3, ZenonT(30) DEF Next

\* Nothing that commits is below what the cursor on the primary has read.
THEOREM PrimaryCursorIsComplete == Spec => []PrimaryReaderMissesNothing
<1>1. NotedInv => PrimaryReaderMissesNothing
  BY ZenonT(30) DEF NotedInv, CursorInv
<1>. QED
  BY InitNoted, NotedStep, <1>1, PTL DEF Spec

\* Whatever transactions nest, commit and abort, noteComplete finds its key, a
\* level with an insert has its least key in the set, and only what a transfer
\* has dropped stays there.
THEOREM LeastKeysStayNoted == Spec => []LeastKeysAreNoted
<1>1. ASSUME NotedInv PROVE LeastKeysAreNoted
  <2>1. ~ verifyFailed
    BY ZenonT(30), <1>1 DEF NotedInv, KeysInv
  <2>2. ASSUME NEW t \in Levels, t.minPK # NoPK PROVE t.minPK \in uncommittedMinPKs
    <3>1. PICK c \in Clients : t \in Range(client[c].stack) \/ t = client[c].ended
      <4>1. \/ t \in UNION {Range(client[d].stack) : d \in Clients}
            \/ t \in {client[d].ended : d \in Clients}
        BY <2>2, ZenonT(30) DEF Levels
      <4>. QED
        BY ZenonT(30), <4>1
    <3>. DEFINE q == client[c]
    <3>2. IsClient(q) /\ ClientInv(q, nextPK, uncommittedMinPKs) /\ IsSeq(q.stack) /\ Len(q.stack) \in Nat
      BY ZenonT(30), <1>1, ClientFacts
    <3>3. PICK i \in 0..Len(q.stack) : KeyOf(q, i) = t.minPK
      <4>1. CASE t = q.ended
        BY <3>2, <4>1 DEF KeyOf
      <4>2. CASE t \in Range(q.stack)
        <5>1. PICK i \in 1..Len(q.stack) : t = q.stack[i]
          BY ZenonT(30), <3>2, <4>2, SeqFacts
        <5>2. i \in 0..Len(q.stack) /\ KeyOf(q, i) = t.minPK
          BY <3>2, <5>1 DEF KeyOf
        <5>. QED
          BY ZenonT(30), <5>2
      <4>. QED
        BY ZenonT(30), <3>1, <4>1, <4>2
    <3>. QED
      BY ZenonT(30), <2>2, <3>2, <3>3 DEF ClientInv
  <2>3. ASSUME Quiet, NEW u \in uncommittedMinPKs PROVE u \in dropped
    <3>1. u # NoPK /\ KeysInv
      BY ZenonT(30), <1>1 DEF NotedInv, ShapeInv, NoPK
    <3>2. ASSUME NEW c \in Clients, NEW i \in Slots(client[c]) PROVE KeyOf(client[c], i) = NoPK
      <4>1. client[c].stack = <<>> /\ client[c].pc = "idle" /\ KeyOf(client[c], 0) = NoPK
        BY ZenonT(30), <2>3, <3>1 DEF Quiet, KeysInv, ClientInv
      <4>2. Len(client[c].stack) = 0
        BY ZenonT(30), <4>1, NoElements
      <4>3. i = 0 \/ i = 1
        BY <4>2 DEF Slots
      <4>. QED
        BY <4>1, <4>2, <4>3 DEF KeyOf
    <3>. QED
      BY ZenonT(30), <3>1, <3>2 DEF KeysInv
  <2>. QED
    BY ZenonT(30), <2>1, <2>2, <2>3 DEF LeastKeysAreNoted
<1>. QED
  BY InitNoted, NotedStep, <1>1, PTL DEF Spec

=============================================================================
