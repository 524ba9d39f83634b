-------------------------------- MODULE GTID --------------------------------
(***************************************************************************)
(* Global transaction identifiers (src/mongo/db/gtid.h, gtid.cpp).         *)
(*                                                                         *)
(* A GTID names one entry of the replicated oplog.  It is a pair of        *)
(* unsigned 64-bit counters: primarySeqNo is incremented by the first      *)
(* write after each election and GTSeqNo by every other write.  The pair   *)
(* is the oplog's primary key, so the order below is the order in which    *)
(* every reader of every oplog meets the entries.                          *)
(*                                                                         *)
(* The counters are modelled as natural numbers: no run of the server      *)
(* hands out 2^64 identifiers, and the specifications that use this module *)
(* bound both counters in the guards of their actions.                     *)
(***************************************************************************)
EXTENDS Naturals

GTIDs == [primarySeqNo : Nat, GTSeqNo : Nat]

\* GTID::GTID(): what a default-constructed identifier holds.
InitialGTID == [primarySeqNo |-> 0, GTSeqNo |-> 0]

\* GTID::cmp(a, b) < 0, <= 0.
Lt(a, b) ==
    \/ a.primarySeqNo < b.primarySeqNo
    \/ a.primarySeqNo = b.primarySeqNo /\ a.GTSeqNo < b.GTSeqNo

Le(a, b) == a = b \/ Lt(a, b)

\* GTID::inc and GTID::inc_primary, as functions of the old value.
Inc(g) == [g EXCEPT !.GTSeqNo = @ + 1]

IncPrimaryKeepsPrimary(g) == [primarySeqNo |-> g.primarySeqNo, GTSeqNo |-> 0]

IncPrimary(g) == [primarySeqNo |-> g.primarySeqNo + 1, GTSeqNo |-> 0]

\* GTID::isInitial: nothing was ever written under this identifier.
IsInitial(g) == g.primarySeqNo = 0

\* *(set.begin()) of a std::set<GTID, GTIDCmp>.
MinGTID(S) == CHOOSE g \in S : \A h \in S : Le(g, h)

=============================================================================
