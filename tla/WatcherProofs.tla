---------------------------- MODULE WatcherProofs ----------------------------
(***************************************************************************)
(* Proofs about module Watchers, for any runners, windows and faults: its  *)
(* types, and that no runner repeats what another has said, filed or       *)
(* proposed more often than there are runners to do so.                    *)
(***************************************************************************)
EXTENDS WatcherProperties, FiniteSetTheorems, SequenceTheorems, TLAPS

-----------------------------------------------------------------------------
(* Finite sets of runners *)

\* When all but one runner stay in a set or out of it, its size follows that one.
LEMMA OneMoves ==
  ASSUME NEW S \in SUBSET Runners, NEW T \in SUBSET Runners, NEW p \in Runners,
         \A q \in Runners \ {p} : q \in S <=> q \in T
  PROVE  /\ Cardinality(S) \in Nat /\ Cardinality(T) \in Nat
         /\ Cardinality(S) <= Cardinality(Runners)
         /\ (p \in S <=> p \in T) => Cardinality(T) = Cardinality(S)
         /\ p \in S /\ p \notin T => Cardinality(T) + 1 = Cardinality(S)
         /\ p \notin S /\ p \in T => Cardinality(T) = Cardinality(S) + 1
         /\ p \notin S => Cardinality(S) + 1 <= Cardinality(Runners)
<1>1. IsFiniteSet(Runners)
  BY WatcherConstants
<1>2. IsFiniteSet(S) /\ IsFiniteSet(T) /\ Cardinality(S) <= Cardinality(Runners)
  BY <1>1, FS_Subset
<1>3. Cardinality(S) \in Nat /\ Cardinality(T) \in Nat /\ Cardinality(Runners) \in Nat
  BY <1>1, <1>2, FS_CardinalityType
<1>4. (p \in S <=> p \in T) => T = S
  OBVIOUS
<1>5. p \in S /\ p \notin T => Cardinality(T) + 1 = Cardinality(S)
  <2>1. SUFFICES ASSUME p \in S, p \notin T PROVE Cardinality(T) + 1 = Cardinality(S)
    OBVIOUS
  <2>2. S = T \cup {p}
    BY <2>1
  <2>. QED
    BY <1>2, <2>1, <2>2, FS_AddElement
<1>6. p \notin S => Cardinality(S \cup {p}) = Cardinality(S) + 1
  BY <1>2, FS_AddElement
<1>7. p \notin S /\ p \in T => T = S \cup {p}
  OBVIOUS
<1>8. Cardinality(S \cup {p}) <= Cardinality(Runners)
  <2>1. S \cup {p} \subseteq Runners
    OBVIOUS
  <2>. QED
    BY <1>1, <2>1, FS_Subset
<1>. QED
  BY <1>2, <1>3, <1>4, <1>5, <1>6, <1>7, <1>8

-----------------------------------------------------------------------------
(* Ages in a window *)

\* Ages up to w, the newest first.
AgesOK(s, w) ==
  /\ s \in Seq(0..w)
  /\ \A i, j \in 1..Len(s) : i <= j => s[i] <= s[j]

\* Of ages that are listed newest first, those below w come before the others.
LEMMA StayingPrefix ==
  ASSUME NEW w \in Nat, NEW s, AgesOK(s, w)
  PROVE  \E n \in 0..Len(s) : /\ {i \in DOMAIN s : s[i] < w} = 1..n
                              /\ Cardinality({i \in DOMAIN s : s[i] < w}) = n
<1>1. Len(s) \in Nat /\ DOMAIN s = 1..Len(s) /\ s \in [1..Len(s) -> 0..w]
  BY DEF AgesOK
<1>. DEFINE gone == {i \in 1..Len(s) : ~(s[i] < w)}
            stay == {i \in DOMAIN s : s[i] < w}
<1>2. \E n \in 0..Len(s) : stay = 1..n
  <2>1. CASE gone = {}
    <3>1. stay = 1..Len(s)
      BY <1>1, <2>1
    <3>. QED
      BY <1>1, <3>1
  <2>2. CASE gone # {}
    <3>1. gone \subseteq Nat
      BY <1>1
    <3>2. \E m \in gone : \A i \in gone : ~(<<i, m>> \in OpToRel(<, Nat))
      BY <2>2, <3>1, NatLessThanWellFounded, WFMin, Zenon
    <3>3. PICK m \in gone : \A i \in gone : ~(<<i, m>> \in OpToRel(<, Nat))
      BY <3>2
    <3>4. m \in 1..Len(s) /\ ~(s[m] < w) /\ \A i \in gone : ~(i < m)
      BY <1>1, <3>1, <3>3 DEF OpToRel
    <3>5. \A i \in 1..Len(s) : i < m => s[i] < w
      BY <3>4
    <3>6. \A i \in 1..Len(s) : m <= i => ~(s[i] < w)
      BY <1>1, <3>4 DEF AgesOK
    <3>7. stay = 1..(m - 1)
      BY <1>1, <3>4, <3>5, <3>6
    <3>. QED
      BY <1>1, <3>4, <3>7
  <2>. QED
    BY <2>1, <2>2
<1>3. PICK n \in 0..Len(s) : stay = 1..n
  BY <1>2
<1>4. Cardinality(1..n) = n
  BY <1>1, <1>3, FS_Interval
<1>. QED
  BY <1>3, <1>4

\* What Older makes of a window: its beginning, one unit older.
LEMMA OlderPrefix ==
  ASSUME NEW w \in Nat, NEW s, AgesOK(s, w)
  PROVE  /\ AgesOK(Older(s, w), w)
         /\ Len(Older(s, w)) <= Len(s)
         /\ \A i \in 1..Len(Older(s, w)) : Older(s, w)[i] = s[i] + 1
         /\ \A i \in 1..Len(s) : i <= Len(Older(s, w)) <=> s[i] < w
<1>1. Len(s) \in Nat /\ DOMAIN s = 1..Len(s) /\ s \in [1..Len(s) -> 0..w]
  BY DEF AgesOK
<1>2. PICK n \in 0..Len(s) : /\ {i \in DOMAIN s : s[i] < w} = 1..n
                             /\ Cardinality({i \in DOMAIN s : s[i] < w}) = n
  BY StayingPrefix
<1>3. Older(s, w) = [i \in 1..n |-> s[i] + 1]
  BY <1>2 DEF Older
<1>. DEFINE o == [i \in 1..n |-> s[i] + 1]
<1>4. \A i \in 1..Len(s) : i <= n <=> s[i] < w
  BY <1>1, <1>2
<1>5. o \in [1..n -> 0..w]
  BY <1>1, <1>4
<1>6. o \in Seq(0..w) /\ Len(o) = n
  BY <1>1, <1>5
<1>7. \A i, j \in 1..n : i <= j => o[i] <= o[j]
  BY <1>1 DEF AgesOK
<1>. QED
  BY <1>1, <1>3, <1>4, <1>6, <1>7 DEF AgesOK

\* A new event comes first.
LEMMA NewestFirst ==
  ASSUME NEW w \in Nat, NEW s, AgesOK(s, w)
  PROVE  /\ AgesOK(<<0>> \o s, w)
         /\ Len(<<0>> \o s) = Len(s) + 1
         /\ (<<0>> \o s)[1] = 0
         /\ \A i \in 2..(Len(s) + 1) : (<<0>> \o s)[i] = s[i - 1]
<1>1. Len(s) \in Nat /\ s \in Seq(0..w) /\ s \in [1..Len(s) -> 0..w]
  BY DEF AgesOK
<1>2. <<0>> \in Seq(0..w) /\ Len(<<0>>) = 1 /\ <<0>>[1] = 0
  OBVIOUS
<1>3. /\ <<0>> \o s \in Seq(0..w)
      /\ Len(<<0>> \o s) = Len(s) + 1
      /\ (<<0>> \o s)[1] = 0
      /\ \A i \in 2..(Len(s) + 1) : (<<0>> \o s)[i] = s[i - 1]
  BY <1>1, <1>2
<1>4. \A i, j \in 1..(Len(s) + 1) : i <= j => (<<0>> \o s)[i] <= (<<0>> \o s)[j]
  <2>1. SUFFICES ASSUME NEW i \in 1..(Len(s) + 1), NEW j \in 1..(Len(s) + 1), i <= j
                 PROVE  (<<0>> \o s)[i] <= (<<0>> \o s)[j]
    OBVIOUS
  <2>2. CASE i = 1
    <3>1. (<<0>> \o s)[j] \in 0..w
      BY <1>1, <1>3
    <3>. QED
      BY <1>3, <2>2, <3>1
  <2>3. CASE i # 1
    <3>1. /\ i - 1 \in 1..Len(s) /\ j - 1 \in 1..Len(s) /\ i - 1 <= j - 1
          /\ i \in 2..(Len(s) + 1) /\ j \in 2..(Len(s) + 1)
      BY <1>1, <2>1, <2>3
    <3>2. s[i - 1] <= s[j - 1]
      BY <3>1 DEF AgesOK
    <3>. QED
      BY <1>3, <3>1, <3>2
  <2>. QED
    BY <2>2, <2>3
<1>. QED
  BY <1>3, <1>4 DEF AgesOK

\* Counted from the oldest, each delivery but the newest d was recorded, and not
\* before it was made.
Lag(s, n, d) ==
  /\ Len(s) <= Len(n) + d
  /\ \A i \in 1..Len(s) : d < i => n[i - d] <= s[i]

\* More deliveries may stay unrecorded.
LEMMA LagGrows ==
  ASSUME NEW w \in Nat, NEW s, NEW n, AgesOK(s, w), AgesOK(n, w),
         NEW d \in Nat, NEW e \in Nat, d <= e, Lag(s, n, d)
  PROVE  Lag(s, n, e)
<1>1. Len(s) \in Nat /\ Len(n) \in Nat /\ s \in [1..Len(s) -> 0..w] /\ n \in [1..Len(n) -> 0..w]
  BY DEF AgesOK
<1>2. Len(s) <= Len(n) + e
  BY <1>1 DEF Lag
<1>3. ASSUME NEW i \in 1..Len(s), e < i PROVE n[i - e] <= s[i]
  <2>1. i - d \in 1..Len(n) /\ i - e \in 1..Len(n) /\ i - e <= i - d /\ d < i
    BY <1>1, <1>3 DEF Lag
  <2>2. n[i - e] <= n[i - d]
    BY <2>1 DEF AgesOK
  <2>3. n[i - d] <= s[i]
    BY <2>1 DEF Lag
  <2>4. n[i - e] \in Nat /\ n[i - d] \in Nat /\ s[i] \in Nat
    BY <1>1, <2>1
  <2>. QED
    BY <2>2, <2>3, <2>4
<1>. QED
  BY <1>2, <1>3 DEF Lag

\* A delivery that is not yet recorded.
LEMMA LagDelivered ==
  ASSUME NEW w \in Nat, NEW s, NEW n, AgesOK(s, w), AgesOK(n, w),
         NEW d \in Nat, Lag(s, n, d)
  PROVE  Lag(<<0>> \o s, n, d + 1)
<1>1. Len(s) \in Nat /\ Len(n) \in Nat /\ Len(<<0>> \o s) = Len(s) + 1
  BY NewestFirst DEF AgesOK
<1>2. Len(<<0>> \o s) <= Len(n) + (d + 1)
  BY <1>1 DEF Lag
<1>3. ASSUME NEW i \in 1..(Len(s) + 1), d + 1 < i PROVE n[i - (d + 1)] <= (<<0>> \o s)[i]
  <2>1. i - 1 \in 1..Len(s) /\ d < i - 1 /\ (i - 1) - d = i - (d + 1) /\ i \in 2..(Len(s) + 1)
    BY <1>1, <1>3
  <2>2. n[(i - 1) - d] <= s[i - 1]
    BY <2>1 DEF Lag
  <2>3. (<<0>> \o s)[i] = s[i - 1]
    BY <2>1, NewestFirst
  <2>. QED
    BY <2>1, <2>2, <2>3
<1>. QED
  BY <1>1, <1>2, <1>3 DEF Lag

\* A delivery is recorded.
LEMMA LagRecorded ==
  ASSUME NEW w \in Nat, NEW s, NEW n, AgesOK(s, w), AgesOK(n, w),
         NEW d \in Nat, Lag(s, n, d + 1)
  PROVE  Lag(s, <<0>> \o n, d)
<1>1. /\ Len(s) \in Nat /\ Len(n) \in Nat /\ Len(<<0>> \o n) = Len(n) + 1
      /\ s \in [1..Len(s) -> 0..w]
  BY NewestFirst DEF AgesOK
<1>2. Len(s) <= Len(<<0>> \o n) + d
  BY <1>1 DEF Lag
<1>3. ASSUME NEW i \in 1..Len(s), d < i PROVE (<<0>> \o n)[i - d] <= s[i]
  <2>1. CASE i = d + 1
    <3>1. i - d = 1
      BY <2>1
    <3>2. (<<0>> \o n)[1] = 0
      BY NewestFirst
    <3>. QED
      BY <1>1, <3>1, <3>2
  <2>2. CASE i # d + 1
    <3>1. d + 1 < i /\ i - d \in 2..(Len(n) + 1) /\ (i - d) - 1 = i - (d + 1)
      BY <1>1, <1>3, <2>2 DEF Lag
    <3>2. n[i - (d + 1)] <= s[i]
      BY <3>1 DEF Lag
    <3>3. (<<0>> \o n)[i - d] = n[(i - d) - 1]
      BY <3>1, NewestFirst
    <3>. QED
      BY <3>1, <3>2, <3>3
  <2>. QED
    BY <2>1, <2>2
<1>. QED
  BY <1>2, <1>3 DEF Lag

\* A record leaves the window after its delivery did.
LEMMA LagOlder ==
  ASSUME NEW w \in Nat, NEW s, NEW n, AgesOK(s, w), AgesOK(n, w),
         NEW d \in Nat, Lag(s, n, d)
  PROVE  Lag(Older(s, w), Older(n, w), d)
<1>1. /\ Len(s) \in Nat /\ Len(n) \in Nat
      /\ s \in [1..Len(s) -> 0..w] /\ n \in [1..Len(n) -> 0..w]
  BY DEF AgesOK
<1>. DEFINE os == Older(s, w)
            on == Older(n, w)
<1>2. /\ Len(os) \in Nat /\ Len(on) \in Nat /\ Len(os) <= Len(s) /\ Len(on) <= Len(n)
      /\ \A i \in 1..Len(os) : os[i] = s[i] + 1
      /\ \A i \in 1..Len(on) : on[i] = n[i] + 1
      /\ \A i \in 1..Len(s) : i <= Len(os) <=> s[i] < w
      /\ \A i \in 1..Len(n) : i <= Len(on) <=> n[i] < w
  <2>1. AgesOK(os, w) /\ AgesOK(on, w)
    BY OlderPrefix
  <2>2. Len(os) \in Nat /\ Len(on) \in Nat
    BY <2>1 DEF AgesOK
  <2>. QED
    BY <2>2, OlderPrefix
<1>. HIDE DEF os, on
<1>3. ASSUME NEW i \in 1..Len(os), d < i PROVE i - d \in 1..Len(on) /\ on[i - d] <= os[i]
  <2>1. i \in 1..Len(s) /\ s[i] < w /\ os[i] = s[i] + 1
    BY <1>1, <1>2
  <2>2. i - d \in 1..Len(n) /\ n[i - d] <= s[i]
    BY <1>1, <1>3, <2>1 DEF Lag
  <2>3. n[i - d] \in Nat /\ s[i] \in Nat
    BY <1>1, <2>1, <2>2
  <2>4. n[i - d] < w
    BY <2>1, <2>2, <2>3
  <2>5. i - d \in 1..Len(on)
    BY <1>2, <2>2, <2>4
  <2>6. on[i - d] = n[i - d] + 1
    BY <1>2, <2>5
  <2>. QED
    BY <2>1, <2>2, <2>3, <2>5, <2>6
<1>4. Len(os) <= Len(on) + d
  <2>1. CASE d < Len(os)
    <3>1. Len(os) - d \in 1..Len(on)
      BY <1>2, <1>3, <2>1
    <3>. QED
      BY <1>2, <3>1
  <2>2. CASE ~(d < Len(os))
    BY <1>2, <2>2
  <2>. QED
    BY <2>1, <2>2
<1>5. Lag(os, on, d)
  BY <1>3, <1>4 DEF Lag
<1>. QED
  BY <1>5 DEF os, on

-----------------------------------------------------------------------------
(* The invariant *)

\* What a pass in state m has in hand.
Speaks(m, k) == m # NULL /\ m.at \in {"deciding", "delivered"} /\ m.key = k
Delivered(m, k) == m # NULL /\ m.at = "delivered" /\ m.key = k
Files(m, f) == m # NULL /\ m.at = "filing" /\ f \in m.unfiled
Keeps(m, r) == m # NULL /\ m.at \in {"dedup", "emitting"} /\ r \in m.kept

\* The runners that have it in hand.
Speakers(k) == {p \in Runners : Speaks(pass[p], k)}
Deliverers(k) == {p \in Runners : Delivered(pass[p], k)}
Filers(f) == {p \in Runners : Files(pass[p], f)}
Keepers(r) == {p \in Runners : Keeps(pass[p], r)}

\* TypeOK without the bounds on what the ledgers count.
WorldOK ==
  /\ job \in Jobs
  /\ stopping \in BOOLEAN
  /\ silence \in 0..DeadAt \cup {NULL}
  /\ left \in 0..(SoonAt + 1) \cup {NULL}
  /\ row \in [Tasks -> {"dispatched", "other"}]
  /\ runs \in [Tasks -> [Checks -> RunStates]]
PassOK == pass \in [Runners -> Passes \cup {NULL}]
FaultsOK == faults \in 0..MaxFaults
LedgerOK ==
  /\ said \in [Notices -> Seq(0..NoticeWindow)]
  /\ noted \in [Notices -> Seq(0..NoticeWindow)]
  /\ \A k \in Notices : AgesOK(said[k], NoticeWindow) /\ AgesOK(noted[k], NoticeWindow)
  /\ filed \in [Failures -> Nat]
  /\ proposed \in [Repos -> Seq(0..ProposalWindow)]
  /\ \A r \in Repos : AgesOK(proposed[r], ProposalWindow)

\* What is recorded, and what runners are about to record, is no more than one
\* record for each runner: who has it in hand found nothing recorded.
NoticesCounted ==
  \A k \in Notices : Len(noted[k]) + Cardinality(Speakers(k)) <= Cardinality(Runners)
FailuresCounted ==
  \A f \in Failures : filed[f] + Cardinality(Filers(f)) <= Cardinality(Runners)
ProposalsCounted ==
  \A r \in Repos : Len(proposed[r]) + Cardinality(Keepers(r)) <= Cardinality(Runners)

\* A delivery is on record, in the hands of its runner, or lost to a fault.
DeliveriesRecorded ==
  \A k \in Notices : Lag(said[k], noted[k], Cardinality(Deliverers(k)) + faults)

WatcherInv ==
  /\ WorldOK /\ PassOK /\ FaultsOK /\ LedgerOK
  /\ NoticesCounted /\ FailuresCounted /\ ProposalsCounted /\ DeliveriesRecorded

\* The invariant holds of the empty ledgers.
LEMMA WatcherInvInit == Init => WatcherInv
<1>. SUFFICES ASSUME Init PROVE WatcherInv
  OBVIOUS
<1>1. Cardinality(Runners) \in Nat
  BY WatcherConstants, FS_CardinalityType
<1>2. WorldOK
  BY WatcherConstants DEF Init, WorldOK, RunStates
<1>10. PassOK /\ FaultsOK
  BY WatcherConstants DEF Init, PassOK, FaultsOK
<1>3. \A w \in Nat : AgesOK(<<>>, w)
  BY DEF AgesOK
<1>4. LedgerOK
  BY <1>3, WatcherConstants DEF Init, LedgerOK
<1>5. /\ \A k : Speakers(k) = {} /\ Deliverers(k) = {}
      /\ \A f : Filers(f) = {}
      /\ \A r : Keepers(r) = {}
  BY DEF Init, Speakers, Deliverers, Filers, Keepers, Speaks, Delivered, Files, Keeps
<1>6. /\ \A k : Cardinality(Speakers(k)) = 0 /\ Cardinality(Deliverers(k)) = 0
      /\ \A f : Cardinality(Filers(f)) = 0
      /\ \A r : Cardinality(Keepers(r)) = 0
  BY <1>5, FS_EmptySet, Zenon
<1>7. NoticesCounted /\ FailuresCounted /\ ProposalsCounted
  <2>1. /\ \A k \in Notices : Len(noted[k]) = 0
        /\ \A r \in Repos : Len(proposed[r]) = 0
        /\ \A f \in Failures : filed[f] = 0
    BY DEF Init
  <2>. QED
    BY <1>1, <1>6, <2>1 DEF NoticesCounted, FailuresCounted, ProposalsCounted
<1>8. Lag(<<>>, <<>>, 0)
  BY DEF Lag
<1>9. DeliveriesRecorded
  <2>1. \A k \in Notices : said[k] = <<>> /\ noted[k] = <<>>
    BY DEF Init
  <2>2. faults = 0
    BY DEF Init
  <2>. QED
    BY <1>6, <1>8, <2>1, <2>2 DEF DeliveriesRecorded
<1>. QED
  BY <1>2, <1>4, <1>7, <1>9, <1>10 DEF WatcherInv

-----------------------------------------------------------------------------
(* A pass goes on *)

\* How the sets of runners follow the one that goes on.
LEMMA HandsMove ==
  ASSUME NEW p \in Runners, NEW m, PassOK, pass' = [pass EXCEPT ![p] = m]
  PROVE  /\ \A k \in Notices, q \in Runners \ {p} :
              /\ q \in Speakers(k) <=> q \in Speakers(k)'
              /\ q \in Deliverers(k) <=> q \in Deliverers(k)'
         /\ \A f \in Failures, q \in Runners \ {p} : q \in Filers(f) <=> q \in Filers(f)'
         /\ \A r \in Repos, q \in Runners \ {p} : q \in Keepers(r) <=> q \in Keepers(r)'
         /\ \A k \in Notices : /\ p \in Speakers(k) <=> Speaks(pass[p], k)
                               /\ p \in Speakers(k)' <=> Speaks(m, k)
                               /\ p \in Deliverers(k) <=> Delivered(pass[p], k)
                               /\ p \in Deliverers(k)' <=> Delivered(m, k)
         /\ \A f \in Failures : /\ p \in Filers(f) <=> Files(pass[p], f)
                                /\ p \in Filers(f)' <=> Files(m, f)
         /\ \A r \in Repos : /\ p \in Keepers(r) <=> Keeps(pass[p], r)
                             /\ p \in Keepers(r)' <=> Keeps(m, r)
<1>1. DOMAIN pass = Runners
  BY DEF PassOK
<1>2. pass'[p] = m /\ \A q \in Runners \ {p} : pass'[q] = pass[q]
  BY <1>1
<1>. QED
  BY <1>2 DEF Speakers, Deliverers, Filers, Keepers

\* The sizes of these sets are those of sets of runners.
LEMMA HandsFinite ==
  /\ Cardinality(Runners) \in Nat
  /\ \A k : /\ Cardinality(Speakers(k)) \in Nat
            /\ Cardinality(Deliverers(k)) \in Nat
            /\ Cardinality(Deliverers(k)) <= Cardinality(Speakers(k))
            /\ Cardinality(Deliverers(k)') \in Nat
  /\ \A f : Cardinality(Filers(f)) \in Nat
  /\ \A r : Cardinality(Keepers(r)) \in Nat
<1>1. IsFiniteSet(Runners)
  BY WatcherConstants
<1>2. \A k : /\ Speakers(k) \subseteq Runners /\ Deliverers(k) \subseteq Speakers(k)
             /\ Deliverers(k)' \subseteq Runners
  BY DEF Speakers, Deliverers, Speaks, Delivered
<1>3. /\ \A f : Filers(f) \subseteq Runners
      /\ \A r : Keepers(r) \subseteq Runners
  BY DEF Filers, Keepers
<1>4. \A k : /\ IsFiniteSet(Speakers(k)) /\ IsFiniteSet(Deliverers(k))
             /\ IsFiniteSet(Deliverers(k)')
             /\ Cardinality(Deliverers(k)) <= Cardinality(Speakers(k))
  BY <1>1, <1>2, FS_Subset
<1>5. /\ \A f : IsFiniteSet(Filers(f))
      /\ \A r : IsFiniteSet(Keepers(r))
  BY <1>1, <1>3, FS_Subset
<1>. QED
  BY <1>1, <1>4, <1>5, FS_CardinalityType

\* No runner takes up a notice, and none is recorded.
LEMMA NoticesKept ==
  ASSUME NEW p \in Runners, NEW m, PassOK, NoticesCounted,
         pass' = [pass EXCEPT ![p] = m], noted' = noted, LedgerOK,
         \A k \in Notices : Speaks(m, k) => Speaks(pass[p], k)
  PROVE  NoticesCounted'
<1>. SUFFICES ASSUME NEW k \in Notices
              PROVE  Len(noted[k]) + Cardinality(Speakers(k)') <= Cardinality(Runners)
  BY DEF NoticesCounted
<1>1. Speakers(k) \in SUBSET Runners /\ Speakers(k)' \in SUBSET Runners
  BY DEF Speakers
<1>2. Cardinality(Speakers(k)') <= Cardinality(Speakers(k))
      /\ Cardinality(Speakers(k)) \in Nat /\ Cardinality(Speakers(k)') \in Nat
  <2>1. \A q \in Runners \ {p} : q \in Speakers(k) <=> q \in Speakers(k)'
    BY HandsMove
  <2>2. p \in Speakers(k)' => p \in Speakers(k)
    BY HandsMove
  <2>. QED
    BY <1>1, <2>1, <2>2, OneMoves
<1>3. Len(noted[k]) \in Nat /\ Len(noted[k]) + Cardinality(Speakers(k)) <= Cardinality(Runners)
  BY DEF NoticesCounted, LedgerOK
<1>. QED
  BY <1>2, <1>3, HandsFinite

\* No runner takes up a failure, and none is recorded.
LEMMA FailuresKept ==
  ASSUME NEW p \in Runners, NEW m, PassOK, FailuresCounted,
         pass' = [pass EXCEPT ![p] = m], filed' = filed, LedgerOK,
         \A f \in Failures : Files(m, f) => Files(pass[p], f)
  PROVE  FailuresCounted'
<1>. SUFFICES ASSUME NEW f \in Failures
              PROVE  filed[f] + Cardinality(Filers(f)') <= Cardinality(Runners)
  BY DEF FailuresCounted
<1>1. Filers(f) \in SUBSET Runners /\ Filers(f)' \in SUBSET Runners
  BY DEF Filers
<1>2. Cardinality(Filers(f)') <= Cardinality(Filers(f))
      /\ Cardinality(Filers(f)) \in Nat /\ Cardinality(Filers(f)') \in Nat
  <2>1. \A q \in Runners \ {p} : q \in Filers(f) <=> q \in Filers(f)'
    BY HandsMove
  <2>2. p \in Filers(f)' => p \in Filers(f)
    BY HandsMove
  <2>. QED
    BY <1>1, <2>1, <2>2, OneMoves
<1>3. filed[f] \in Nat /\ filed[f] + Cardinality(Filers(f)) <= Cardinality(Runners)
  BY DEF FailuresCounted, LedgerOK
<1>. QED
  BY <1>2, <1>3, HandsFinite

\* No runner takes up a repository, and none is proposed.
LEMMA ProposalsKept ==
  ASSUME NEW p \in Runners, NEW m, PassOK, ProposalsCounted,
         pass' = [pass EXCEPT ![p] = m], proposed' = proposed, LedgerOK,
         \A r \in Repos : Keeps(m, r) => Keeps(pass[p], r)
  PROVE  ProposalsCounted'
<1>. SUFFICES ASSUME NEW r \in Repos
              PROVE  Len(proposed[r]) + Cardinality(Keepers(r)') <= Cardinality(Runners)
  BY DEF ProposalsCounted
<1>1. Keepers(r) \in SUBSET Runners /\ Keepers(r)' \in SUBSET Runners
  BY DEF Keepers
<1>2. Cardinality(Keepers(r)') <= Cardinality(Keepers(r))
      /\ Cardinality(Keepers(r)) \in Nat /\ Cardinality(Keepers(r)') \in Nat
  <2>1. \A q \in Runners \ {p} : q \in Keepers(r) <=> q \in Keepers(r)'
    BY HandsMove
  <2>2. p \in Keepers(r)' => p \in Keepers(r)
    BY HandsMove
  <2>. QED
    BY <1>1, <2>1, <2>2, OneMoves
<1>3. Len(proposed[r]) \in Nat /\ Len(proposed[r]) + Cardinality(Keepers(r)) <= Cardinality(Runners)
  BY DEF ProposalsCounted, LedgerOK
<1>. QED
  BY <1>2, <1>3, HandsFinite

\* No delivery leaves the hands of its runner, or a fault takes it.
LEMMA DeliveriesKept ==
  ASSUME NEW p \in Runners, NEW m, PassOK, FaultsOK, LedgerOK, DeliveriesRecorded,
         pass' = [pass EXCEPT ![p] = m], said' = said, noted' = noted,
         \/ faults' = faults + 1
         \/ /\ faults' = faults
            /\ \A k \in Notices : Delivered(pass[p], k) => Delivered(m, k)
  PROVE  DeliveriesRecorded'
<1>. SUFFICES ASSUME NEW k \in Notices
              PROVE  Lag(said[k], noted[k], Cardinality(Deliverers(k)') + faults')
  BY DEF DeliveriesRecorded
<1>1. Deliverers(k) \in SUBSET Runners /\ Deliverers(k)' \in SUBSET Runners
  BY DEF Deliverers
<1>2. \A q \in Runners \ {p} : q \in Deliverers(k) <=> q \in Deliverers(k)'
  BY HandsMove
<1>3. /\ Cardinality(Deliverers(k)) \in Nat /\ Cardinality(Deliverers(k)') \in Nat
      /\ Cardinality(Deliverers(k)) <= Cardinality(Deliverers(k)') + 1
      /\ (p \in Deliverers(k) => p \in Deliverers(k)') =>
            Cardinality(Deliverers(k)) <= Cardinality(Deliverers(k)')
  BY <1>1, <1>2, OneMoves
<1>4. /\ p \in Deliverers(k) <=> Delivered(pass[p], k)
      /\ p \in Deliverers(k)' <=> Delivered(m, k)
  BY HandsMove
<1>5. faults \in Nat
  BY WatcherConstants DEF FaultsOK
<1>6. /\ Cardinality(Deliverers(k)) + faults \in Nat
      /\ Cardinality(Deliverers(k)') + faults' \in Nat
      /\ Cardinality(Deliverers(k)) + faults <= Cardinality(Deliverers(k)') + faults'
  BY <1>3, <1>4, <1>5
<1>7. /\ AgesOK(said[k], NoticeWindow) /\ AgesOK(noted[k], NoticeWindow)
      /\ Lag(said[k], noted[k], Cardinality(Deliverers(k)) + faults)
      /\ NoticeWindow \in Nat
  BY WatcherConstants DEF LedgerOK, DeliveriesRecorded
<1>. QED
  BY <1>6, <1>7, LagGrows

\* A runner goes on, is done or is killed, takes up nothing new and writes nothing.
LEMMA QuietMove ==
  ASSUME WatcherInv, UNCHANGED world, UNCHANGED ledger,
         NEW p \in Runners, NEW m \in Passes \cup {NULL}, pass' = [pass EXCEPT ![p] = m],
         \A k \in Notices : Speaks(m, k) => Speaks(pass[p], k),
         \A f \in Failures : Files(m, f) => Files(pass[p], f),
         \A r \in Repos : Keeps(m, r) => Keeps(pass[p], r),
         faults' \in 0..MaxFaults,
         \/ faults' = faults + 1
         \/ /\ faults' = faults
            /\ \A k \in Notices : Delivered(pass[p], k) => Delivered(m, k)
  PROVE  WatcherInv'
<1>1. WorldOK' /\ LedgerOK' /\ FaultsOK'
  BY DEF WatcherInv, WorldOK, LedgerOK, FaultsOK, world, ledger
<1>2. PassOK'
  BY DEF WatcherInv, PassOK
<1>3. NoticesCounted'
  BY NoticesKept DEF WatcherInv, ledger
<1>4. FailuresCounted'
  BY FailuresKept DEF WatcherInv, ledger
<1>5. ProposalsCounted'
  BY ProposalsKept DEF WatcherInv, ledger
<1>6. DeliveriesRecorded'
  BY DeliveriesKept DEF WatcherInv, ledger
<1>. QED
  BY <1>1, <1>2, <1>3, <1>4, <1>5, <1>6 DEF WatcherInv

-----------------------------------------------------------------------------
(* deadman and oauth_watch *)

\* A runner decides on a notice of which nothing is recorded.
LEMMA DecideStep ==
  ASSUME WatcherInv, NEW p \in Runners, NEW k \in Notices, Decide(p, k)
  PROVE  WatcherInv'
<1>. DEFINE m == [at |-> "deciding", key |-> k]
<1>1. /\ pass[p] = NULL /\ noted[k] = <<>> /\ pass' = [pass EXCEPT ![p] = m]
      /\ UNCHANGED <<world, faults>> /\ UNCHANGED ledger
  BY DEF Decide, AlreadyNotifiedWithin, Goto
<1>2. m \in Passes
  BY DEF Passes
<1>3. /\ m.at = "deciding" /\ m.key = k
      /\ m # NULL
  BY <1>2, NoPass
<1>. HIDE DEF m
<1>4. WorldOK' /\ LedgerOK' /\ FaultsOK' /\ PassOK'
  BY <1>1, <1>2 DEF WatcherInv, WorldOK, LedgerOK, FaultsOK, PassOK, world, ledger
<1>5. NoticesCounted'
  <2>. SUFFICES ASSUME NEW j \in Notices
                PROVE  Len(noted[j]) + Cardinality(Speakers(j)') <= Cardinality(Runners)
    BY <1>1 DEF NoticesCounted, ledger
  <2>1. Speakers(j) \in SUBSET Runners /\ Speakers(j)' \in SUBSET Runners
    BY DEF Speakers
  <2>2. \A q \in Runners \ {p} : q \in Speakers(j) <=> q \in Speakers(j)'
    BY <1>1, HandsMove DEF WatcherInv
  <2>3. p \notin Speakers(j)
    BY <1>1 DEF Speakers, Speaks
  <2>4. p \in Speakers(j)' <=> Speaks(m, j)
    BY <1>1, HandsMove DEF WatcherInv
  <2>5. CASE j = k
    <3>1. Len(noted[j]) = 0
      BY <1>1, <2>5
    <3>2. /\ Cardinality(Speakers(j)') <= Cardinality(Speakers(j)) + 1
          /\ Cardinality(Speakers(j)) + 1 <= Cardinality(Runners)
          /\ Cardinality(Speakers(j)) \in Nat /\ Cardinality(Speakers(j)') \in Nat
      BY <2>1, <2>2, <2>3, OneMoves
    <3>. QED
      BY <3>1, <3>2, HandsFinite
  <2>6. CASE j # k
    <3>1. p \notin Speakers(j)'
      BY <1>3, <2>4, <2>6 DEF Speaks
    <3>2. Cardinality(Speakers(j)') = Cardinality(Speakers(j))
      BY <2>1, <2>2, <2>3, <3>1, OneMoves
    <3>. QED
      BY <3>2 DEF WatcherInv, NoticesCounted
  <2>. QED
    BY <2>5, <2>6
<1>6. FailuresCounted' /\ ProposalsCounted'
  <2>1. /\ \A f \in Failures : ~Files(m, f)
        /\ \A r \in Repos : ~Keeps(m, r)
    BY <1>3 DEF Files, Keeps
  <2>. QED
    BY <1>1, <2>1, FailuresKept, ProposalsKept DEF WatcherInv, ledger
<1>7. DeliveriesRecorded'
  <2>1. \A j \in Notices : ~Delivered(pass[p], j)
    BY <1>1 DEF Delivered
  <2>. QED
    BY <1>1, <2>1, DeliveriesKept DEF WatcherInv, ledger
<1>. QED
  BY <1>4, <1>5, <1>6, <1>7 DEF WatcherInv

\* The notice that a runner decided on or delivered.
LEMMA NoticeInHand ==
  ASSUME WatcherInv, NEW p \in Runners, At(p, "deciding") \/ At(p, "delivered")
  PROVE  /\ pass[p] \in [at : {"deciding", "delivered"}, key : Notices]
         /\ pass[p].key \in Notices /\ pass[p] # NULL
  BY DEF WatcherInv, PassOK, At, Passes

\* A runner delivers its notice.
LEMMA SendStep ==
  ASSUME WatcherInv, NEW p \in Runners, Send(p)
  PROVE  WatcherInv'
<1>. DEFINE m == [pass[p] EXCEPT !.at = "delivered"]
            k == pass[p].key
<1>1. /\ pass[p].at = "deciding"
      /\ pass[p] \in [at : {"deciding", "delivered"}, key : Notices]
      /\ k \in Notices /\ pass[p] # NULL
  BY NoticeInHand DEF Send, At
<1>2. /\ pass' = [pass EXCEPT ![p] = m]
      /\ said' = [said EXCEPT ![k] = <<0>> \o said[k]]
      /\ UNCHANGED <<world, faults>> /\ UNCHANGED <<noted, filed, proposed>>
  BY DEF Send, Goto, Now
<1>3. m \in Passes /\ m.at = "delivered" /\ m.key = k
  BY <1>1 DEF Passes
<1>4. m # NULL
  BY <1>3, NoPass
<1>. HIDE DEF m, k
<1>5. WorldOK' /\ FaultsOK' /\ PassOK'
  BY <1>2, <1>3 DEF WatcherInv, WorldOK, FaultsOK, PassOK, world
<1>6. \A j \in Notices : said'[j] = IF j = k THEN <<0>> \o said[k] ELSE said[j]
  BY <1>1, <1>2 DEF WatcherInv, LedgerOK
<1>7. LedgerOK'
  <2>1. AgesOK(<<0>> \o said[k], NoticeWindow)
    BY <1>1, NewestFirst, WatcherConstants DEF WatcherInv, LedgerOK
  <2>2. <<0>> \o said[k] \in Seq(0..NoticeWindow)
    BY <2>1 DEF AgesOK
  <2>3. said' \in [Notices -> Seq(0..NoticeWindow)]
    BY <1>1, <1>2, <2>2 DEF WatcherInv, LedgerOK
  <2>. QED
    BY <1>2, <1>6, <2>1, <2>3 DEF WatcherInv, LedgerOK
<1>8. NoticesCounted'
  <2>1. \A j \in Notices : Speaks(m, j) => Speaks(pass[p], j)
    BY <1>1, <1>3 DEF Speaks, k
  <2>. QED
    BY <1>2, <2>1, NoticesKept DEF WatcherInv
<1>9. FailuresCounted' /\ ProposalsCounted'
  <2>1. /\ \A f \in Failures : ~Files(m, f)
        /\ \A r \in Repos : ~Keeps(m, r)
    BY <1>3 DEF Files, Keeps
  <2>. QED
    BY <1>2, <2>1, FailuresKept, ProposalsKept DEF WatcherInv
<1>10. DeliveriesRecorded'
  <2>. SUFFICES ASSUME NEW j \in Notices
                PROVE  Lag(said'[j], noted[j], Cardinality(Deliverers(j)') + faults)
    BY <1>2 DEF DeliveriesRecorded
  <2>1. Deliverers(j) \in SUBSET Runners /\ Deliverers(j)' \in SUBSET Runners
    BY DEF Deliverers
  <2>2. /\ \A q \in Runners \ {p} : q \in Deliverers(j) <=> q \in Deliverers(j)'
        /\ p \in Deliverers(j)' <=> Delivered(m, j)
    BY <1>2, HandsMove DEF WatcherInv
  <2>3. p \notin Deliverers(j)
    BY <1>1 DEF Deliverers, Delivered
  <2>4. /\ Lag(said[j], noted[j], Cardinality(Deliverers(j)) + faults)
        /\ AgesOK(said[j], NoticeWindow) /\ AgesOK(noted[j], NoticeWindow)
    BY DEF WatcherInv, LedgerOK, DeliveriesRecorded
  <2>5. Cardinality(Deliverers(j)) \in Nat /\ faults \in Nat /\ NoticeWindow \in Nat
    BY HandsFinite, WatcherConstants DEF WatcherInv, FaultsOK
  <2>6. CASE j = k
    <3>1. p \in Deliverers(j)'
      BY <1>3, <1>4, <2>2, <2>6 DEF Delivered
    <3>2. Cardinality(Deliverers(j)') = Cardinality(Deliverers(j)) + 1
      BY <2>1, <2>2, <2>3, <3>1, OneMoves
    <3>3. Lag(<<0>> \o said[j], noted[j], (Cardinality(Deliverers(j)) + faults) + 1)
      BY <2>4, <2>5, LagDelivered
    <3>4. (Cardinality(Deliverers(j)) + faults) + 1 = Cardinality(Deliverers(j)') + faults
      BY <2>5, <3>2
    <3>5. said'[j] = <<0>> \o said[j]
      BY <1>6, <2>6
    <3>. QED
      BY <3>3, <3>4, <3>5
  <2>7. CASE j # k
    <3>1. p \notin Deliverers(j)'
      BY <1>3, <2>2, <2>7 DEF Delivered
    <3>2. Cardinality(Deliverers(j)') = Cardinality(Deliverers(j))
      BY <2>1, <2>2, <2>3, <3>1, OneMoves
    <3>3. said'[j] = said[j]
      BY <1>6, <2>7
    <3>. QED
      BY <2>4, <3>2, <3>3
  <2>. QED
    BY <2>6, <2>7
<1>. QED
  BY <1>5, <1>7, <1>8, <1>9, <1>10 DEF WatcherInv

\* A runner records its delivery.
LEMMA EmitNoticeStep ==
  ASSUME WatcherInv, NEW p \in Runners, EmitNotice(p)
  PROVE  WatcherInv'
<1>. DEFINE k == pass[p].key
<1>1. /\ pass[p].at = "delivered" /\ k \in Notices /\ pass[p] # NULL
  BY NoticeInHand DEF EmitNotice, At
<1>2. /\ pass' = [pass EXCEPT ![p] = NULL]
      /\ noted' = [noted EXCEPT ![k] = <<0>> \o noted[k]]
      /\ UNCHANGED <<world, faults>> /\ UNCHANGED <<said, filed, proposed>>
  BY DEF EmitNotice, EndPass, Goto, Now
<1>3. /\ Speaks(pass[p], k) /\ Delivered(pass[p], k)
      /\ \A j \in Notices : j # k => ~Speaks(pass[p], j) /\ ~Delivered(pass[p], j)
      /\ \A j \in Notices : ~Speaks(NULL, j) /\ ~Delivered(NULL, j)
      /\ \A f \in Failures : ~Files(NULL, f)
      /\ \A r \in Repos : ~Keeps(NULL, r)
  BY <1>1 DEF Speaks, Delivered, Files, Keeps
<1>. HIDE DEF k
<1>4. WorldOK' /\ FaultsOK' /\ PassOK'
  BY <1>2 DEF WatcherInv, WorldOK, FaultsOK, PassOK, world
<1>5. \A j \in Notices : noted'[j] = IF j = k THEN <<0>> \o noted[k] ELSE noted[j]
  BY <1>1, <1>2 DEF WatcherInv, LedgerOK
<1>6. /\ AgesOK(<<0>> \o noted[k], NoticeWindow)
      /\ Len(<<0>> \o noted[k]) = Len(noted[k]) + 1
  BY <1>1, NewestFirst, WatcherConstants DEF WatcherInv, LedgerOK
<1>7. LedgerOK'
  <2>1. <<0>> \o noted[k] \in Seq(0..NoticeWindow)
    BY <1>6 DEF AgesOK
  <2>2. noted' \in [Notices -> Seq(0..NoticeWindow)]
    BY <1>1, <1>2, <2>1 DEF WatcherInv, LedgerOK
  <2>. QED
    BY <1>2, <1>5, <1>6, <2>2 DEF WatcherInv, LedgerOK
<1>8. NoticesCounted'
  <2>. SUFFICES ASSUME NEW j \in Notices
                PROVE  Len(noted'[j]) + Cardinality(Speakers(j)') <= Cardinality(Runners)
    BY DEF NoticesCounted
  <2>1. Speakers(j) \in SUBSET Runners /\ Speakers(j)' \in SUBSET Runners
    BY DEF Speakers
  <2>2. /\ \A q \in Runners \ {p} : q \in Speakers(j) <=> q \in Speakers(j)'
        /\ p \notin Speakers(j)'
        /\ p \in Speakers(j) <=> j = k
    BY <1>2, <1>3, HandsMove DEF WatcherInv
  <2>3. /\ Cardinality(Speakers(j)) \in Nat /\ Cardinality(Speakers(j)') \in Nat
        /\ j = k => Cardinality(Speakers(j)') + 1 = Cardinality(Speakers(j))
        /\ j # k => Cardinality(Speakers(j)') = Cardinality(Speakers(j))
    BY <2>1, <2>2, OneMoves
  <2>4. Len(noted'[j]) = IF j = k THEN Len(noted[j]) + 1 ELSE Len(noted[j])
    BY <1>5, <1>6
  <2>5. /\ Len(noted[j]) \in Nat
        /\ Len(noted[j]) + Cardinality(Speakers(j)) <= Cardinality(Runners)
    BY DEF WatcherInv, LedgerOK, NoticesCounted
  <2>. QED
    BY <2>3, <2>4, <2>5, HandsFinite
<1>9. FailuresCounted' /\ ProposalsCounted'
  BY <1>2, <1>3, FailuresKept, ProposalsKept DEF WatcherInv
<1>10. DeliveriesRecorded'
  <2>. SUFFICES ASSUME NEW j \in Notices
                PROVE  Lag(said[j], noted'[j], Cardinality(Deliverers(j)') + faults)
    BY <1>2 DEF DeliveriesRecorded
  <2>1. Deliverers(j) \in SUBSET Runners /\ Deliverers(j)' \in SUBSET Runners
    BY DEF Deliverers
  <2>2. /\ \A q \in Runners \ {p} : q \in Deliverers(j) <=> q \in Deliverers(j)'
        /\ p \notin Deliverers(j)'
        /\ p \in Deliverers(j) <=> j = k
    BY <1>2, <1>3, HandsMove DEF WatcherInv
  <2>3. /\ Cardinality(Deliverers(j)) \in Nat /\ Cardinality(Deliverers(j)') \in Nat
        /\ j = k => Cardinality(Deliverers(j)') + 1 = Cardinality(Deliverers(j))
        /\ j # k => Cardinality(Deliverers(j)') = Cardinality(Deliverers(j))
    BY <2>1, <2>2, OneMoves
  <2>4. /\ Lag(said[j], noted[j], Cardinality(Deliverers(j)) + faults)
        /\ AgesOK(said[j], NoticeWindow) /\ AgesOK(noted[j], NoticeWindow)
    BY DEF WatcherInv, LedgerOK, DeliveriesRecorded
  <2>5. faults \in Nat /\ NoticeWindow \in Nat
    BY WatcherConstants DEF WatcherInv, FaultsOK
  <2>6. CASE j = k
    <3>1. Cardinality(Deliverers(j)) + faults = (Cardinality(Deliverers(j)') + faults) + 1
      BY <2>3, <2>5, <2>6
    <3>2. Lag(said[j], noted[j], (Cardinality(Deliverers(j)') + faults) + 1)
      BY <2>4, <3>1
    <3>3. Cardinality(Deliverers(j)') + faults \in Nat
      BY <2>3, <2>5
    <3>4. Lag(said[j], <<0>> \o noted[j], Cardinality(Deliverers(j)') + faults)
      BY <2>4, <2>5, <3>2, <3>3, LagRecorded
    <3>. QED
      BY <1>5, <2>6, <3>4
  <2>7. CASE j # k
    BY <1>5, <2>3, <2>4, <2>7
  <2>. QED
    BY <2>6, <2>7
<1>. QED
  BY <1>4, <1>7, <1>8, <1>9, <1>10 DEF WatcherInv

-----------------------------------------------------------------------------
(* ci_issue_filer *)

\* What a runner that files holds.
LEMMA FilingInHand ==
  ASSUME WatcherInv, NEW p \in Runners, At(p, "filing")
  PROVE  /\ pass[p] \in [at : {"filing"}, rows : SUBSET Tasks, unfiled : SUBSET Failures]
         /\ pass[p] # NULL /\ pass[p].at = "filing"
         /\ pass[p].rows \subseteq Tasks /\ pass[p].unfiled \subseteq Failures
  BY DEF WatcherInv, PassOK, At, Passes

\* What it goes on to hold.
LEMMA FilingGoesOn ==
  ASSUME NEW m \in [at : {"filing"}, rows : SUBSET Tasks, unfiled : SUBSET Failures]
  PROVE  /\ m \in Passes /\ m # NULL
         /\ \A k \in Notices : ~Speaks(m, k) /\ ~Delivered(m, k)
         /\ \A f \in Failures : Files(m, f) <=> f \in m.unfiled
         /\ \A r \in Repos : ~Keeps(m, r)
<1>1. m \in Passes
  BY DEF Passes
<1>2. m # NULL
  BY <1>1, NoPass
<1>. QED
  BY <1>1, <1>2 DEF Speaks, Delivered, Files, Keeps

\* The rows are loaded.
LEMMA LoadStep ==
  ASSUME WatcherInv, NEW p \in Runners, LoadDispatchedWithPR(p)
  PROVE  WatcherInv'
<1>. DEFINE m == [at |-> "filing", rows |-> {t \in Tasks : row[t] = "dispatched"}, unfiled |-> {}]
<1>1. /\ pass[p] = NULL /\ pass' = [pass EXCEPT ![p] = m]
      /\ UNCHANGED <<world, faults>> /\ UNCHANGED ledger
  BY DEF LoadDispatchedWithPR, Goto
<1>2. m \in [at : {"filing"}, rows : SUBSET Tasks, unfiled : SUBSET Failures] /\ m.unfiled = {}
  OBVIOUS
<1>. HIDE DEF m
<1>3. \A k \in Notices : ~Delivered(pass[p], k)
  BY <1>1 DEF Delivered
<1>4. faults \in 0..MaxFaults
  BY DEF WatcherInv, FaultsOK
<1>. QED
  BY <1>1, <1>2, <1>3, <1>4, FilingGoesOn, QuietMove

\* Only failures that nobody has filed are taken up.
LEMMA InspectStep ==
  ASSUME WatcherInv, NEW p \in Runners, NEW t \in Tasks,
         NEW failed \in SUBSET (Checks \cup {Rollup}), Inspect(p, t, failed),
         faults' \in 0..MaxFaults, faults' = faults \/ faults' = faults + 1
  PROVE  WatcherInv'
<1>. DEFINE m == [pass[p] EXCEPT !.rows = @ \ {t},
                                 !.unfiled = {f \in {t} \X failed : ~AlreadyFiled(f)}]
<1>1. /\ pass' = [pass EXCEPT ![p] = m]
      /\ UNCHANGED world /\ UNCHANGED ledger
  BY DEF Inspect
<1>2. /\ pass[p] \in [at : {"filing"}, rows : SUBSET Tasks, unfiled : SUBSET Failures]
      /\ pass[p] # NULL /\ pass[p].at = "filing" /\ pass[p].unfiled = {}
  BY FilingInHand DEF Inspect
<1>3. {t} \X failed \subseteq Failures
  BY DEF Failures
<1>4. /\ m \in [at : {"filing"}, rows : SUBSET Tasks, unfiled : SUBSET Failures]
      /\ \A f \in m.unfiled : filed[f] = 0
  <2>1. \A f \in Failures : filed[f] \in Nat
    BY DEF WatcherInv, LedgerOK
  <2>2. {f \in {t} \X failed : ~AlreadyFiled(f)} \in SUBSET Failures
    BY <1>3
  <2>3. \A f \in {g \in {t} \X failed : ~AlreadyFiled(g)} : filed[f] = 0
    BY <1>3, <2>1 DEF AlreadyFiled
  <2>. HIDE DEF AlreadyFiled, Inspect
  <2>. DEFINE u == {f \in {t} \X failed : ~AlreadyFiled(f)}
  <2>4. u \in SUBSET Failures /\ \A f \in u : filed[f] = 0
    BY <2>2, <2>3
  <2>5. m = [pass[p] EXCEPT !.rows = pass[p].rows \ {t}, !.unfiled = u]
    OBVIOUS
  <2>. HIDE DEF u, m
  <2>. QED
    BY <1>2, <2>4, <2>5
<1>. HIDE DEF m
<1>5. /\ \A k \in Notices : ~Delivered(pass[p], k)
      /\ \A f \in Failures : ~Files(pass[p], f)
  BY <1>2 DEF Delivered, Files
<1>6. PassOK' /\ WorldOK' /\ LedgerOK' /\ FaultsOK'
  BY <1>1, <1>4, FilingGoesOn DEF WatcherInv, PassOK, WorldOK, LedgerOK, FaultsOK, world, ledger
<1>7. NoticesCounted' /\ ProposalsCounted'
  BY <1>1, <1>4, FilingGoesOn, NoticesKept, ProposalsKept DEF WatcherInv, ledger
<1>8. DeliveriesRecorded'
  BY <1>1, <1>5, DeliveriesKept DEF WatcherInv, ledger
<1>9. FailuresCounted'
  <2>. SUFFICES ASSUME NEW f \in Failures
                PROVE  filed[f] + Cardinality(Filers(f)') <= Cardinality(Runners)
    BY <1>1 DEF FailuresCounted, ledger
  <2>1. Filers(f) \in SUBSET Runners /\ Filers(f)' \in SUBSET Runners
    BY DEF Filers
  <2>2. /\ \A q \in Runners \ {p} : q \in Filers(f) <=> q \in Filers(f)'
        /\ p \notin Filers(f)
        /\ p \in Filers(f)' <=> f \in m.unfiled
    BY <1>1, <1>4, <1>5, FilingGoesOn, HandsMove DEF WatcherInv
  <2>3. /\ Cardinality(Filers(f)) \in Nat /\ Cardinality(Filers(f)') \in Nat
        /\ Cardinality(Filers(f)) + 1 <= Cardinality(Runners)
        /\ f \in m.unfiled => Cardinality(Filers(f)') = Cardinality(Filers(f)) + 1
        /\ f \notin m.unfiled => Cardinality(Filers(f)') = Cardinality(Filers(f))
    BY <2>1, <2>2, OneMoves
  <2>4. /\ filed[f] \in Nat
        /\ filed[f] + Cardinality(Filers(f)) <= Cardinality(Runners)
        /\ f \in m.unfiled => filed[f] = 0
    BY <1>4 DEF WatcherInv, LedgerOK, FailuresCounted
  <2>. QED
    BY <2>3, <2>4, HandsFinite
<1>. QED
  BY <1>6, <1>7, <1>8, <1>9 DEF WatcherInv

\* Either way of listing the failures names check runs or stands for them.
LEMMA FailedRunsNamed ==
  ASSUME NEW rs \in [Checks -> RunStates]
  PROVE  /\ FailedRuns(rs) \in SUBSET (Checks \cup {Rollup})
         /\ FailedRunsFromStatus(rs) \in SUBSET (Checks \cup {Rollup})
  BY DEF FailedRuns, FailedRunsFromStatus

\* A row is inspected, by its runs or by its status.
LEMMA InspectSteps ==
  ASSUME WatcherInv, NEW p \in Runners, InspectPR(p) \/ InspectRollup(p)
  PROVE  WatcherInv'
<1>1. faults \in 0..MaxFaults /\ MaxFaults \in Nat /\ \A t \in Tasks : runs[t] \in [Checks -> RunStates]
  BY WatcherConstants DEF WatcherInv, FaultsOK, WorldOK
<1>2. CASE InspectPR(p)
  <2>1. PICK t \in Tasks : Inspect(p, t, FailedRuns(runs[t])) /\ UNCHANGED faults
    BY <1>2 DEF InspectPR
  <2>2. FailedRuns(runs[t]) \in SUBSET (Checks \cup {Rollup})
    BY <1>1, FailedRunsNamed
  <2>. QED
    BY <1>1, <2>1, <2>2, InspectStep
<1>3. CASE InspectRollup(p)
  <2>1. PICK t \in Tasks : Inspect(p, t, FailedRunsFromStatus(runs[t]))
    BY <1>3 DEF InspectRollup
  <2>2. FailedRunsFromStatus(runs[t]) \in SUBSET (Checks \cup {Rollup})
    BY <1>1, FailedRunsNamed
  <2>3. faults' = faults + 1 /\ faults' \in 0..MaxFaults
    BY <1>1, <1>3 DEF InspectRollup
  <2>. QED
    BY <2>1, <2>2, <2>3, InspectStep
<1>. QED
  BY <1>2, <1>3

\* A row is skipped.
LEMMA SkipStep ==
  ASSUME WatcherInv, NEW p \in Runners, SkipPR(p)
  PROVE  WatcherInv'
<1>1. PICK t \in pass[p].rows : pass' = [pass EXCEPT ![p].rows = @ \ {t}]
  BY DEF SkipPR
<1>. DEFINE m == [pass[p] EXCEPT !.rows = pass[p].rows \ {t}]
<1>2. /\ pass' = [pass EXCEPT ![p] = m]
      /\ UNCHANGED world /\ UNCHANGED ledger
  BY <1>1 DEF SkipPR
<1>3. /\ pass[p] \in [at : {"filing"}, rows : SUBSET Tasks, unfiled : SUBSET Failures]
      /\ pass[p] # NULL /\ pass[p].at = "filing" /\ pass[p].unfiled = {}
  BY FilingInHand DEF SkipPR
<1>4. /\ m \in [at : {"filing"}, rows : SUBSET Tasks, unfiled : SUBSET Failures]
      /\ m.unfiled = {}
  BY <1>3
<1>. HIDE DEF m
<1>5. faults' = faults + 1 /\ faults' \in 0..MaxFaults
  BY WatcherConstants DEF SkipPR, WatcherInv, FaultsOK
<1>. QED
  BY <1>2, <1>4, <1>5, FilingGoesOn, QuietMove

\* A failure is filed by the runner that has it in hand.
LEMMA FileStep ==
  ASSUME WatcherInv, NEW p \in Runners, FileFailure(p)
  PROVE  WatcherInv'
<1>1. PICK g \in pass[p].unfiled :
        /\ filed' = [filed EXCEPT ![g] = @ + 1]
        /\ Goto(p, [pass[p] EXCEPT !.unfiled = @ \ {g}])
  BY DEF FileFailure
<1>. DEFINE m == [pass[p] EXCEPT !.unfiled = pass[p].unfiled \ {g}]
<1>2. /\ pass' = [pass EXCEPT ![p] = m]
      /\ UNCHANGED <<world, faults>> /\ UNCHANGED <<said, noted, proposed>>
  BY <1>1 DEF FileFailure, Goto
<1>3. /\ pass[p] \in [at : {"filing"}, rows : SUBSET Tasks, unfiled : SUBSET Failures]
      /\ pass[p] # NULL /\ pass[p].at = "filing" /\ g \in Failures
  BY <1>1, FilingInHand DEF FileFailure
<1>4. /\ m \in [at : {"filing"}, rows : SUBSET Tasks, unfiled : SUBSET Failures]
      /\ m.unfiled = pass[p].unfiled \ {g}
  BY <1>3
<1>. HIDE DEF m
<1>5. /\ \A k \in Notices : ~Delivered(pass[p], k)
      /\ \A f \in Failures : Files(pass[p], f) <=> f \in pass[p].unfiled
  BY <1>3 DEF Delivered, Files
<1>6. \A f \in Failures : filed'[f] = IF f = g THEN filed[f] + 1 ELSE filed[f]
  BY <1>1, <1>3 DEF WatcherInv, LedgerOK
<1>7. filed' \in [Failures -> Nat]
  BY <1>1, <1>3 DEF WatcherInv, LedgerOK
<1>8. PassOK' /\ WorldOK' /\ LedgerOK' /\ FaultsOK'
  BY <1>2, <1>4, <1>7, FilingGoesOn DEF WatcherInv, PassOK, WorldOK, LedgerOK, FaultsOK, world
<1>9. NoticesCounted' /\ ProposalsCounted'
  BY <1>2, <1>4, FilingGoesOn, NoticesKept, ProposalsKept DEF WatcherInv
<1>10. DeliveriesRecorded'
  BY <1>2, <1>5, DeliveriesKept DEF WatcherInv
<1>11. FailuresCounted'
  <2>. SUFFICES ASSUME NEW f \in Failures
                PROVE  filed'[f] + Cardinality(Filers(f)') <= Cardinality(Runners)
    BY DEF FailuresCounted
  <2>1. Filers(f) \in SUBSET Runners /\ Filers(f)' \in SUBSET Runners
    BY DEF Filers
  <2>2. /\ \A q \in Runners \ {p} : q \in Filers(f) <=> q \in Filers(f)'
        /\ p \in Filers(f) <=> f \in pass[p].unfiled
        /\ p \in Filers(f)' <=> f \in pass[p].unfiled /\ f # g
    BY <1>2, <1>4, <1>5, FilingGoesOn, HandsMove DEF WatcherInv
  <2>3. /\ Cardinality(Filers(f)) \in Nat /\ Cardinality(Filers(f)') \in Nat
        /\ f = g => Cardinality(Filers(f)') + 1 = Cardinality(Filers(f))
        /\ f # g => Cardinality(Filers(f)') = Cardinality(Filers(f))
    BY <1>1, <2>1, <2>2, OneMoves
  <2>4. /\ filed[f] \in Nat
        /\ filed[f] + Cardinality(Filers(f)) <= Cardinality(Runners)
    BY DEF WatcherInv, LedgerOK, FailuresCounted
  <2>. QED
    BY <1>6, <2>3, <2>4, HandsFinite
<1>. QED
  BY <1>8, <1>9, <1>10, <1>11 DEF WatcherInv

\* A runner that ends its pass without writing anything.
LEMMA EndStep ==
  ASSUME WatcherInv, NEW p \in Runners, EndPass(p), UNCHANGED ledger,
         ~At(p, "delivered")
  PROVE  WatcherInv'
<1>1. pass' = [pass EXCEPT ![p] = NULL] /\ UNCHANGED <<world, faults>>
  BY DEF EndPass, Goto
<1>2. /\ \A k \in Notices : ~Speaks(NULL, k)
      /\ \A f \in Failures : ~Files(NULL, f)
      /\ \A r \in Repos : ~Keeps(NULL, r)
      /\ \A k \in Notices : ~Delivered(pass[p], k)
  BY DEF Speaks, Files, Keeps, Delivered, At
<1>3. faults \in 0..MaxFaults
  BY DEF WatcherInv, FaultsOK
<1>. QED
  BY <1>1, <1>2, <1>3, QuietMove

-----------------------------------------------------------------------------
(* auto_external *)

\* What a runner that scans holds.
LEMMA ScanInHand ==
  ASSUME WatcherInv, NEW p \in Runners
  PROVE  /\ At(p, "dedup") =>
              /\ pass[p] \in [at : {"dedup"}, left : SUBSET Repos, kept : SUBSET Repos]
              /\ pass[p] # NULL /\ pass[p].at = "dedup"
         /\ At(p, "emitting") =>
              /\ pass[p] \in [at : {"emitting"}, kept : SUBSET Repos]
              /\ pass[p] # NULL /\ pass[p].at = "emitting"
  BY DEF WatcherInv, PassOK, At, Passes

\* What it goes on to hold.
LEMMA ScanGoesOn ==
  ASSUME NEW m \in [at : {"dedup"}, left : SUBSET Repos, kept : SUBSET Repos]
                   \cup [at : {"emitting"}, kept : SUBSET Repos]
  PROVE  /\ m \in Passes /\ m # NULL
         /\ \A k \in Notices : ~Speaks(m, k) /\ ~Delivered(m, k)
         /\ \A f \in Failures : ~Files(m, f)
         /\ \A r \in Repos : Keeps(m, r) <=> r \in m.kept
<1>1. m \in Passes
  BY DEF Passes
<1>2. m # NULL
  BY <1>1, NoPass
<1>3. m.at \in {"dedup", "emitting"}
  OBVIOUS
<1>. QED
  BY <1>1, <1>2, <1>3 DEF Speaks, Delivered, Files, Keeps

\* A scan begins with nothing kept.
LEMMA BeginScanStep ==
  ASSUME WatcherInv, NEW p \in Runners, BeginScan(p)
  PROVE  WatcherInv'
<1>1. PICK found \in RunSources : Goto(p, [at |-> "dedup", left |-> found, kept |-> {}])
  BY DEF BeginScan
<1>. DEFINE m == [at |-> "dedup", left |-> found, kept |-> {}]
<1>2. /\ pass[p] = NULL /\ pass' = [pass EXCEPT ![p] = m]
      /\ UNCHANGED <<world, faults>> /\ UNCHANGED ledger
  BY <1>1 DEF BeginScan, Goto
<1>3. found \in SUBSET Repos
  BY DEF RunSources, Fetches, Fetch, RecentCommits
<1>4. m \in [at : {"dedup"}, left : SUBSET Repos, kept : SUBSET Repos] /\ m.kept = {}
  BY <1>3
<1>. HIDE DEF m
<1>5. \A k \in Notices : ~Delivered(pass[p], k)
  BY <1>2 DEF Delivered
<1>6. faults \in 0..MaxFaults
  BY DEF WatcherInv, FaultsOK
<1>. QED
  BY <1>2, <1>4, <1>5, <1>6, ScanGoesOn, QuietMove

\* A candidate is kept when nothing is on record for it.
LEMMA DedupStep ==
  ASSUME WatcherInv, NEW p \in Runners, DedupOne(p)
  PROVE  WatcherInv'
<1>1. PICK g \in pass[p].left, close \in DuplicateInWords :
        Goto(p, [pass[p] EXCEPT !.left = @ \ {g},
                                !.kept = IF Duplicate(g, close) THEN @ ELSE @ \cup {g}])
  BY DEF DedupOne
<1>2. /\ pass[p] \in [at : {"dedup"}, left : SUBSET Repos, kept : SUBSET Repos]
      /\ pass[p] # NULL /\ pass[p].at = "dedup" /\ g \in Repos
  BY <1>1, ScanInHand DEF DedupOne
<1>3. PICK u \in SUBSET Repos : u = IF Duplicate(g, close) THEN pass[p].kept ELSE pass[p].kept \cup {g}
  BY <1>2
<1>. DEFINE m == [pass[p] EXCEPT !.left = pass[p].left \ {g}, !.kept = u]
<1>4. /\ pass' = [pass EXCEPT ![p] = m]
      /\ UNCHANGED <<world, faults>> /\ UNCHANGED ledger
  BY <1>1, <1>3 DEF DedupOne, Goto
<1>5. /\ m \in [at : {"dedup"}, left : SUBSET Repos, kept : SUBSET Repos]
      /\ m.kept = u
  BY <1>2
<1>. HIDE DEF m
<1>6. \A r \in Repos : /\ r \in pass[p].kept => r \in u
                       /\ r \in u /\ r \notin pass[p].kept => r = g /\ proposed[r] = <<>>
  BY <1>3 DEF Duplicate, DuplicateInTime
<1>7. /\ \A k \in Notices : ~Delivered(pass[p], k)
      /\ \A r \in Repos : Keeps(pass[p], r) <=> r \in pass[p].kept
  BY <1>2 DEF Delivered, Keeps
<1>8. /\ m \in Passes
      /\ \A k \in Notices : ~Speaks(m, k)
      /\ \A f \in Failures : ~Files(m, f)
      /\ \A r \in Repos : Keeps(m, r) <=> r \in u
  BY <1>5, ScanGoesOn
<1>9. PassOK' /\ WorldOK' /\ LedgerOK' /\ FaultsOK'
  BY <1>4, <1>8 DEF WatcherInv, PassOK, WorldOK, LedgerOK, FaultsOK, world, ledger
<1>10. NoticesCounted' /\ FailuresCounted'
  BY <1>4, <1>8, NoticesKept, FailuresKept DEF WatcherInv, ledger
<1>11. DeliveriesRecorded'
  BY <1>4, <1>7, DeliveriesKept DEF WatcherInv, ledger
<1>12. ProposalsCounted'
  <2>. SUFFICES ASSUME NEW r \in Repos
                PROVE  Len(proposed[r]) + Cardinality(Keepers(r)') <= Cardinality(Runners)
    BY <1>4 DEF ProposalsCounted, ledger
  <2>1. Keepers(r) \in SUBSET Runners /\ Keepers(r)' \in SUBSET Runners
    BY DEF Keepers
  <2>2. /\ \A q \in Runners \ {p} : q \in Keepers(r) <=> q \in Keepers(r)'
        /\ p \in Keepers(r) <=> r \in pass[p].kept
        /\ p \in Keepers(r)' <=> r \in u
    BY <1>4, <1>7, <1>8, HandsMove DEF WatcherInv
  <2>3. /\ Len(proposed[r]) \in Nat
        /\ Len(proposed[r]) + Cardinality(Keepers(r)) <= Cardinality(Runners)
    BY DEF WatcherInv, LedgerOK, ProposalsCounted
  <2>4. CASE r \in u /\ r \notin pass[p].kept
    <3>1. Len(proposed[r]) = 0
      BY <1>6, <2>4
    <3>2. /\ Cardinality(Keepers(r)) \in Nat /\ Cardinality(Keepers(r)') \in Nat
          /\ Cardinality(Keepers(r)) + 1 <= Cardinality(Runners)
          /\ Cardinality(Keepers(r)') = Cardinality(Keepers(r)) + 1
      BY <2>1, <2>2, <2>4, OneMoves
    <3>. QED
      BY <3>1, <3>2, HandsFinite
  <2>5. CASE ~(r \in u /\ r \notin pass[p].kept)
    <3>1. Cardinality(Keepers(r)') = Cardinality(Keepers(r))
      BY <1>6, <2>1, <2>2, <2>5, OneMoves
    <3>. QED
      BY <2>3, <3>1
  <2>. QED
    BY <2>4, <2>5
<1>. QED
  BY <1>9, <1>10, <1>11, <1>12 DEF WatcherInv

\* The candidates that were kept are about to be emitted.
LEMMA DedupEndsStep ==
  ASSUME WatcherInv, NEW p \in Runners, DedupEnds(p)
  PROVE  WatcherInv'
<1>1. /\ pass[p] \in [at : {"dedup"}, left : SUBSET Repos, kept : SUBSET Repos]
      /\ pass[p] # NULL /\ pass[p].at = "dedup" /\ UNCHANGED ledger
  BY ScanInHand DEF DedupEnds
<1>2. CASE EndPass(p)
  BY <1>1, <1>2, EndStep DEF At
<1>3. CASE Goto(p, [at |-> "emitting", kept |-> pass[p].kept])
  <2>. DEFINE m == [at |-> "emitting", kept |-> pass[p].kept]
  <2>1. pass' = [pass EXCEPT ![p] = m] /\ UNCHANGED <<world, faults>>
    BY <1>3 DEF Goto
  <2>2. m \in [at : {"emitting"}, kept : SUBSET Repos] /\ m.kept = pass[p].kept
    BY <1>1
  <2>. HIDE DEF m
  <2>3. /\ \A k \in Notices : ~Delivered(pass[p], k)
        /\ \A r \in Repos : Keeps(pass[p], r) <=> r \in pass[p].kept
    BY <1>1 DEF Delivered, Keeps
  <2>4. faults \in 0..MaxFaults
    BY DEF WatcherInv, FaultsOK
  <2>. QED
    BY <1>1, <2>1, <2>2, <2>3, <2>4, ScanGoesOn, QuietMove
<1>. QED
  BY <1>2, <1>3 DEF DedupEnds

\* A proposal is written by a runner that keeps it.
LEMMA EmitExternalStep ==
  ASSUME WatcherInv, NEW p \in Runners, EmitExternal(p)
  PROVE  WatcherInv'
<1>1. PICK g \in pass[p].kept :
        /\ proposed' = Now(proposed, g)
        /\ IF pass[p].kept = {g} THEN EndPass(p)
                                 ELSE Goto(p, [pass[p] EXCEPT !.kept = @ \ {g}])
  BY DEF EmitExternal
<1>2. /\ pass[p] \in [at : {"emitting"}, kept : SUBSET Repos]
      /\ pass[p] # NULL /\ pass[p].at = "emitting" /\ g \in Repos
  BY <1>1, ScanInHand DEF EmitExternal
<1>3. PICK m : m = IF pass[p].kept = {g} THEN NULL
                                         ELSE [pass[p] EXCEPT !.kept = pass[p].kept \ {g}]
  OBVIOUS
<1>4. /\ pass' = [pass EXCEPT ![p] = m]
      /\ UNCHANGED <<world, faults>> /\ UNCHANGED <<said, noted, filed>>
      /\ proposed' = [proposed EXCEPT ![g] = <<0>> \o proposed[g]]
  BY <1>1, <1>3 DEF EmitExternal, EndPass, Goto, Now
<1>5. /\ m \in Passes \cup {NULL}
      /\ \A k \in Notices : ~Speaks(m, k)
      /\ \A f \in Failures : ~Files(m, f)
      /\ \A r \in Repos : Keeps(m, r) <=> r \in pass[p].kept /\ r # g
  <2>1. CASE pass[p].kept = {g}
    BY <1>3, <2>1 DEF Speaks, Files, Keeps
  <2>2. CASE pass[p].kept # {g}
    <3>1. /\ m \in [at : {"emitting"}, kept : SUBSET Repos]
          /\ m.kept = pass[p].kept \ {g}
      BY <1>2, <1>3, <2>2
    <3>. QED
      BY <3>1, ScanGoesOn
  <2>. QED
    BY <2>1, <2>2
<1>6. /\ \A k \in Notices : ~Delivered(pass[p], k)
      /\ \A r \in Repos : Keeps(pass[p], r) <=> r \in pass[p].kept
  BY <1>2 DEF Delivered, Keeps
<1>7. \A r \in Repos : proposed'[r] = IF r = g THEN <<0>> \o proposed[g] ELSE proposed[r]
  BY <1>2, <1>4 DEF WatcherInv, LedgerOK
<1>8. /\ AgesOK(<<0>> \o proposed[g], ProposalWindow)
      /\ Len(<<0>> \o proposed[g]) = Len(proposed[g]) + 1
  BY <1>2, NewestFirst, WatcherConstants DEF WatcherInv, LedgerOK
<1>9. LedgerOK'
  <2>1. <<0>> \o proposed[g] \in Seq(0..ProposalWindow)
    BY <1>8 DEF AgesOK
  <2>2. proposed' \in [Repos -> Seq(0..ProposalWindow)]
    BY <1>2, <1>4, <2>1 DEF WatcherInv, LedgerOK
  <2>. QED
    BY <1>4, <1>7, <1>8, <2>2 DEF WatcherInv, LedgerOK
<1>10. PassOK' /\ WorldOK' /\ FaultsOK'
  BY <1>4, <1>5 DEF WatcherInv, PassOK, WorldOK, FaultsOK, world
<1>11. NoticesCounted' /\ FailuresCounted'
  BY <1>4, <1>5, NoticesKept, FailuresKept DEF WatcherInv
<1>12. DeliveriesRecorded'
  BY <1>4, <1>6, DeliveriesKept DEF WatcherInv
<1>13. ProposalsCounted'
  <2>. SUFFICES ASSUME NEW r \in Repos
                PROVE  Len(proposed'[r]) + Cardinality(Keepers(r)') <= Cardinality(Runners)
    BY DEF ProposalsCounted
  <2>1. Keepers(r) \in SUBSET Runners /\ Keepers(r)' \in SUBSET Runners
    BY DEF Keepers
  <2>2. /\ \A q \in Runners \ {p} : q \in Keepers(r) <=> q \in Keepers(r)'
        /\ p \in Keepers(r) <=> r \in pass[p].kept
        /\ p \in Keepers(r)' <=> r \in pass[p].kept /\ r # g
    BY <1>4, <1>5, <1>6, HandsMove DEF WatcherInv
  <2>3. /\ Cardinality(Keepers(r)) \in Nat /\ Cardinality(Keepers(r)') \in Nat
        /\ r = g => Cardinality(Keepers(r)') + 1 = Cardinality(Keepers(r))
        /\ r # g => Cardinality(Keepers(r)') = Cardinality(Keepers(r))
    BY <1>1, <2>1, <2>2, OneMoves
  <2>4. Len(proposed'[r]) = IF r = g THEN Len(proposed[r]) + 1 ELSE Len(proposed[r])
    BY <1>7, <1>8
  <2>5. /\ Len(proposed[r]) \in Nat
        /\ Len(proposed[r]) + Cardinality(Keepers(r)) <= Cardinality(Runners)
    BY DEF WatcherInv, LedgerOK, ProposalsCounted
  <2>. QED
    BY <2>3, <2>4, <2>5, HandsFinite
<1>. QED
  BY <1>9, <1>10, <1>11, <1>12, <1>13 DEF WatcherInv

-----------------------------------------------------------------------------
(* Everything else *)

\* A runner is killed; what it had in hand is lost.
LEMMA CrashStep ==
  ASSUME WatcherInv, NEW p \in Runners, Crash(p)
  PROVE  WatcherInv'
<1>1. /\ pass' = [pass EXCEPT ![p] = NULL] /\ faults' = faults + 1
      /\ UNCHANGED world /\ UNCHANGED ledger
  BY DEF Crash
<1>2. faults' \in 0..MaxFaults
  BY WatcherConstants DEF Crash, WatcherInv, FaultsOK
<1>3. /\ \A k \in Notices : ~Speaks(NULL, k)
      /\ \A f \in Failures : ~Files(NULL, f)
      /\ \A r \in Repos : ~Keeps(NULL, r)
  BY DEF Speaks, Files, Keeps
<1>. QED
  BY <1>1, <1>2, <1>3, QuietMove

\* The level of a silence and the status of a time left are notices.
LEMMA NoticesNamed ==
  /\ \A t : LevelFor(t) \in Notices \cup {NULL}
  /\ \A t : StatusFor(t) \in Notices \cup {NULL}
  BY DEF LevelFor, StatusFor, Notices, Levels, Statuses

\* Every step of a runner keeps the invariant.
LEMMA RunnerStep ==
  ASSUME WatcherInv, NEW p \in Runners,
         PassStep(p) \/ SkipPR(p) \/ InspectRollup(p) \/ Crash(p)
  PROVE  WatcherInv'
<1>1. CASE RunDeadman(p)
  <2>1. Decide(p, LevelFor(silence)) /\ LevelFor(silence) \in Notices
    BY <1>1, NoticesNamed DEF RunDeadman, Decide
  <2>2. PICK k \in Notices : Decide(p, k)
    BY <2>1
  <2>. QED
    BY <2>2, DecideStep
<1>2. CASE CheckCredentials(p)
  <2>1. Decide(p, StatusFor(left)) /\ StatusFor(left) \in Notices
    BY <1>2, NoticesNamed DEF CheckCredentials, Decide
  <2>2. PICK k \in Notices : Decide(p, k)
    BY <2>1
  <2>. QED
    BY <2>2, DecideStep
<1>3. CASE Send(p)
  BY <1>3, SendStep
<1>4. CASE EmitNotice(p)
  BY <1>4, EmitNoticeStep
<1>5. CASE LoadDispatchedWithPR(p)
  BY <1>5, LoadStep
<1>6. CASE InspectPR(p) \/ InspectRollup(p)
  BY <1>6, InspectSteps
<1>7. CASE FileFailure(p)
  BY <1>7, FileStep
<1>8. CASE FilingEnds(p)
  <2>1. ~At(p, "delivered") /\ EndPass(p) /\ UNCHANGED ledger
    BY <1>8 DEF FilingEnds, At
  <2>. QED
    BY <2>1, EndStep
<1>9. CASE BeginScan(p)
  BY <1>9, BeginScanStep
<1>10. CASE DedupOne(p)
  BY <1>10, DedupStep
<1>11. CASE DedupEnds(p)
  BY <1>11, DedupEndsStep
<1>12. CASE EmitExternal(p)
  BY <1>12, EmitExternalStep
<1>13. CASE SkipPR(p)
  BY <1>13, SkipStep
<1>14. CASE Crash(p)
  BY <1>14, CrashStep
<1>. QED
  BY <1>1, <1>2, <1>3, <1>4, <1>5, <1>6, <1>7, <1>8, <1>9, <1>10, <1>11, <1>12, <1>13, <1>14
     DEF PassStep, NoticeStep, FilerStep, ScanStep

\* A step that leaves runners, ledgers and faults alone.
LEMMA OutsideStep ==
  ASSUME WatcherInv, UNCHANGED ledger, UNCHANGED pass, UNCHANGED faults, WorldOK'
  PROVE  WatcherInv'
<1>1. /\ \A k : Speakers(k)' = Speakers(k) /\ Deliverers(k)' = Deliverers(k)
      /\ \A f : Filers(f)' = Filers(f)
      /\ \A r : Keepers(r)' = Keepers(r)
  BY DEF Speakers, Deliverers, Filers, Keepers
<1>2. PassOK' /\ FaultsOK' /\ LedgerOK'
  BY DEF WatcherInv, PassOK, FaultsOK, LedgerOK, ledger
<1>3. NoticesCounted' /\ FailuresCounted' /\ ProposalsCounted' /\ DeliveriesRecorded'
  BY <1>1 DEF WatcherInv, NoticesCounted, FailuresCounted, ProposalsCounted,
              DeliveriesRecorded, ledger
<1>. QED
  BY <1>2, <1>3 DEF WatcherInv

\* The engine, GitHub and the operator.
LEMMA WorldSteps ==
  ASSUME WatcherInv, WorldStep
  PROVE  WatcherInv'
<1>1. UNCHANGED ledger /\ UNCHANGED pass /\ UNCHANGED faults
  BY DEF WorldStep, Dispatched, Authenticate, RowChanges, CheckRuns, StopOrResume
<1>2. SUFFICES WorldOK'
  BY <1>1, OutsideStep
<1>3. WorldOK
  BY DEF WatcherInv
<1>4. CASE Dispatched
  BY <1>3, <1>4, WatcherConstants DEF Dispatched, WorldOK
<1>5. CASE Authenticate
  BY <1>3, <1>5, WatcherConstants DEF Authenticate, WorldOK
<1>6. CASE RowChanges
  BY <1>3, <1>6 DEF RowChanges, WorldOK
<1>7. CASE CheckRuns
  <2>1. PICK t \in Tasks, c \in Checks, s \in RunStates : runs' = [runs EXCEPT ![t][c] = s]
    BY <1>7 DEF CheckRuns
  <2>2. [runs[t] EXCEPT ![c] = s] \in [Checks -> RunStates]
    BY <1>3 DEF WorldOK
  <2>3. runs' = [runs EXCEPT ![t] = [runs[t] EXCEPT ![c] = s]]
    BY <2>1
  <2>4. runs' \in [Tasks -> [Checks -> RunStates]]
    BY <1>3, <2>2, <2>3 DEF WorldOK
  <2>. QED
    BY <1>3, <1>7, <2>4 DEF CheckRuns, WorldOK
<1>8. CASE StopOrResume
  BY <1>3, <1>8 DEF StopOrResume, WorldOK
<1>. QED
  BY <1>4, <1>5, <1>6, <1>7, <1>8 DEF WorldStep

\* Time passes: every ledger forgets what is too old.
LEMMA TickStep ==
  ASSUME WatcherInv, Tick
  PROVE  WatcherInv'
<1>. DEFINE S(k) == Older(said[k], NoticeWindow)
            N(k) == Older(noted[k], NoticeWindow)
            P(r) == Older(proposed[r], ProposalWindow)
<1>1. /\ said' = [k \in Notices |-> S(k)]
      /\ noted' = [k \in Notices |-> N(k)]
      /\ proposed' = [r \in Repos |-> P(r)]
      /\ UNCHANGED <<job, stopping, row, runs, filed, pass, faults>>
  BY DEF Tick
<1>2. /\ NoticeWindow \in Nat /\ ProposalWindow \in Nat
      /\ \A k \in Notices : AgesOK(said[k], NoticeWindow) /\ AgesOK(noted[k], NoticeWindow)
      /\ \A r \in Repos : AgesOK(proposed[r], ProposalWindow)
  BY WatcherConstants DEF WatcherInv, LedgerOK
<1>3. /\ \A k \in Notices : /\ AgesOK(S(k), NoticeWindow) /\ AgesOK(N(k), NoticeWindow)
                            /\ Len(N(k)) <= Len(noted[k])
      /\ \A r \in Repos : AgesOK(P(r), ProposalWindow) /\ Len(P(r)) <= Len(proposed[r])
  BY <1>2, OlderPrefix
<1>4. ASSUME NEW k \in Notices, NEW d \in Nat, Lag(said[k], noted[k], d)
      PROVE  Lag(S(k), N(k), d)
  BY <1>2, <1>4, LagOlder
<1>. HIDE DEF S, N, P
<1>5. /\ \A k : Speakers(k)' = Speakers(k) /\ Deliverers(k)' = Deliverers(k)
      /\ \A f : Filers(f)' = Filers(f)
      /\ \A r : Keepers(r)' = Keepers(r)
  BY <1>1 DEF Speakers, Deliverers, Filers, Keepers
<1>6. WorldOK'
  <2>1. WorldOK
    BY DEF WatcherInv
  <2>2. silence' \in 0..DeadAt \cup {NULL} /\ left' \in 0..(SoonAt + 1) \cup {NULL}
    BY <2>1, WatcherConstants DEF Tick, WorldOK
  <2>. QED
    BY <1>1, <2>1, <2>2 DEF WorldOK
<1>7. PassOK' /\ FaultsOK'
  BY <1>1 DEF WatcherInv, PassOK, FaultsOK
<1>8. LedgerOK'
  <2>1. /\ \A k \in Notices : S(k) \in Seq(0..NoticeWindow) /\ N(k) \in Seq(0..NoticeWindow)
        /\ \A r \in Repos : P(r) \in Seq(0..ProposalWindow)
    BY <1>3 DEF AgesOK
  <2>. QED
    BY <1>1, <1>3, <2>1 DEF WatcherInv, LedgerOK
<1>9. NoticesCounted'
  <2>. SUFFICES ASSUME NEW k \in Notices
                PROVE  Len(N(k)) + Cardinality(Speakers(k)) <= Cardinality(Runners)
    BY <1>1, <1>5 DEF NoticesCounted
  <2>1. /\ Len(N(k)) \in Nat /\ Len(noted[k]) \in Nat /\ Len(N(k)) <= Len(noted[k])
        /\ Len(noted[k]) + Cardinality(Speakers(k)) <= Cardinality(Runners)
    BY <1>2, <1>3 DEF WatcherInv, NoticesCounted, AgesOK
  <2>. QED
    BY <2>1, HandsFinite
<1>10. ProposalsCounted'
  <2>. SUFFICES ASSUME NEW r \in Repos
                PROVE  Len(P(r)) + Cardinality(Keepers(r)) <= Cardinality(Runners)
    BY <1>1, <1>5 DEF ProposalsCounted
  <2>1. /\ Len(P(r)) \in Nat /\ Len(proposed[r]) \in Nat /\ Len(P(r)) <= Len(proposed[r])
        /\ Len(proposed[r]) + Cardinality(Keepers(r)) <= Cardinality(Runners)
    BY <1>2, <1>3 DEF WatcherInv, ProposalsCounted, AgesOK
  <2>. QED
    BY <2>1, HandsFinite
<1>11. FailuresCounted'
  BY <1>1, <1>5 DEF WatcherInv, FailuresCounted
<1>12. DeliveriesRecorded'
  <2>. SUFFICES ASSUME NEW k \in Notices
                PROVE  Lag(S(k), N(k), Cardinality(Deliverers(k)) + faults)
    BY <1>1, <1>5 DEF DeliveriesRecorded
  <2>1. Cardinality(Deliverers(k)) + faults \in Nat
    BY HandsFinite, WatcherConstants DEF WatcherInv, FaultsOK
  <2>. QED
    BY <1>4, <2>1 DEF WatcherInv, DeliveriesRecorded
<1>. QED
  BY <1>6, <1>7, <1>8, <1>9, <1>10, <1>11, <1>12 DEF WatcherInv

\* The invariant is inductive.
LEMMA WatcherInvNext == WatcherInv /\ [Next]_vars => WatcherInv'
<1>. SUFFICES ASSUME WatcherInv, [Next]_vars PROVE WatcherInv'
  OBVIOUS
<1>1. CASE Tick
  BY <1>1, TickStep
<1>2. CASE WorldStep
  BY <1>2, WorldSteps
<1>3. CASE \E p \in Runners : PassStep(p) \/ SkipPR(p) \/ InspectRollup(p) \/ Crash(p)
  BY <1>3, RunnerStep
<1>4. CASE UNCHANGED vars
  <2>1. UNCHANGED ledger /\ UNCHANGED pass /\ UNCHANGED faults
    BY <1>4 DEF vars, ledger
  <2>2. WorldOK'
    BY <1>4 DEF WatcherInv, WorldOK, vars
  <2>. QED
    BY <2>1, <2>2, OutsideStep
<1>. QED
  BY <1>1, <1>2, <1>3, <1>4 DEF Next

\* The invariant holds in every state.
LEMMA WatcherInvHolds == Spec => []WatcherInv
  BY WatcherInvInit, WatcherInvNext, PTL DEF Spec

-----------------------------------------------------------------------------
(* Theorems *)

\* What the invariant says of the lengths of the ledgers.
LEMMA LedgersBounded ==
  ASSUME WatcherInv
  PROVE  /\ \A k \in Notices : /\ Len(said[k]) \in Nat /\ Len(noted[k]) \in Nat
                               /\ Len(noted[k]) <= Cardinality(Runners)
                               /\ Len(said[k]) <= Cardinality(Runners) + faults
         /\ \A f \in Failures : filed[f] \in 0..Cardinality(Runners)
         /\ \A r \in Repos : /\ Len(proposed[r]) \in Nat
                             /\ Len(proposed[r]) <= Cardinality(Runners)
<1>1. faults \in Nat
  BY WatcherConstants DEF WatcherInv, FaultsOK
<1>2. ASSUME NEW k \in Notices
      PROVE  /\ Len(said[k]) \in Nat /\ Len(noted[k]) \in Nat
             /\ Len(noted[k]) <= Cardinality(Runners)
             /\ Len(said[k]) <= Cardinality(Runners) + faults
  <2>1. Len(said[k]) \in Nat /\ Len(noted[k]) \in Nat
    BY DEF WatcherInv, LedgerOK
  <2>2. Len(noted[k]) + Cardinality(Speakers(k)) <= Cardinality(Runners)
    BY DEF WatcherInv, NoticesCounted
  <2>3. Len(said[k]) <= Len(noted[k]) + (Cardinality(Deliverers(k)) + faults)
    BY DEF WatcherInv, DeliveriesRecorded, Lag
  <2>. QED
    BY <1>1, <2>1, <2>2, <2>3, HandsFinite
<1>3. ASSUME NEW f \in Failures PROVE filed[f] \in 0..Cardinality(Runners)
  <2>1. filed[f] \in Nat /\ filed[f] + Cardinality(Filers(f)) <= Cardinality(Runners)
    BY DEF WatcherInv, LedgerOK, FailuresCounted
  <2>. QED
    BY <2>1, HandsFinite
<1>4. ASSUME NEW r \in Repos
      PROVE  Len(proposed[r]) \in Nat /\ Len(proposed[r]) <= Cardinality(Runners)
  <2>1. /\ Len(proposed[r]) \in Nat
        /\ Len(proposed[r]) + Cardinality(Keepers(r)) <= Cardinality(Runners)
    BY DEF WatcherInv, LedgerOK, ProposalsCounted
  <2>. QED
    BY <2>1, HandsFinite
<1>. QED
  BY <1>2, <1>3, <1>4

\* Nothing is said, filed or proposed more often within its window than there are
\* runners, plus once for each runner that was killed between saying it and
\* recording it (deadman.py:249, ci_issue_filer.py:236, dedup.py:339).
THEOREM RepeatsCorrect == Spec => []RepeatsAreBounded
<1>1. WatcherInv => RepeatsAreBounded
  BY LedgersBounded, HandsFinite DEF RepeatsAreBounded
<1>. QED
  BY <1>1, WatcherInvHolds, PTL

\* A sequence of bounded length, as the community modules have it.
LEMMA BoundedAges ==
  ASSUME NEW w \in Nat, NEW s \in Seq(0..w), NEW b \in Nat, Len(s) <= b
  PROVE  s \in BoundedSeq(0..w, b)
<1>1. Len(s) \in 0..b /\ s \in [1..Len(s) -> 0..w]
  OBVIOUS
<1>. QED
  BY <1>1 DEF BoundedSeq, SeqOf

\* The types, with the bounds on all that the ledgers count.
THEOREM WatcherTypeCorrect == Spec => []TypeOK
<1>1. ASSUME WatcherInv PROVE TypeOK
  <2>1. /\ Cardinality(Runners) \in Nat /\ faults \in 0..MaxFaults /\ MaxFaults \in Nat
        /\ NoticeWindow \in Nat /\ ProposalWindow \in Nat
    BY <1>1, HandsFinite, WatcherConstants DEF WatcherInv, FaultsOK
  <2>. DEFINE b == Cardinality(Runners) + MaxFaults
  <2>2. /\ b \in Nat
        /\ \A k \in Notices : Len(said[k]) <= b /\ Len(noted[k]) <= b
        /\ \A r \in Repos : Len(proposed[r]) <= b
    BY <1>1, <2>1, LedgersBounded
  <2>3. /\ \A k \in Notices : /\ said[k] \in Seq(0..NoticeWindow)
                              /\ noted[k] \in Seq(0..NoticeWindow)
        /\ \A r \in Repos : proposed[r] \in Seq(0..ProposalWindow)
    BY <1>1 DEF WatcherInv, LedgerOK
  <2>. HIDE DEF b
  <2>4. /\ \A k \in Notices : /\ said[k] \in BoundedSeq(0..NoticeWindow, b)
                              /\ noted[k] \in BoundedSeq(0..NoticeWindow, b)
        /\ \A r \in Repos : proposed[r] \in BoundedSeq(0..ProposalWindow, b)
    BY <2>1, <2>2, <2>3, BoundedAges
  <2>5. /\ said \in [Notices -> BoundedSeq(0..NoticeWindow, b)]
        /\ noted \in [Notices -> BoundedSeq(0..NoticeWindow, b)]
        /\ proposed \in [Repos -> BoundedSeq(0..ProposalWindow, b)]
    BY <1>1, <2>4 DEF WatcherInv, LedgerOK
  <2>6. filed \in [Failures -> 0..Cardinality(Runners)]
    BY <1>1, LedgersBounded DEF WatcherInv, LedgerOK
  <2>. QED
    BY <1>1, <2>5, <2>6 DEF TypeOK, Ages, WatcherInv, WorldOK, PassOK, FaultsOK, b
<1>. QED
  BY <1>1, WatcherInvHolds, PTL
===============================================================================
