----------------------------- MODULE Live_proofs -----------------------------
(* What holds of the evidence that reaches the page, for a log of any length *)
(* and pages and rings of any size, and of the turns of Claude, for any      *)
(* number of them. EvidenceInv relates what the page has to the log, FeedInv *)
(* adds where it may have holes; both are inductive.                         *)
EXTENDS EventFeed, ClaudeSessions, FiniteSetTheorems, SequenceTheorems, WellFoundedInduction,
        TLAPS

(* The log, and what was read of it.                                         *)
(* Parts of a log: some of its numbers, with the events they stand for.      *)
Excerpts(l) == {[q \in D |-> l[q]] : D \in SUBSET (1..Len(l))}
Logs        == {l \in Seq(Nat) : Len(l) <= MaxEvents}
Pages(l)    == {r \in [st : {"idle", "asked", "answered"}, cursor : 0..Len(l), page : Seq(Nat)] :
                  /\ r.cursor + Len(r.page) <= Len(l)
                  /\ \A i \in 1..Len(r.page) : r.page[i] = l[r.cursor + i]}
Views(l)    == [events : Excerpts(l), pend : Excerpts(l), base : (0..Len(l)) \cup {None},
                owned : BOOLEAN, status : {"unknown", "recovering", "incomplete", "live"},
                exp : (1..(Len(l) + 1)) \cup {None}, rcv : 0..None, req : Pages(l), vain : Nat]

EvidenceInv ==
    /\ log \in Logs /\ made \in Nat /\ Len(log) <= made
    /\ frames \in Seq(Nat \X Nat)
    /\ \A i \in 1..Len(frames) : frames[i][1] \in 1..Len(log) /\ frames[i][2] = log[frames[i][1]]
    /\ lastSeq \in 0..Len(log)
    /\ fetch \in Pages(log) /\ view \in Views(log)

LEMMA NoneIsNumber == MaxEvents \in Nat /\ None \in Nat /\ None = MaxEvents + 1 /\ Page \in Nat \ {0}
  BY FeedAssumption DEF None

LEMMA InExcerpts ==
    ASSUME NEW l
    PROVE  /\ \A f \in Excerpts(l) : /\ DOMAIN f \subseteq 1..Len(l)
                                     /\ \A q \in DOMAIN f : f[q] = l[q]
                                     /\ f = [q \in DOMAIN f |-> f[q]]
           /\ \A D \in SUBSET (1..Len(l)) : [q \in D |-> l[q]] \in Excerpts(l)
           /\ NoEvents \in Excerpts(l)
  <1>1. \A D \in SUBSET (1..Len(l)) : [q \in D |-> l[q]] \in Excerpts(l)
    BY DEF Excerpts
  <1>2. NoEvents = [q \in {} |-> l[q]]
    BY DEF NoEvents
  <1>3. ASSUME NEW f \in Excerpts(l)
        PROVE  /\ DOMAIN f \subseteq 1..Len(l) /\ \A q \in DOMAIN f : f[q] = l[q]
               /\ f = [q \in DOMAIN f |-> f[q]]
    BY <1>3 DEF Excerpts
  <1> QED BY <1>1, <1>2, <1>3

LEMMA IsExcerpt ==
    ASSUME NEW l, NEW f, f = [q \in DOMAIN f |-> f[q]], DOMAIN f \subseteq 1..Len(l),
           \A q \in DOMAIN f : f[q] = l[q]
    PROVE  f \in Excerpts(l)
  <1>1. f = [q \in DOMAIN f |-> l[q]]
    OBVIOUS
  <1> QED BY <1>1, InExcerpts

LEMMA MergeExcerpts ==
    ASSUME NEW l, NEW f \in Excerpts(l), NEW g \in Excerpts(l)
    PROVE  /\ Overlay(f, g) \in Excerpts(l) /\ DOMAIN Overlay(f, g) = DOMAIN f \cup DOMAIN g
           /\ Newest(f) \in Excerpts(l) /\ Merge(f, g) \in Excerpts(l)
  <1>1. ASSUME NEW h \in Excerpts(l) PROVE Newest(h) \in Excerpts(l)
    <2> DEFINE D == {n \in DOMAIN h : Cardinality({m \in DOMAIN h : m > n}) < Ring}
    <2>1. Newest(h) = [q \in D |-> h[q]] /\ D \subseteq DOMAIN h
      BY DEF Newest
    <2> HIDE DEF D
    <2>2. D \subseteq 1..Len(l) /\ \A q \in D : h[q] = l[q]
      BY <2>1, InExcerpts
    <2> QED BY <2>1, <2>2, IsExcerpt
  <1>2. Overlay(f, g) \in Excerpts(l) /\ DOMAIN Overlay(f, g) = DOMAIN f \cup DOMAIN g
    <2>1. /\ DOMAIN Overlay(f, g) = DOMAIN f \cup DOMAIN g
          /\ \A q \in DOMAIN f \cup DOMAIN g : Overlay(f, g)[q] = IF q \in DOMAIN f THEN f[q] ELSE g[q]
          /\ Overlay(f, g) = [q \in DOMAIN Overlay(f, g) |-> Overlay(f, g)[q]]
      BY DEF Overlay
    <2>2. \A q \in DOMAIN Overlay(f, g) : q \in 1..Len(l) /\ Overlay(f, g)[q] = l[q]
      BY <2>1, InExcerpts
    <2> QED BY <2>1, <2>2, IsExcerpt
  <1> QED BY <1>1, <1>2 DEF Merge

LEMMA SingleExcerpt ==
    ASSUME NEW l \in Logs, NEW q \in 1..Len(l)
    PROVE  [n \in {q} |-> l[q]] \in Excerpts(l)
  <1>1. [n \in {q} |-> l[q]] = [n \in {q} |-> l[n]]
    OBVIOUS
  <1> QED BY <1>1, InExcerpts

(* A set of numbers with a bound has a greatest.                             *)
LEMMA LeastNumber ==
    ASSUME NEW T, T \subseteq Nat, T # {}
    PROVE  \E k \in T : \A y \in T : k <= y
  <1>1. PICK k \in T : \A y \in T : ~(<<y, k>> \in OpToRel(<, Nat))
    <2>1. IsWellFoundedOn(OpToRel(<, Nat), Nat)
      BY NatLessThanWellFounded
    <2> QED BY <2>1, WFMin
  <1>2. ASSUME NEW y \in T, ~(k <= y) PROVE FALSE
    <2>1. <<y, k>> \in Nat \X Nat /\ <<y, k>>[1] < <<y, k>>[2]
      BY <1>2
    <2>2. <<y, k>> \in OpToRel(<, Nat)
      BY <2>1 DEF OpToRel
    <2> QED BY <2>2, <1>1
  <1> QED BY <1>2

LEMMA MaxOfBounded ==
    ASSUME NEW n \in Nat, NEW S \in SUBSET (0..n), S # {}
    PROVE  Max(S) \in S /\ \A y \in S : y <= Max(S)
  <1> DEFINE T == {b \in Nat : \A y \in S : y <= b}
  <1>1. n \in T
    OBVIOUS
  <1>2. PICK b \in T : \A y \in T : ~(<<y, b>> \in OpToRel(<, Nat))
    <2>1. IsWellFoundedOn(OpToRel(<, Nat), Nat)
      BY NatLessThanWellFounded
    <2>2. T \subseteq Nat /\ T # {}
      BY <1>1
    <2> HIDE DEF T
    <2> QED BY <2>1, <2>2, WFMin
  <1>3. \A y \in T : b <= y
    <2> SUFFICES ASSUME NEW y \in T, y < b PROVE FALSE
      OBVIOUS
    <2>1. <<y, b>> \in Nat \X Nat /\ <<y, b>>[1] < <<y, b>>[2]
      OBVIOUS
    <2>2. <<y, b>> \in OpToRel(<, Nat)
      BY <2>1 DEF OpToRel
    <2> QED BY <2>2, <1>2
  <1>4. b \in S
    <2> SUFFICES ASSUME b \notin S PROVE FALSE
      OBVIOUS
    <2>1. PICK y \in S : TRUE
      OBVIOUS
    <2>2. b - 1 \in T
      BY <2>1
    <2> QED BY <2>2, <1>3
  <1>5. \A y \in S : b >= y
    OBVIOUS
  <1> QED BY <1>4, <1>5 DEF Max

LEMMA HighestIsIn ==
    ASSUME NEW l \in Logs, NEW f \in Excerpts(l)
    PROVE  /\ Highest(f) \in 0..Len(l) /\ Highest(f) \in DOMAIN f \cup {0}
           /\ \A q \in DOMAIN f : q <= Highest(f)
           /\ HighestKey(f) \in 0..None
  <1>1. Len(l) \in Nat /\ DOMAIN f \cup {0} \in SUBSET (0..Len(l)) /\ Len(l) <= MaxEvents
    BY InExcerpts DEF Logs
  <1>2. Highest(f) \in DOMAIN f \cup {0} /\ \A y \in DOMAIN f \cup {0} : y <= Highest(f)
    BY <1>1, MaxOfBounded DEF Highest
  <1> QED BY <1>1, <1>2, NoneIsNumber DEF HighestKey

LEMMA AskIsPage == ASSUME NEW l \in Logs, NEW c \in 0..Len(l) PROVE Ask(c) \in Pages(l) /\ Idle \in Pages(l)
  <1>1. Len(l) \in Nat
    BY DEF Logs
  <1>2. Ask(c) \in [st : {"idle", "asked", "answered"}, cursor : 0..Len(l), page : Seq(Nat)]
        /\ Ask(c).cursor = c /\ Ask(c).page = <<>>
    BY <1>1 DEF Ask
  <1>3. Idle \in [st : {"idle", "asked", "answered"}, cursor : 0..Len(l), page : Seq(Nat)]
        /\ Idle.cursor = 0 /\ Idle.page = <<>>
    BY <1>1 DEF Idle
  <1> QED BY <1>1, <1>2, <1>3 DEF Pages

LEMMA ClosedView == ASSUME NEW l \in Logs, NEW v \in Views(l) PROVE ViewClosed(v) \in Views(l)
  <1>1. NoEvents \in Excerpts(l) /\ None \in 0..None
    BY InExcerpts, NoneIsNumber
  <1> QED BY <1>1 DEF ViewClosed, Views

LEMMA StartedView ==
    ASSUME NEW l \in Logs, NEW v \in Views(l), NEW base \in 0..Len(l)
    PROVE  StartRecovery(v, base) \in Views(l)
  <1>1. /\ Ask(base) \in Pages(l) /\ base + 1 \in 1..(Len(l) + 1)
        /\ HighestKey(v.pend) \in 0..None
    BY AskIsPage, HighestIsIn DEF Logs, Views
  <1> DEFINE w == [v EXCEPT !.owned = FALSE, !.status = "recovering", !.exp = base + 1,
                   !.rcv = HighestKey(v.pend), !.base = base, !.req = Ask(base), !.vain = 0]
  <1>2. w \in Views(l)
    BY <1>1 DEF Views
  <1> HIDE DEF w
  <1>3. StartRecovery(v, base) \in {v, w}
    BY DEF StartRecovery, w
  <1> QED BY <1>2, <1>3

LEMMA KeptView ==
    ASSUME NEW l \in Logs, NEW v \in Views(l), NEW q \in 1..Len(l)
    PROVE  Keep(v, q, l[q]) \in Views(l)
  <1> DEFINE f == Overlay([n \in {q} |-> l[q]], v.pend)
  <1>1. f \in Excerpts(l)
    BY SingleExcerpt, MergeExcerpts DEF Views
  <1>2. Keep(v, q, l[q]) = [v EXCEPT !.pend = f]
    BY DEF Keep
  <1> HIDE DEF f
  <1> QED BY <1>1, <1>2 DEF Views

LEMMA ExtendedView ==
    ASSUME NEW l \in Logs, NEW v \in Views(l), NEW q \in 1..Len(l)
    PROVE  Extend(v, q, l[q]) \in Views(l)
  <1> DEFINE f == Merge(v.events, [n \in {q} |-> l[q]])
             w == [v EXCEPT !.events = f]
  <1>1. f \in Excerpts(l)
    BY SingleExcerpt, MergeExcerpts DEF Views
  <1> HIDE DEF f
  <1>2. w \in Views(l)
    BY <1>1 DEF Views
  <1>3. ViewClosed(w) \in Views(l)
    BY <1>2, ClosedView
  <1>4. [w EXCEPT !.status = "live"] \in Views(l)
    BY <1>2 DEF Views
  <1> HIDE DEF w
  <1> QED BY <1>2, <1>3, <1>4 DEF Extend, w, f

LEMMA AppliedEvent ==
    ASSUME NEW l \in Logs, NEW v \in Views(l), NEW q \in 1..Len(l)
    PROVE  ApplyEvent(v, q, l[q]) \in Views(l)
  <1> DEFINE w == Keep(v, q, l[q])
             z == [w EXCEPT !.status = "recovering", !.rcv = Highest(w.pend)]
             base == IF v.base # None THEN v.base ELSE Highest(v.events)
  <1>1. w \in Views(l)
    BY KeptView
  <1> HIDE DEF w
  <1>2. z \in Views(l)
    <2>1. Highest(w.pend) \in 0..Len(l) /\ Len(l) \in Nat /\ Len(l) <= MaxEvents
      BY <1>1, HighestIsIn DEF Views, Logs
    <2>2. Highest(w.pend) \in 0..None
      BY <2>1, NoneIsNumber
    <2> QED BY <1>1, <2>2 DEF Views
  <1>3. base \in 0..Len(l)
    BY HighestIsIn DEF Views
  <1> HIDE DEF base, z
  <1>4. StartRecovery(w, base) \in Views(l)
    BY <1>1, <1>3, StartedView
  <1>5. Extend(v, q, l[q]) \in Views(l)
    BY ExtendedView
  <1>6. ApplyEvent(v, q, l[q]) \in {v, z, StartRecovery(w, base), Extend(v, q, l[q])}
    BY DEF ApplyEvent, z, base, w
  <1> QED BY <1>2, <1>4, <1>5, <1>6

(* A page is applied event by event: the views on the way, by recursion.     *)
LEMMA PagePath ==
    ASSUME NEW l \in Logs, NEW v \in Views(l), NEW r \in Pages(l)
    PROVE  \E w : /\ w[0] = v /\ w[Len(r.page)] = ApplyPage(v, r)
                  /\ \A i \in 0..Len(r.page) : w[i] \in Views(l)
                  /\ \A i \in 1..Len(r.page) :
                        /\ r.cursor + i \in 1..Len(l)
                        /\ w[i] = ApplyEvent(w[i - 1], r.cursor + i, l[r.cursor + i])
  <1> DEFINE Path(w, n) == w = [i \in 0..n |-> IF i = 0 THEN v
                                   ELSE ApplyEvent(w[i - 1], r.cursor + i, r.page[i])]
             Good(n) == /\ \E w : Path(w, n)
                        /\ \A w : Path(w, n) => \A i \in 0..n : w[i] \in Views(l)
             len == Len(r.page)
             after == CHOOSE w : Path(w, len)
  <1>1. len \in Nat /\ \A i \in 1..len : r.cursor + i \in 1..Len(l) /\ r.page[i] = l[r.cursor + i]
    BY DEF Pages, Logs
  <1>2. Good(0)
    <2>1. Path([i \in 0..0 |-> v], 0)
      OBVIOUS
    <2>2. ASSUME NEW w, Path(w, 0) PROVE \A i \in 0..0 : w[i] \in Views(l)
      <3>1. w[0] = v
        BY <2>2
      <3>2. \A i \in 0..0 : i = 0
        OBVIOUS
      <3> QED BY <3>1, <3>2
    <2> QED BY <2>1, <2>2
  <1>3. ASSUME NEW n \in Nat, n < len, Good(n) PROVE Good(n + 1)
    <2>1. \A w : Path(w, n + 1) => Path([i \in 0..n |-> w[i]], n)
      OBVIOUS
    <2>2. ASSUME NEW w, Path(w, n + 1) PROVE \A i \in 0..(n + 1) : w[i] \in Views(l)
      <3>1. \A i \in 0..n : w[i] \in Views(l)
        <4> DEFINE w1 == [i \in 0..n |-> w[i]]
        <4>1. Path(w1, n) /\ \A i \in 0..n : w1[i] = w[i]
          BY <2>1, <2>2, <1>3
        <4> HIDE DEF w1, Path
        <4> QED BY <4>1, <1>3
      <3>2. w[n + 1] = ApplyEvent(w[n], r.cursor + (n + 1), r.page[n + 1])
        BY <2>2
      <3>3. n + 1 \in 1..len
        BY <1>1, <1>3
      <3>4. w[n + 1] \in Views(l)
        BY <3>1, <3>2, <3>3, <1>1, AppliedEvent
      <3> QED BY <3>1, <3>4
    <2>3. PICK w : Path(w, n)
      BY <1>3
    <2> DEFINE w2 == [i \in 0..(n + 1) |-> IF i = n + 1
                        THEN ApplyEvent(w[n], r.cursor + (n + 1), r.page[n + 1]) ELSE w[i]]
    <2>4. Path(w2, n + 1)
      BY <2>3
    <2> QED BY <2>2, <2>4
  <1>4. Good(len)
    <2> SUFFICES ASSUME ~Good(len) PROVE FALSE
      OBVIOUS
    <2> DEFINE T == {n \in 0..len : ~Good(n)}
    <2>1. PICK k \in T : \A y \in T : k <= y
      <3> HIDE DEF Good
      <3>1. T \subseteq Nat /\ len \in T
        BY <1>1
      <3> HIDE DEF T
      <3> QED BY <3>1, LeastNumber
    <2>2. k \in Nat /\ k # 0 /\ k <= len /\ ~Good(k)
      <3> HIDE DEF Good
      <3> QED BY <1>1, <1>2
    <2>3. Good(k - 1) /\ k - 1 \in Nat /\ k - 1 < len /\ (k - 1) + 1 = k
      <3> HIDE DEF Good
      <3>1. k - 1 \in 0..len /\ ~(k <= k - 1)
        BY <2>2, <1>1
      <3> QED BY <2>1, <2>2, <3>1, <1>1
    <2> HIDE DEF Good, T
    <2> QED BY <2>2, <2>3, <1>3
  <1>5. Path(after, len)
    BY <1>4
  <1>6. ApplyPage(v, r) = after[len]
    BY DEF ApplyPage
  <1> HIDE DEF after
  <1>7. after[0] = v /\ \A i \in 1..len :
           after[i] = ApplyEvent(after[i - 1], r.cursor + i, r.page[i])
    BY <1>1, <1>5
  <1>8. \A i \in 0..len : after[i] \in Views(l)
    <2> HIDE DEF Path
    <2> QED BY <1>4, <1>5
  <1> HIDE DEF Path
  <1> QED BY <1>1, <1>6, <1>7, <1>8

LEMMA AppliedPage ==
    ASSUME NEW l \in Logs, NEW v \in Views(l), NEW r \in Pages(l)
    PROVE  ApplyPage(v, r) \in Views(l)
  <1>1. Len(r.page) \in 0..Len(r.page)
    BY DEF Pages
  <1> QED BY <1>1, PagePath

LEMMA ReachIsContiguous ==
    ASSUME NEW l \in Logs, NEW f \in Excerpts(l), NEW from \in 0..Len(l)
    PROVE  /\ Reach(f, from) \in from..Len(l)
           /\ (from + 1)..Reach(f, from) \subseteq DOMAIN f /\ Reach(f, from) + 1 \notin DOMAIN f
  <1> DEFINE T == {n \in Nat : from <= n /\ n + 1 \notin DOMAIN f}
  <1>1. Len(l) \in Nat /\ Len(l) <= MaxEvents /\ DOMAIN f \subseteq 1..Len(l)
    BY InExcerpts DEF Logs
  <1>2. Len(l) \in T
    BY <1>1
  <1>3. PICK k \in T : \A y \in T : ~(<<y, k>> \in OpToRel(<, Nat))
    <2>1. IsWellFoundedOn(OpToRel(<, Nat), Nat)
      BY NatLessThanWellFounded
    <2>2. T \subseteq Nat /\ T # {}
      BY <1>2
    <2> HIDE DEF T
    <2> QED BY <2>1, <2>2, WFMin
  <1>4. \A y \in T : k <= y
    <2> SUFFICES ASSUME NEW y \in T, y < k PROVE FALSE
      OBVIOUS
    <2>1. <<y, k>> \in Nat \X Nat /\ <<y, k>>[1] < <<y, k>>[2]
      OBVIOUS
    <2>2. <<y, k>> \in OpToRel(<, Nat)
      BY <2>1 DEF OpToRel
    <2> QED BY <2>2, <1>3
  <1>5. k \in from..Len(l) /\ k + 1 \notin DOMAIN f
    BY <1>1, <1>2, <1>4
  <1>6. (from + 1)..k \subseteq DOMAIN f
    <2> SUFFICES ASSUME NEW i \in (from + 1)..k, i \notin DOMAIN f PROVE FALSE
      OBVIOUS
    <2>1. i - 1 \in T
      BY <1>1
    <2> QED BY <2>1, <1>4
  <1>7. k \in from..MaxEvents
    BY <1>1, <1>5, NoneIsNumber
  <1>8. \A n \in from..MaxEvents : (from + 1)..n \subseteq DOMAIN f /\ n + 1 \notin DOMAIN f => n = k
    <2> SUFFICES ASSUME NEW n \in from..MaxEvents, (from + 1)..n \subseteq DOMAIN f,
                        n + 1 \notin DOMAIN f
                 PROVE  n = k
      OBVIOUS
    <2>1. k <= n
      BY <1>1, <1>4, NoneIsNumber
    <2>2. ~(k + 1 \in (from + 1)..n)
      BY <1>5
    <2> QED BY <2>1, <2>2, <1>1, <1>5, NoneIsNumber
  <1>9. Reach(f, from) = k
    BY <1>5, <1>6, <1>7, <1>8 DEF Reach
  <1> QED BY <1>5, <1>6, <1>9

(* What a recovery shows comes from its page and from what was kept.         *)
LEMMA RecoveredView ==
    ASSUME NEW l \in Logs, NEW v \in Views(l)
    PROVE  Recovered(v) \in Views(l)
  <1> DEFINE req  == v.req
             new  == [q \in {req.cursor + i : i \in 1..Len(req.page)} |-> req.page[q - req.cursor]]
             all  == Overlay(new, v.pend)
             upto == Reach(all, req.cursor)
             rest == [q \in {n \in DOMAIN all : n > upto \/ n <= req.cursor} |-> all[q]]
             vain == IF upto = req.cursor THEN v.vain + 1 ELSE 0
             part == [q \in (req.cursor + 1)..upto |-> all[q]]
             w    == [v EXCEPT !.pend = rest, !.req = Ask(upto), !.vain = vain,
                               !.events = Merge(@, part)]
  <1>1. /\ req \in Pages(l) /\ req.cursor \in 0..Len(l) /\ v.pend \in Excerpts(l)
        /\ v.events \in Excerpts(l) /\ Len(l) \in Nat /\ Len(l) <= MaxEvents
    BY DEF Views, Pages, Logs
  <1>2. new \in Excerpts(l)
    <2>1. /\ DOMAIN new = {req.cursor + i : i \in 1..Len(req.page)}
          /\ \A q \in DOMAIN new : new[q] = req.page[q - req.cursor]
          /\ new = [q \in DOMAIN new |-> new[q]]
      OBVIOUS
    <2>2. ASSUME NEW i \in 1..Len(req.page)
          PROVE  /\ req.cursor + i \in 1..Len(l) /\ (req.cursor + i) - req.cursor = i
                 /\ req.page[i] = l[req.cursor + i]
      BY <1>1 DEF Pages
    <2>3. \A q \in DOMAIN new : q \in 1..Len(l) /\ new[q] = l[q]
      BY <2>1, <2>2
    <2> HIDE DEF new
    <2> QED BY <2>1, <2>3, IsExcerpt
  <1>3. all \in Excerpts(l)
    <2> HIDE DEF new
    <2> QED BY <1>1, <1>2, MergeExcerpts
  <1> HIDE DEF all, new
  <1>4. /\ upto \in req.cursor..Len(l) /\ (req.cursor + 1)..upto \subseteq DOMAIN all
    BY <1>1, <1>3, ReachIsContiguous
  <1> HIDE DEF upto
  <1>5. rest \in Excerpts(l)
    <2>1. DOMAIN rest \subseteq 1..Len(l) /\ \A q \in DOMAIN rest : rest[q] = l[q]
      BY <1>3, InExcerpts
    <2>2. rest = [q \in DOMAIN rest |-> rest[q]]
      OBVIOUS
    <2> HIDE DEF rest
    <2> QED BY <2>1, <2>2, IsExcerpt
  <1>6. part \in Excerpts(l)
    <2>1. DOMAIN part \subseteq 1..Len(l) /\ \A q \in DOMAIN part : part[q] = l[q]
      BY <1>3, <1>4, InExcerpts
    <2>2. part = [q \in DOMAIN part |-> part[q]]
      OBVIOUS
    <2> HIDE DEF part
    <2> QED BY <2>1, <2>2, IsExcerpt
  <1>7. vain \in Nat
    BY DEF Views
  <1> HIDE DEF rest, part, vain
  <1>8. Merge(v.events, part) \in Excerpts(l) /\ Ask(upto) \in Pages(l) /\ Idle \in Pages(l)
    <2>1. upto \in 0..Len(l)
      BY <1>1, <1>4
    <2>2. Ask(upto) \in Pages(l) /\ Idle \in Pages(l)
      BY <2>1, AskIsPage
    <2> QED BY <1>1, <1>6, <2>2, MergeExcerpts
  <1>9. w \in Views(l)
    BY <1>5, <1>7, <1>8 DEF Views
  <1> HIDE DEF w
  <1>10. [ViewClosed(w) EXCEPT !.req = Idle] \in Views(l)
    <2>1. ViewClosed(w) \in Views(l)
      BY <1>9, ClosedView
    <2> QED BY <2>1, <1>8 DEF Views
  <1>11. [w EXCEPT !.req = Idle, !.status = "incomplete", !.exp = upto + 1,
                   !.rcv = Max({upto} \cup DOMAIN rest)] \in Views(l)
    <2>1. upto + 1 \in 1..(Len(l) + 1)
      BY <1>1, <1>4
    <2>2. Max({upto} \cup DOMAIN rest) \in 0..None
      <3>1. {upto} \cup DOMAIN rest \in SUBSET (0..Len(l)) /\ {upto} \cup DOMAIN rest # {}
        BY <1>1, <1>4, <1>5, InExcerpts
      <3>2. Max({upto} \cup DOMAIN rest) \in 0..Len(l)
        BY <1>1, <3>1, MaxOfBounded
      <3> QED BY <3>2, <1>1, NoneIsNumber
    <2> QED BY <1>8, <1>9, <2>1, <2>2 DEF Views
  <1>12. Recovered(v) = IF DOMAIN rest = {} /\ Len(req.page) < Page
                          THEN [ViewClosed(w) EXCEPT !.req = Idle]
                        ELSE IF vain < 2 THEN w
                        ELSE [w EXCEPT !.req = Idle, !.status = "incomplete", !.exp = upto + 1,
                                       !.rcv = Max({upto} \cup DOMAIN rest)]
    BY DEF Recovered, w, rest, vain, part, upto, all, new
  <1> QED BY <1>9, <1>10, <1>11, <1>12

LEMMA FailedView ==
    ASSUME NEW l \in Logs, NEW v \in Views(l)
    PROVE  RecoveryFailed(v) \in Views(l)
  <1> DEFINE w == [v EXCEPT !.req = Idle, !.events = Merge(@, v.pend)]
             high == HighestKey(v.pend)
  <1>1. /\ Merge(v.events, v.pend) \in Excerpts(l) /\ Idle \in Pages(l) /\ high \in 0..None
        /\ v.req.cursor + 1 \in 1..(Len(l) + 1)
    <2>1. 0 \in 0..Len(l)
      BY DEF Logs
    <2>2. v.events \in Excerpts(l) /\ v.pend \in Excerpts(l) /\ v.req.cursor \in 0..Len(l)
      BY DEF Views, Pages
    <2>3. v.req.cursor + 1 \in 1..(Len(l) + 1)
      BY <2>2 DEF Logs
    <2> QED BY <2>1, <2>2, <2>3, MergeExcerpts, AskIsPage, HighestIsIn
  <1>2. w \in Views(l)
    BY <1>1 DEF Views
  <1> HIDE DEF w, high
  <1>3. ViewClosed(w) \in Views(l)
    BY <1>2, ClosedView
  <1>4. [w EXCEPT !.status = "incomplete", !.exp = v.req.cursor + 1, !.rcv = high] \in Views(l)
    BY <1>1, <1>2 DEF Views
  <1> QED BY <1>3, <1>4 DEF RecoveryFailed, w, high

LEMMA CatchUpView ==
    ASSUME NEW l \in Logs, NEW v \in Views(l)
    PROVE  /\ \A c \in 0..Len(l) : CatchUpStarted(v, c) \in Views(l)
           /\ \A st \in {"live", "incomplete"} : CatchUpEnded(v, st) \in Views(l)
  <1>1. ASSUME NEW c \in 0..Len(l) PROVE CatchUpStarted(v, c) \in Views(l)
    <2>1. /\ c + 1 \in 1..(Len(l) + 1) /\ Highest(v.events) \in 0..None /\ None \in 0..None
      BY HighestIsIn, NoneIsNumber DEF Views, Logs
    <2> QED BY <2>1 DEF CatchUpStarted, Views
  <1>2. ASSUME NEW st \in {"live", "incomplete"} PROVE CatchUpEnded(v, st) \in Views(l)
    <2>1. [v EXCEPT !.owned = FALSE] \in Views(l)
      BY DEF Views
    <2>2. [v EXCEPT !.owned = FALSE, !.status = st,
                    !.exp = IF st = "live" THEN None ELSE @,
                    !.rcv = IF st = "live" THEN None ELSE @] \in Views(l)
      <3>1. None \in 0..None
        BY NoneIsNumber
      <3> QED BY <3>1 DEF Views
    <2> QED BY <2>1, <2>2 DEF CatchUpEnded
  <1> QED BY <1>1, <1>2

(* What was read from a log stays true of the longer one.                    *)
LEMMA LongerLog ==
    ASSUME NEW l \in Logs, NEW m \in Logs, Len(l) <= Len(m), \A q \in 1..Len(l) : m[q] = l[q]
    PROVE  Excerpts(l) \subseteq Excerpts(m) /\ Pages(l) \subseteq Pages(m) /\ Views(l) \subseteq Views(m)
  <1>1. Len(l) \in Nat /\ Len(m) \in Nat /\ 1..Len(l) \subseteq 1..Len(m)
    BY DEF Logs
  <1>2. ASSUME NEW f \in Excerpts(l) PROVE f \in Excerpts(m)
    <2>1. /\ DOMAIN f \subseteq 1..Len(l) /\ \A q \in DOMAIN f : f[q] = l[q]
          /\ f = [q \in DOMAIN f |-> f[q]]
      BY InExcerpts
    <2>2. DOMAIN f \subseteq 1..Len(m) /\ \A q \in DOMAIN f : f[q] = m[q]
      BY <2>1, <1>1
    <2> QED BY <2>1, <2>2, IsExcerpt
  <1>3. ASSUME NEW r \in Pages(l) PROVE r \in Pages(m)
    <2>1. /\ r \in [st : {"idle", "asked", "answered"}, cursor : 0..Len(l), page : Seq(Nat)]
          /\ r.cursor + Len(r.page) <= Len(l)
          /\ \A i \in 1..Len(r.page) : r.page[i] = l[r.cursor + i]
      BY DEF Pages
    <2>2. r \in [st : {"idle", "asked", "answered"}, cursor : 0..Len(m), page : Seq(Nat)]
          /\ r.cursor \in Nat /\ Len(r.page) \in Nat
      BY <2>1, <1>1
    <2>3. \A i \in 1..Len(r.page) : r.cursor + i \in 1..Len(l)
      BY <2>1, <2>2, <1>1
    <2> QED BY <2>1, <2>2, <2>3, <1>1 DEF Pages
  <1>4. ASSUME NEW v \in Views(l) PROVE v \in Views(m)
    <2>1. (0..Len(l)) \cup {None} \subseteq (0..Len(m)) \cup {None}
          /\ (1..(Len(l) + 1)) \cup {None} \subseteq (1..(Len(m) + 1)) \cup {None}
      BY <1>1
    <2> QED BY <1>2, <1>3, <2>1 DEF Views
  <1> QED BY <1>2, <1>3, <1>4

LEMMA EvidenceInit == FeedInit => EvidenceInv
  <1> SUFFICES ASSUME FeedInit PROVE EvidenceInv
    OBVIOUS
  <1>1. log = <<>> /\ made = 0 /\ frames = <<>> /\ lastSeq = 0 /\ log \in Logs /\ Len(log) = 0
    BY NoneIsNumber DEF FeedInit, Logs
  <1>2. Idle \in Pages(log)
    BY <1>1, AskIsPage
  <1>3. view = [events |-> NoEvents, pend |-> NoEvents, base |-> None, owned |-> FALSE,
                status |-> "unknown", exp |-> None, rcv |-> None, req |-> Idle, vain |-> 0]
        /\ fetch = Idle
    BY DEF FeedInit
  <1>4. NoEvents \in Excerpts(log) /\ None \in 0..None
    BY InExcerpts, NoneIsNumber
  <1>5. view \in Views(log)
    BY <1>2, <1>3, <1>4 DEF Views
  <1> QED BY <1>1, <1>2, <1>3, <1>5 DEF EvidenceInv

(* What the server answers is a page of its log, and short only at the end.  *)
LEMMA AnsweredPage ==
    ASSUME log \in Logs, NEW r \in Pages(log)
    PROVE  /\ Answered(r) \in Pages(log) /\ Answered(r).st = "answered"
           /\ Answered(r).cursor = r.cursor
           /\ Len(Answered(r).page) < Page => r.cursor + Len(Answered(r).page) = Len(log)
  <1>0. Len(log) \in Nat /\ log \in Seq(Nat)
    BY DEF Logs
  <1> DEFINE to == Min({Len(log), r.cursor + Page})
             pg == SubSeq(log, r.cursor + 1, to)
  <1>1. r.cursor \in 0..Len(log)
    BY DEF Pages
  <1>2. to \in {Len(log), r.cursor + Page} /\ to <= Len(log) /\ to >= r.cursor
    <2> DEFINE a == Len(log)
               b == r.cursor + Page
               IsMin(x) == x \in {a, b} /\ \A y \in {a, b} : x <= y
    <2>1. a \in Nat /\ b \in Nat /\ r.cursor <= a /\ r.cursor <= b
      BY <1>0, <1>1, NoneIsNumber
    <2>2. to = CHOOSE x \in {a, b} : \A y \in {a, b} : x <= y
      BY DEF Min
    <2> HIDE DEF a, b, to
    <2>3. IsMin(a) \/ IsMin(b)
      BY <2>1
    <2>4. \E x \in {a, b} : \A y \in {a, b} : x <= y
      BY <2>3
    <2>5. to \in {a, b} /\ \A y \in {a, b} : to <= y
      BY <2>2, <2>4
    <2> QED BY <2>1, <2>5 DEF a, b
  <1>3. to \in r.cursor..Len(log)
    BY <1>0, <1>1, <1>2, NoneIsNumber
  <1> HIDE DEF to
  <1>4. /\ pg \in Seq(Nat) /\ Len(pg) = to - r.cursor
        /\ \A i \in 1..Len(pg) : pg[i] = log[r.cursor + i]
    <2> DEFINE from == r.cursor + 1
    <2>1. from \in Int /\ to \in Int /\ from \in 1..(Len(log) + 1) /\ to \in (from - 1)..Len(log)
      BY <1>0, <1>1, <1>3
    <2>2. \A i \in from..to : log[i] \in Nat
      <3>1. \A i \in from..to : i \in 1..Len(log)
        BY <2>1
      <3>2. \A i \in 1..Len(log) : log[i] \in Nat
        BY <1>0
      <3> QED BY <3>1, <3>2
    <2>3. to - from + 1 = to - r.cursor /\ r.cursor \in Nat
          /\ (IF from <= to THEN to - from + 1 ELSE 0) = to - r.cursor
          /\ \A i \in 1..(to - r.cursor) : from + i - 1 = r.cursor + i
      <3> DEFINE c == r.cursor
                 n == Len(log)
      <3>1. c \in Nat /\ to \in Nat /\ c <= to /\ from = c + 1
        <4>1. c \in 0..n /\ n \in Nat /\ to \in c..n /\ from = c + 1
          BY <1>0, <1>1, <1>3
        <4> HIDE DEF c, n, from
        <4> QED BY <4>1
      <3> HIDE DEF c, from
      <3>2. to - from + 1 = to - c /\ (IF from <= to THEN to - from + 1 ELSE 0) = to - c
        BY <3>1
      <3>3. \A i \in 1..(to - c) : from + i - 1 = c + i
        BY <3>1
      <3> QED BY <3>1, <3>2, <3>3 DEF c
    <2> HIDE DEF from
    <2>4. /\ SubSeq(log, from, to) \in Seq(Nat)
          /\ Len(SubSeq(log, from, to)) = IF from <= to THEN to - from + 1 ELSE 0
          /\ \A i \in 1..(to - from + 1) : SubSeq(log, from, to)[i] = log[from + i - 1]
      BY <2>1, <2>2, SubSeqProperties
    <2>5. pg = SubSeq(log, from, to)
      BY DEF from
    <2> HIDE DEF pg
    <2> QED BY <2>3, <2>4, <2>5
  <1>5. Answered(r) = [r EXCEPT !.st = "answered", !.page = pg]
    BY DEF Answered, to
  <1> HIDE DEF pg
  <1>6. r \in [st : {"idle", "asked", "answered"}, cursor : 0..Len(log), page : Seq(Nat)]
    BY DEF Pages
  <1>7. /\ Answered(r) \in [st : {"idle", "asked", "answered"}, cursor : 0..Len(log), page : Seq(Nat)]
        /\ Answered(r).page = pg /\ Answered(r).cursor = r.cursor
    BY <1>4, <1>5, <1>6
  <1>8. r.cursor + Len(pg) <= Len(log)
    BY <1>0, <1>1, <1>3, <1>4
  <1>9. Answered(r) \in Pages(log) /\ Answered(r).st = "answered"
    <2>1. Answered(r).st = "answered"
      BY <1>5, <1>6
    <2> HIDE DEF Answered
    <2> QED BY <1>4, <1>7, <1>8, <2>1 DEF Pages
  <1>10. ASSUME Len(pg) < Page PROVE r.cursor + Len(pg) = Len(log)
    <2>1. to # r.cursor + Page
      BY <1>0, <1>1, <1>4, <1>10, NoneIsNumber
    <2> QED BY <1>0, <1>1, <1>2, <1>4, <2>1
  <1> QED BY <1>7, <1>9, <1>10

LEMMA EvidenceStep == EvidenceInv /\ [FeedNext]_feedVars => EvidenceInv'
  <1> SUFFICES ASSUME EvidenceInv, [FeedNext]_feedVars PROVE EvidenceInv'
    OBVIOUS
  <1> DEFINE FramesOK(l, fs) == /\ fs \in Seq(Nat \X Nat)
                                /\ \A i \in 1..Len(fs) : fs[i][1] \in 1..Len(l) /\ fs[i][2] = l[fs[i][1]]
  <1>1. /\ log \in Logs /\ made \in Nat /\ Len(log) <= made /\ FramesOK(log, frames)
        /\ lastSeq \in 0..Len(log) /\ fetch \in Pages(log) /\ view \in Views(log)
        /\ Len(log) \in Nat /\ log \in Seq(Nat)
    BY DEF EvidenceInv, Logs
  <1>2. ASSUME UNCHANGED <<log, made>>, FramesOK(log, frames'), lastSeq' \in 0..Len(log),
               fetch' \in Pages(log), view' \in Views(log)
        PROVE  EvidenceInv'
    BY <1>1, <1>2 DEF EvidenceInv
  <1>3. FramesOK(log, <<>>) /\ \A c \in 0..Len(log) : Ask(c) \in Pages(log) /\ Idle \in Pages(log)
    BY <1>1, AskIsPage
  <1>4. Idle \in Pages(log)
    BY <1>1, <1>3
  <1>5. ASSUME NEW x \in Nat, made < MaxEvents, x = made + 1, made' = x, log' = log \o <<x>>
        PROVE  /\ log' \in Logs /\ Len(log') = Len(log) + 1 /\ log'[Len(log')] = x
               /\ \A q \in 1..Len(log) : log'[q] = log[q]
               /\ Len(log') <= made'
               /\ fetch \in Pages(log') /\ view \in Views(log') /\ lastSeq \in 0..Len(log')
               /\ FramesOK(log', frames) /\ FramesOK(log', <<>>)
    <2>1. /\ log' \in Logs /\ Len(log') = Len(log) + 1 /\ log'[Len(log')] = x
          /\ \A q \in 1..Len(log) : log'[q] = log[q]
      BY <1>1, <1>5, NoneIsNumber DEF Logs
    <2>2. Len(log) <= Len(log') /\ Len(log') \in Nat /\ Len(log') <= made'
          /\ 0..Len(log) \subseteq 0..Len(log') /\ 1..Len(log) \subseteq 1..Len(log')
      BY <1>1, <1>5, <2>1
    <2>3. Pages(log) \subseteq Pages(log') /\ Views(log) \subseteq Views(log')
      BY <1>1, <2>1, <2>2, LongerLog
    <2>4. FramesOK(log', frames)
      <3>1. /\ frames \in Seq(Nat \X Nat)
            /\ \A i \in 1..Len(frames) : frames[i][1] \in 1..Len(log) /\ frames[i][2] = log[frames[i][1]]
        BY <1>1
      <3>2. ASSUME NEW i \in 1..Len(frames)
            PROVE  frames[i][1] \in 1..Len(log') /\ frames[i][2] = log'[frames[i][1]]
        <4>1. frames[i][1] \in 1..Len(log) /\ frames[i][2] = log[frames[i][1]]
          BY <3>1
        <4> QED BY <2>1, <2>2, <4>1
      <3> QED BY <3>1, <3>2
    <2>5. FramesOK(log', <<>>)
      OBVIOUS
    <2> QED BY <1>1, <2>1, <2>2, <2>3, <2>4, <2>5
  <1>6. CASE AppendEvent
    <2>1. /\ made < MaxEvents /\ log' = log \o <<made + 1>> /\ made' = made + 1
          /\ frames' = IF hub THEN frames \o <<<<Len(log'), made + 1>>>> ELSE frames
          /\ UNCHANGED <<lastSeq, fetch, view>>
      BY <1>6 DEF AppendEvent, KeptLines
    <2>2. /\ log' \in Logs /\ Len(log') = Len(log) + 1 /\ log'[Len(log')] = made + 1
          /\ \A q \in 1..Len(log) : log'[q] = log[q]
          /\ Len(log') <= made' /\ made' \in Nat
          /\ fetch \in Pages(log') /\ view \in Views(log') /\ lastSeq \in 0..Len(log')
          /\ FramesOK(log', frames)
      <3> DEFINE x == made + 1
      <3>1. x \in Nat /\ x = made + 1 /\ made' = x /\ log' = log \o <<x>> /\ made < MaxEvents
        BY <1>1, <2>1
      <3> HIDE DEF x
      <3> QED BY <1>5, <3>1
    <2>3. FramesOK(log', frames')
      <3> DEFINE e == <<Len(log'), made + 1>>
      <3>1. e \in Nat \X Nat /\ e[1] = Len(log') /\ e[2] = log'[Len(log')]
            /\ e[1] \in 1..Len(log')
        BY <1>1, <2>1, <2>2
      <3>2. frames' = frames \/ frames' = frames \o <<e>>
        BY <2>1
      <3> HIDE DEF e
      <3>3. CASE frames' = frames \o <<e>>
        <4>1. frames' \in Seq(Nat \X Nat) /\ Len(frames') = Len(frames) + 1
              /\ Len(frames) \in Nat
              /\ frames'[Len(frames) + 1] = e
              /\ \A i \in 1..Len(frames) : frames'[i] = frames[i]
          BY <1>1, <3>1, <3>3
        <4>2. ASSUME NEW i \in 1..Len(frames')
              PROVE  frames'[i][1] \in 1..Len(log') /\ frames'[i][2] = log'[frames'[i][1]]
          <5>1. i \in 1..Len(frames) \/ i = Len(frames) + 1
            BY <4>1
          <5>2. CASE i = Len(frames) + 1
            BY <3>1, <4>1, <5>2
          <5>3. CASE i \in 1..Len(frames)
            BY <2>2, <4>1, <5>3
          <5> QED BY <5>1, <5>2, <5>3
        <4> QED BY <4>1, <4>2
      <3> QED BY <2>2, <3>2, <3>3
    <2> QED BY <2>1, <2>2, <2>3 DEF EvidenceInv
  <1>7. CASE Drop
    BY <1>1, <1>2, <1>3, <1>7 DEF Drop, Lost
  <1>8. CASE Crash
    <2>1. frames' = <<>> /\ UNCHANGED <<lastSeq, fetch, view>>
      BY <1>8 DEF Crash, Lost
    <2>2. CASE UNCHANGED <<log, tail, made>>
      BY <1>1, <1>2, <1>3, <2>1, <2>2
    <2>3. CASE made < MaxEvents /\ made' = made + 1 /\ log' = log \o <<made + 1>>
      <3> DEFINE x == made + 1
      <3>1. x \in Nat /\ x = made + 1 /\ made' = x /\ log' = log \o <<x>> /\ made < MaxEvents
        BY <1>1, <2>3
      <3> HIDE DEF x
      <3>2. /\ log' \in Logs /\ Len(log') <= made' /\ fetch \in Pages(log')
            /\ view \in Views(log') /\ lastSeq \in 0..Len(log') /\ FramesOK(log', <<>>)
        BY <1>5, <3>1
      <3> QED BY <2>1, <3>1, <3>2 DEF EvidenceInv
    <2>4. CASE made' = made + 1 /\ log' = log
      BY <1>1, <1>3, <2>1, <2>4 DEF EvidenceInv
    <2> QED BY <1>8, <2>2, <2>3, <2>4 DEF Crash, KeptLines
  <1>9. ASSUME UNCHANGED <<log, made, frames, lastSeq>>,
               \/ UNCHANGED <<fetch, view>>
               \/ CatchUp
               \/ fetch' = Idle /\ view' \in {view, CatchUpEnded(view, "incomplete")}
        PROVE  EvidenceInv'
    <2>1. /\ Ask(lastSeq) \in Pages(log) /\ CatchUpStarted(view, lastSeq) \in Views(log)
          /\ CatchUpEnded(view, "incomplete") \in Views(log)
      BY <1>1, <1>3, CatchUpView
    <2> QED BY <1>1, <1>2, <1>4, <1>9, <2>1 DEF CatchUp
  <1>10. CASE Open \/ Subscribe \/ Unsubscribe \/ HubReceives \/ CatchUpFails
    BY <1>9, <1>10 DEF Open, Subscribe, Unsubscribe, HubReceives, CatchUpFails
  <1>11. CASE ClientReceives
    <2>1. /\ frames # <<>> /\ frames' = Tail(frames)
          /\ lastSeq' = Max({lastSeq, Head(frames)[1]})
          /\ view' = ApplyEvent(view, Head(frames)[1], Head(frames)[2])
          /\ UNCHANGED <<log, made, fetch>>
      BY <1>11 DEF ClientReceives
    <2>2. Head(frames)[1] \in 1..Len(log) /\ Head(frames)[2] = log[Head(frames)[1]]
      BY <1>1, <2>1
    <2>3. FramesOK(log, frames')
      BY <1>1, <2>1
    <2>4. lastSeq' \in 0..Len(log)
      <3>1. {lastSeq, Head(frames)[1]} \in SUBSET (0..Len(log)) /\ {lastSeq, Head(frames)[1]} # {}
        BY <1>1, <2>2
      <3> QED BY <1>1, <2>1, <3>1, MaxOfBounded
    <2>5. view' \in Views(log)
      BY <1>1, <2>1, <2>2, AppliedEvent
    <2> QED BY <1>1, <1>2, <2>1, <2>3, <2>4, <2>5
  <1>12. ASSUME NEW r \in Pages(log) PROVE Answered(r) \in Pages(log)
    BY <1>1, AnsweredPage
  <1>13. CASE AnswerCatchUp
    BY <1>1, <1>2, <1>12, <1>13 DEF AnswerCatchUp
  <1>14. CASE AnswerGap
    <2>1. Answered(view.req) \in Pages(log)
      BY <1>1, <1>12 DEF Views
    <2>2. view' \in Views(log)
      BY <1>1, <1>14, <2>1 DEF AnswerGap, Views
    <2> QED BY <1>1, <1>2, <1>14, <2>2 DEF AnswerGap
  <1>15. CASE CatchUpArrives
    <2> DEFINE n == Len(fetch.page)
               v == ApplyPage(view, fetch)
    <2>1. v \in Views(log)
      BY <1>1, AppliedPage
    <2>2. n \in Nat /\ fetch.cursor + n \in 0..Len(log)
      BY <1>1 DEF Pages
    <2> HIDE DEF v
    <2>3. CatchUpEnded(v, "live") \in Views(log) /\ Ask(fetch.cursor + n) \in Pages(log)
      BY <1>1, <1>3, <2>1, <2>2, CatchUpView
    <2>4. /\ lastSeq' \in {lastSeq, fetch.cursor + n}
          /\ fetch' \in {Idle, Ask(fetch.cursor + n)}
          /\ view' \in {v, CatchUpEnded(v, "live")}
          /\ UNCHANGED <<log, made, frames>>
      BY <1>15 DEF CatchUpArrives, v
    <2> QED BY <1>1, <1>2, <1>4, <2>1, <2>2, <2>3, <2>4
  <1>16. CASE GapArrives \/ GapFails
    BY <1>1, <1>2, <1>16, RecoveredView, FailedView DEF GapArrives, GapFails
  <1>17. CASE Retry
    <2> DEFINE base == IF view.base # None THEN view.base
                       ELSE IF view.exp # None THEN view.exp - 1 ELSE Highest(view.events)
    <2>1. base \in 0..Len(log)
      BY <1>1, HighestIsIn DEF Views
    <2>2. view' = StartRecovery(view, base) /\ UNCHANGED <<log, made, frames, lastSeq, fetch>>
      BY <1>17 DEF Retry
    <2> HIDE DEF base
    <2> QED BY <1>1, <1>2, <2>1, <2>2, StartedView
  <1>18. CASE UNCHANGED feedVars
    BY <1>1, <1>2, <1>18 DEF feedVars
  <1> QED
    BY <1>6, <1>7, <1>8, <1>10, <1>11, <1>13, <1>14, <1>15, <1>16, <1>17, <1>18 DEF FeedNext

(* A sequence number that the page shows, or keeps for a recovery, stands    *)
(* for the event that has it in the log, whatever crashes, lost sockets and  *)
(* overtaking pages there were (#sequenceFor, applyWsMsg, recoverEvidenceGap)*)
THEOREM EvidenceIsImmutable == FeedSpec => []EvidenceImmutable
  <1>1. EvidenceInv => EvidenceImmutable
    <2> SUFFICES ASSUME EvidenceInv, NEW f \in {view.events, view.pend}, NEW q \in DOMAIN f
                 PROVE  q <= Len(log) /\ f[q] = log[q]
      BY DEF EvidenceImmutable
    <2>1. f \in Excerpts(log) /\ Len(log) \in Nat
      BY DEF EvidenceInv, Views, Logs
    <2> QED BY <2>1, InExcerpts
  <1> QED BY EvidenceInit, EvidenceStep, <1>1, PTL DEF FeedSpec

-----------------------------------------------------------------------------
(* What the ring keeps of a set of numbers.                                  *)
Above(S, n) == {m \in S : m > n}
RingOf(S)   == {n \in S : Cardinality(Above(S, n)) < Ring}

LEMMA PartCount ==
    ASSUME NEW S, IsFiniteSet(S), NEW T, T \subseteq S
    PROVE  /\ IsFiniteSet(T) /\ Cardinality(T) \in Nat /\ Cardinality(S) \in Nat
           /\ Cardinality(T) <= Cardinality(S)
  <1>1. IsFiniteSet(T) /\ Cardinality(T) <= Cardinality(S)
    BY FS_Subset
  <1> QED BY <1>1, FS_CardinalityType

LEMMA RingCount ==
    ASSUME NEW b \in Nat, NEW S \in SUBSET (1..b)
    PROVE  /\ \A n \in S \ RingOf(S), m \in RingOf(S) : n < m
           /\ S # RingOf(S) \/ Cardinality(S) >= Ring => Cardinality(RingOf(S)) = Ring
           /\ \A x \in S : (\A y \in S : y <= x) => x \in RingOf(S)
  <1> DEFINE K == RingOf(S)
  <1>0. S \subseteq Nat /\ \A x \in S : x \in Nat
    OBVIOUS
  <1>1. /\ Ring \in Nat \ {0} /\ IsFiniteSet(S) /\ Cardinality(S) \in Nat /\ K \subseteq S
        /\ IsFiniteSet(K) /\ Cardinality(K) \in Nat /\ Cardinality(K) <= Cardinality(S)
    <2>1. IsFiniteSet(1..b)
      BY FS_Interval
    <2>2. IsFiniteSet(S)
      BY <2>1, PartCount
    <2>3. K \subseteq S
      BY DEF RingOf
    <2>4. Ring \in Nat \ {0}
      BY FeedAssumption
    <2> HIDE DEF K
    <2>5. IsFiniteSet(K) /\ Cardinality(K) \in Nat /\ Cardinality(S) \in Nat
          /\ Cardinality(K) <= Cardinality(S)
      BY <2>2, <2>3, PartCount
    <2> QED BY <2>2, <2>3, <2>4, <2>5
  <1>2. ASSUME NEW n \in S
        PROVE  /\ IsFiniteSet(Above(S, n)) /\ Cardinality(Above(S, n)) \in Nat
               /\ \A m \in S : n <= m => /\ Cardinality(Above(S, m)) \in Nat
                                         /\ Cardinality(Above(S, m)) <= Cardinality(Above(S, n))
    <2>1. Above(S, n) \subseteq S
      BY DEF Above
    <2>2. IsFiniteSet(Above(S, n)) /\ Cardinality(Above(S, n)) \in Nat
      BY <2>1, <1>1, PartCount
    <2>3. ASSUME NEW m \in S, n <= m
          PROVE  /\ Cardinality(Above(S, m)) \in Nat
                 /\ Cardinality(Above(S, m)) <= Cardinality(Above(S, n))
      <3>1. Above(S, m) \subseteq Above(S, n)
        <4> SUFFICES ASSUME NEW x \in S, x > m PROVE x > n
          BY DEF Above
        <4>1. x \in Nat /\ m \in Nat /\ n \in Nat
          BY <1>0
        <4> QED BY <2>3, <4>1
      <3> QED BY <2>2, <3>1, PartCount
    <2> QED BY <2>2, <2>3
  <1>3. ASSUME NEW n \in S \ K, NEW m \in K PROVE n < m
    <2>1. n \in S /\ m \in S /\ n \in Nat /\ m \in Nat
          /\ Cardinality(Above(S, m)) < Ring /\ ~(Cardinality(Above(S, n)) < Ring)
      BY DEF RingOf
    <2> SUFFICES ASSUME m <= n PROVE FALSE
      BY <2>1
    <2>2. /\ Cardinality(Above(S, n)) <= Cardinality(Above(S, m))
          /\ Cardinality(Above(S, n)) \in Nat /\ Cardinality(Above(S, m)) \in Nat
      BY <1>2, <2>1
    <2> QED BY <1>1, <2>1, <2>2
  <1>4. ASSUME NEW x \in S, \A y \in S : y <= x PROVE x \in K
    <2>1. Above(S, x) = {}
      <3> SUFFICES ASSUME NEW m \in S, m > x PROVE FALSE
        BY DEF Above
      <3>1. m <= x /\ m \in Nat /\ x \in Nat
        BY <1>0, <1>4
      <3> QED BY <3>1
    <2> QED BY <1>1, <2>1, FS_EmptySet DEF RingOf
  <1>5. ASSUME S # K \/ Cardinality(S) >= Ring PROVE Cardinality(K) = Ring
    <2>1. S # {}
      <3> SUFFICES ASSUME S = {} PROVE FALSE
        OBVIOUS
      <3>1. Cardinality(S) = 0 /\ K = {}
        BY <1>1, FS_EmptySet
      <3> HIDE DEF K
      <3> QED BY <1>1, <1>5, <3>1
    <2>2. Max(S) \in K
      <3>1. S \in SUBSET (0..b)
        OBVIOUS
      <3> QED BY <2>1, <3>1, <1>4, MaxOfBounded
    <2>3. PICK t \in K : \A y \in K : t <= y
      <3>1. K \subseteq Nat /\ K # {}
        <4> HIDE DEF K
        <4> QED BY <1>0, <1>1, <2>2
      <3> HIDE DEF K
      <3> QED BY <3>1, LeastNumber
    <2>4. t \in S /\ Cardinality(Above(S, t)) < Ring
      BY <2>3 DEF RingOf
    <2>5. K = Above(S, t) \cup {t} /\ t \notin Above(S, t)
      <3>1. ASSUME NEW m \in Above(S, t) PROVE m \in K
        <4>1. m \in S /\ t <= m /\ t \in S
          BY <2>4 DEF Above
        <4>2. /\ Cardinality(Above(S, m)) <= Cardinality(Above(S, t))
              /\ Cardinality(Above(S, m)) \in Nat /\ Cardinality(Above(S, t)) \in Nat
          BY <1>2, <4>1
        <4>3. Cardinality(Above(S, m)) < Ring
          BY <1>1, <2>4, <4>2
        <4> QED BY <4>1, <4>3 DEF RingOf
      <3>2. ASSUME NEW m \in K PROVE m \in Above(S, t) \cup {t}
        <4>1. m \in S /\ t <= m /\ m \in Nat /\ t \in Nat
          BY <1>1, <2>3, <2>4
        <4> QED BY <4>1 DEF Above
      <3>3. t \notin Above(S, t)
        <4>1. ~(t > t)
          BY <1>0, <2>4
        <4> QED BY <4>1 DEF Above
      <3> HIDE DEF K
      <3> QED BY <2>3, <3>1, <3>2, <3>3
    <2>6. Cardinality(K) <= Ring
      <3>1. IsFiniteSet(Above(S, t)) /\ Cardinality(Above(S, t)) \in Nat
        BY <1>2, <2>4
      <3> HIDE DEF K
      <3>2. Cardinality(K) = Cardinality(Above(S, t)) + 1
        BY <2>5, <3>1, FS_AddElement
      <3> QED BY <3>1, <3>2, <1>1, <2>4
    <2>7. CASE S = K
      BY <1>1, <1>5, <2>6, <2>7
    <2>8. CASE S # K
      <3> DEFINE d == Max(S \ K)
      <3>1. d \in S \ K /\ \A y \in S \ K : y <= d
        <4>1. S \ K \in SUBSET (0..b) /\ S \ K # {}
          <5> HIDE DEF K
          <5>1. S \ K \subseteq 1..b /\ S \ K # {}
            BY <1>1, <2>8
          <5> QED BY <5>1
        <4> HIDE DEF K
        <4> QED BY <4>1, MaxOfBounded
      <3>2. d \in S /\ ~(Cardinality(Above(S, d)) < Ring)
        BY <3>1 DEF RingOf
      <3> HIDE DEF d
      <3>3. Above(S, d) \subseteq K
        <4> SUFFICES ASSUME NEW m \in Above(S, d), m \notin K PROVE FALSE
          OBVIOUS
        <4>1. m \in S /\ m > d
          BY DEF Above
        <4> HIDE DEF K
        <4>2. m <= d /\ m \in Nat /\ d \in Nat
          BY <1>0, <3>1, <3>2, <4>1
        <4> QED BY <4>1, <4>2
      <3> HIDE DEF K
      <3>4. Cardinality(Above(S, d)) <= Cardinality(K) /\ Cardinality(Above(S, d)) \in Nat
        BY <1>1, <3>3, PartCount
      <3> QED BY <1>1, <2>6, <3>2, <3>4
    <2> QED BY <2>7, <2>8
  <1> QED BY <1>3, <1>4, <1>5

(* A number that the page shows, or that a full ring has dropped.            *)
Holds(e, n) == n \in DOMAIN e
                 \/ (Cardinality(DOMAIN e) = Ring /\ \A m \in DOMAIN e : n < m)
Upto(e, c)  == \A n \in 1..c : Holds(e, n)
Greater(a, b) == IF a >= b THEN a ELSE b

LEMMA MergeHolds ==
    ASSUME NEW l \in Logs, NEW f \in Excerpts(l), NEW g \in Excerpts(l)
    PROVE  /\ Merge(f, g) \in Excerpts(l)
           /\ Highest(Merge(f, g)) = Greater(Highest(f), Highest(g))
           /\ \A n \in Nat : Holds(f, n) \/ n \in DOMAIN g => Holds(Merge(f, g), n)
  <1> DEFINE S == DOMAIN f \cup DOMAIN g
             M == Merge(f, g)
  <1>1. /\ Len(l) \in Nat /\ S \in SUBSET (1..Len(l)) /\ Ring \in Nat \ {0}
        /\ DOMAIN f \subseteq 1..Len(l) /\ DOMAIN g \subseteq 1..Len(l)
    BY InExcerpts, FeedAssumption DEF Logs
  <1>2. M \in Excerpts(l) /\ DOMAIN M = RingOf(S)
    <2>1. DOMAIN Overlay(f, g) = S /\ M \in Excerpts(l)
      BY MergeExcerpts
    <2> QED BY <2>1 DEF Merge, Newest, RingOf, Above
  <1>3. /\ \A n \in S \ RingOf(S), m \in RingOf(S) : n < m
        /\ S # RingOf(S) \/ Cardinality(S) >= Ring => Cardinality(RingOf(S)) = Ring
        /\ \A x \in S : (\A y \in S : y <= x) => x \in RingOf(S)
    BY <1>1, RingCount
  <1>4. ASSUME NEW n \in S PROVE Holds(M, n)
    BY <1>2, <1>3 DEF Holds
  <1>5. ASSUME NEW n \in Nat, n \notin S, Cardinality(DOMAIN f) = Ring, \A m \in DOMAIN f : n < m
        PROVE  Holds(M, n)
    <2>1. IsFiniteSet(S) /\ DOMAIN f \subseteq S
      <3>1. IsFiniteSet(1..Len(l))
        BY <1>1, FS_Interval
      <3> QED BY <1>1, <3>1, PartCount
    <2> HIDE DEF S
    <2>2. Cardinality(S) >= Ring
      <3>1. Cardinality(DOMAIN f) <= Cardinality(S) /\ Cardinality(S) \in Nat
        BY <2>1, PartCount
      <3> QED BY <1>1, <1>5, <3>1
    <2>3. ASSUME NEW m \in RingOf(S) PROVE n < m
      <3>1. m \in S /\ Cardinality(Above(S, m)) < Ring
        BY DEF RingOf
      <3>0. m \in Nat
        BY <1>1, <3>1
      <3> SUFFICES ASSUME m <= n PROVE FALSE
        BY <3>0
      <3>2. DOMAIN f \subseteq Above(S, m)
        <4> SUFFICES ASSUME NEW x \in DOMAIN f PROVE x \in S /\ x > m
          BY DEF Above
        <4>1. n < x /\ x \in Nat /\ x \in S
          BY <1>1, <1>5, <2>1
        <4> QED BY <3>0, <4>1
      <3>3. Above(S, m) \subseteq S
        BY DEF Above
      <3>4. IsFiniteSet(Above(S, m)) /\ Cardinality(Above(S, m)) \in Nat
        BY <2>1, <3>3, PartCount
      <3>5. Cardinality(DOMAIN f) <= Cardinality(Above(S, m))
        BY <3>2, <3>4, PartCount
      <3> QED BY <1>1, <1>5, <3>1, <3>4, <3>5
    <2> QED BY <1>2, <1>3, <2>2, <2>3 DEF Holds
  <1>6. Highest(M) = Greater(Highest(f), Highest(g))
    <2>1. ASSUME NEW h \in Excerpts(l)
          PROVE  /\ Highest(h) \in Nat /\ Highest(h) \in DOMAIN h \cup {0}
                 /\ \A q \in DOMAIN h : q \in Nat \ {0} /\ q <= Highest(h)
      <3>1. DOMAIN h \subseteq 1..Len(l) /\ Highest(h) \in 0..Len(l)
        BY InExcerpts, HighestIsIn
      <3> QED BY <1>1, <3>1, HighestIsIn
    <2> DEFINE x == Greater(Highest(f), Highest(g))
    <2>2. x \in Nat /\ x \in S \cup {0} /\ \A y \in S : y \in Nat \ {0} /\ y <= x
      BY <2>1 DEF Greater
    <2>3. x \in DOMAIN M \/ x = 0
      BY <1>2, <1>3, <2>2
    <2>4. DOMAIN M \subseteq S
      BY <1>2 DEF RingOf
    <2>5. Highest(M) \in Nat /\ Highest(M) \in DOMAIN M \cup {0} /\ \A q \in DOMAIN M : q <= Highest(M)
      BY <1>2, <2>1
    <2> HIDE DEF x, S, M
    <2>6. Highest(M) = x
      BY <2>2, <2>3, <2>4, <2>5
    <2> QED BY <2>6 DEF x, M
  <1> QED BY <1>2, <1>4, <1>5, <1>6 DEF Holds

-----------------------------------------------------------------------------
(* The furthest line that a page shows or keeps for a recovery.              *)
Extent(v) == Greater(Highest(v.events), Highest(v.pend))

(* Beyond what is kept for a recovery the page has no hole.                  *)
NoHoleBeyond(v) == \A n \in 1..Highest(v.events) : n > Highest(v.pend) => Holds(v.events, n)

(* Where a recovery, or the note of a gap, begins, the page has everything   *)
(* before.                                                                   *)
FullTo(v, c) == c <= Highest(v.events) /\ Upto(v.events, c)

Whole(v) ==
    /\ v.base = None => Upto(v.events, Highest(v.events)) /\ v.pend = NoEvents
    /\ v.base # None => /\ v.status \in {"recovering", "incomplete"}
                        /\ NoHoleBeyond(v) /\ FullTo(v, v.base)
    /\ v.exp # None => FullTo(v, v.exp - 1)
    /\ v.base # None /\ v.status = "incomplete" /\ v.rcv # None => v.rcv >= Highest(v.pend)
    /\ Active(v) => /\ v.base # None /\ v.status = "recovering" /\ v.vain < 2
                    /\ FullTo(v, v.req.cursor)
    /\ v.req.st = "answered" /\ Len(v.req.page) < Page
          => Highest(v.events) <= v.req.cursor + Len(v.req.page)
    /\ v.vain <= 2

(* A handler loses no line that the view had.                                *)
Better(v, w) == Whole(w) /\ Extent(v) <= Extent(w)

LEMMA ViewNumbers ==
    ASSUME NEW l \in Logs, NEW v \in Views(l)
    PROVE  /\ /\ v.events \in Excerpts(l) /\ v.pend \in Excerpts(l) /\ v.req \in Pages(l)
              /\ v.base \in (0..Len(l)) \cup {None} /\ v.exp \in (1..(Len(l) + 1)) \cup {None}
              /\ v.rcv \in 0..None /\ v.vain \in Nat
           /\ Len(l) \in Nat /\ Len(l) < None /\ None \in Nat
           /\ /\ Highest(v.events) \in 0..Len(l) /\ Highest(v.pend) \in 0..Len(l)
              /\ \A q \in DOMAIN v.events : q <= Highest(v.events)
              /\ \A q \in DOMAIN v.pend : q <= Highest(v.pend)
           /\ DOMAIN v.events \subseteq 1..Len(l) /\ DOMAIN v.pend \subseteq 1..Len(l)
           /\ Extent(v) \in 0..Len(l) /\ Highest(v.events) <= Extent(v) /\ Highest(v.pend) <= Extent(v)
           /\ /\ v.req.cursor \in 0..Len(l) /\ v.req.page \in Seq(Nat)
              /\ v.req.cursor + Len(v.req.page) <= Len(l)
              /\ v.req.st \in {"idle", "asked", "answered"}
  <1>1. /\ v.events \in Excerpts(l) /\ v.pend \in Excerpts(l) /\ v.req \in Pages(l)
        /\ v.base \in (0..Len(l)) \cup {None} /\ v.exp \in (1..(Len(l) + 1)) \cup {None}
        /\ v.rcv \in 0..None /\ v.vain \in Nat
    BY DEF Views
  <1>2. Len(l) \in Nat /\ Len(l) < None /\ None \in Nat
    BY NoneIsNumber DEF Logs
  <1>3. /\ Highest(v.events) \in 0..Len(l) /\ Highest(v.pend) \in 0..Len(l)
        /\ \A q \in DOMAIN v.events : q <= Highest(v.events)
        /\ \A q \in DOMAIN v.pend : q <= Highest(v.pend)
    BY <1>1, HighestIsIn
  <1>4. DOMAIN v.events \subseteq 1..Len(l) /\ DOMAIN v.pend \subseteq 1..Len(l)
    BY <1>1, InExcerpts
  <1>5. Extent(v) \in 0..Len(l) /\ Highest(v.events) <= Extent(v) /\ Highest(v.pend) <= Extent(v)
    BY <1>2, <1>3 DEF Extent, Greater
  <1>6. /\ v.req.cursor \in 0..Len(l) /\ v.req.page \in Seq(Nat)
        /\ v.req.cursor + Len(v.req.page) <= Len(l)
        /\ v.req.st \in {"idle", "asked", "answered"}
    BY <1>1 DEF Pages
  <1> QED BY <1>1, <1>2, <1>3, <1>4, <1>5, <1>6, Zenon

LEMMA NothingHighest == Highest(NoEvents) = 0 /\ DOMAIN NoEvents = {}
  <1>1. DOMAIN NoEvents = {}
    BY DEF NoEvents
  <1>2. <<>> \in Logs /\ NoEvents \in Excerpts(<<>>)
    BY InExcerpts, NoneIsNumber DEF Logs
  <1> QED BY <1>1, <1>2, HighestIsIn

(* What is shown grows by what is merged.                                    *)
LEMMA ShowsMore ==
    ASSUME NEW l \in Logs, NEW v \in Views(l), NEW g \in Excerpts(l),
           NEW w, w.events = Merge(v.events, g)
    PROVE  /\ Highest(w.events) = Greater(Highest(v.events), Highest(g))
           /\ Highest(v.events) <= Highest(w.events)
           /\ \A c \in Nat : FullTo(v, c) => FullTo(w, c)
           /\ \A n \in Nat : Holds(v.events, n) \/ n \in DOMAIN g => Holds(w.events, n)
  <1>1. v.events \in Excerpts(l) /\ Highest(v.events) \in Nat
    BY ViewNumbers
  <1>2. Highest(g) \in Nat
    BY HighestIsIn DEF Logs
  <1>3. /\ Highest(w.events) = Greater(Highest(v.events), Highest(g))
        /\ \A n \in Nat : Holds(v.events, n) \/ n \in DOMAIN g => Holds(w.events, n)
    BY <1>1, MergeHolds
  <1>4. Highest(v.events) <= Highest(w.events) /\ Highest(w.events) \in Nat
    BY <1>1, <1>2, <1>3 DEF Greater
  <1>5. ASSUME NEW c \in Nat, FullTo(v, c) PROVE FullTo(w, c)
    <2>1. \A n \in 1..c : n \in Nat /\ Holds(w.events, n)
      BY <1>3, <1>5 DEF FullTo, Upto
    <2> QED BY <1>1, <1>4, <1>5, <2>1 DEF FullTo, Upto
  <1> QED BY <1>3, <1>4, <1>5

LEMMA StartedWhole ==
    ASSUME NEW l \in Logs, NEW v \in Views(l), NEW b \in 0..Len(l),
           ~Active(v), FullTo(v, b), NoHoleBeyond(v)
    PROVE  /\ Whole(StartRecovery(v, b)) /\ Extent(StartRecovery(v, b)) = Extent(v)
  <1> DEFINE w == StartRecovery(v, b)
  <1>1. w = [v EXCEPT !.owned = FALSE, !.status = "recovering", !.exp = b + 1,
                      !.rcv = HighestKey(v.pend), !.base = b, !.req = Ask(b), !.vain = 0]
    BY DEF StartRecovery
  <1>2. /\ w.events = v.events /\ w.pend = v.pend /\ w.base = b /\ w.exp = b + 1
        /\ w.status = "recovering" /\ w.vain = 0
        /\ w.req.st = "asked" /\ w.req.cursor = b
    BY <1>1 DEF Ask, Views
  <1>3. b # None /\ b + 1 - 1 = b
    BY ViewNumbers
  <1> HIDE DEF w
  <1>4. FullTo(w, b) /\ NoHoleBeyond(w) /\ Extent(w) = Extent(v)
    BY <1>2 DEF FullTo, NoHoleBeyond, Extent
  <1>5. Whole(w)
    BY <1>2, <1>3, <1>4 DEF Whole, Active
  <1> QED BY <1>4, <1>5 DEF w

LEMMA ClosedWhole ==
    ASSUME NEW l \in Logs, NEW v \in Views(l), Upto(v.events, Highest(v.events)),
           Highest(v.pend) <= Highest(v.events), ~Active(v), v.vain <= 2
    PROVE  Whole(ViewClosed(v)) /\ Extent(ViewClosed(v)) = Extent(v)
  <1> DEFINE w == ViewClosed(v)
  <1>1. /\ w.events = v.events /\ w.pend = NoEvents /\ w.base = None /\ w.exp = None
        /\ w.rcv = None /\ w.req = v.req /\ w.vain = v.vain
    BY DEF ViewClosed, Views
  <1> HIDE DEF w
  <1>2. Highest(v.events) \in Nat /\ Highest(v.pend) \in Nat
    BY ViewNumbers
  <1>3. Extent(w) = Extent(v)
    BY <1>1, <1>2, NothingHighest DEF Extent, Greater
  <1>4. v.req.st # "answered"
    BY DEF Active
  <1>5. Whole(w)
    BY <1>1, <1>4 DEF Whole, Active
  <1> QED BY <1>3, <1>5 DEF w

(* What is kept for a recovery.                                              *)
LEMMA KeepsMore ==
    ASSUME NEW l \in Logs, NEW v \in Views(l), NEW q \in 1..Len(l)
    PROVE  LET w == Keep(v, q, l[q])
           IN /\ w \in Views(l) /\ w = [v EXCEPT !.pend = w.pend]
              /\ Highest(v.pend) <= Highest(w.pend) /\ q <= Highest(w.pend)
  <1> DEFINE w == Keep(v, q, l[q])
             g == [n \in {q} |-> l[q]]
  <1>1. w \in Views(l) /\ g \in Excerpts(l) /\ v.pend \in Excerpts(l)
    BY KeptView, SingleExcerpt, ViewNumbers
  <1>2. w = [v EXCEPT !.pend = Overlay(g, v.pend)] /\ w.pend = Overlay(g, v.pend)
    BY DEF Keep, Views
  <1>3. DOMAIN g = {q}
    OBVIOUS
  <1> HIDE DEF w, g
  <1>4. DOMAIN w.pend = {q} \cup DOMAIN v.pend
    <2>1. DOMAIN Overlay(g, v.pend) = DOMAIN g \cup DOMAIN v.pend
      BY <1>1, MergeExcerpts
    <2> QED BY <1>2, <1>3, <2>1
  <1>5. /\ \A n \in DOMAIN w.pend : n <= Highest(w.pend)
        /\ Highest(w.pend) \in 0..Len(l) /\ Len(l) \in Nat
    BY <1>1, ViewNumbers
  <1>6. Highest(v.pend) \in DOMAIN v.pend \cup {0}
    BY <1>1, HighestIsIn
  <1>7. Highest(v.pend) <= Highest(w.pend) /\ q <= Highest(w.pend)
    BY <1>4, <1>5, <1>6
  <1> QED BY <1>1, <1>2, <1>7 DEF w

LEMMA ExtendedWhole ==
    ASSUME NEW l \in Logs, NEW v \in Views(l), NEW q \in 1..Len(l),
           Whole(v), ~Active(v), ~Jump(v, q)
    PROVE  LET w == Extend(v, q, l[q])
           IN Better(v, w) /\ q <= Extent(w)
  <1> DEFINE g == [n \in {q} |-> l[q]]
             e == Merge(v.events, g)
             w == [v EXCEPT !.events = e]
             resolved == /\ v.status = "incomplete" /\ v.exp # None /\ v.rcv # None
                         /\ Present(e, v.exp, v.rcv)
             z == [w EXCEPT !.status = "live"]
  <1>1. g \in Excerpts(l) /\ DOMAIN g = {q}
    BY SingleExcerpt
  <1>2. e \in Excerpts(l)
    BY <1>1, MergeHolds, ViewNumbers
  <1>3. Highest(g) = q
    BY <1>1, HighestIsIn
  <1> HIDE DEF g
  <1>4. /\ w \in Views(l) /\ w.events = e /\ w.pend = v.pend /\ w.base = v.base
        /\ w.status = v.status /\ w.exp = v.exp /\ w.rcv = v.rcv /\ w.req = v.req
        /\ w.vain = v.vain
    BY <1>2 DEF Views
  <1> HIDE DEF e
  <1>5. /\ z.events = e /\ z.pend = v.pend /\ z.base = v.base
        /\ z.status = "live" /\ z.exp = v.exp /\ z.rcv = v.rcv /\ z.req = v.req
        /\ z.vain = v.vain
    BY <1>4 DEF Views
  <1>6. Extend(v, q, l[q]) = IF resolved THEN ViewClosed(w)
                             ELSE IF v.status = "unknown" THEN z ELSE w
    BY DEF Extend, e, g
  <1> HIDE DEF w, z
  <1>7. /\ Highest(e) = Greater(Highest(v.events), q)
        /\ \A c \in Nat : FullTo(v, c) => FullTo(w, c)
        /\ \A n \in Nat : Holds(v.events, n) \/ n = q => Holds(e, n)
    BY <1>1, <1>3, <1>4, ShowsMore DEF e
  <1>8. /\ Highest(v.events) \in Nat /\ Highest(v.pend) \in Nat /\ Len(l) \in Nat
        /\ q \in Nat /\ q <= Highest(v.events) + 1
    BY ViewNumbers DEF Jump
  <1>9. /\ Highest(e) \in Nat /\ Highest(v.events) <= Highest(e) /\ q <= Highest(e)
        /\ \A n \in Nat : n <= Highest(e) => n <= Highest(v.events) \/ n = q
    BY <1>7, <1>8 DEF Greater
  <1>10. Extent(v) <= Extent(w) /\ q <= Extent(w)
    BY <1>4, <1>8, <1>9 DEF Extent, Greater
  <1>11. v.base = None => Upto(e, Highest(e))
    BY <1>7, <1>8, <1>9 DEF Whole, Upto
  <1>12. v.base # None => NoHoleBeyond(w)
    BY <1>4, <1>7, <1>8, <1>9 DEF Whole, NoHoleBeyond
  <1>13. Whole(w)
    <2>1. v.base # None => FullTo(w, v.base)
      BY <1>7, ViewNumbers DEF Whole
    <2>2. v.exp # None => FullTo(w, v.exp - 1)
      <3>1. v.exp # None => v.exp - 1 \in Nat
        BY ViewNumbers
      <3> QED BY <3>1, <1>7 DEF Whole
    <2>3. v.req.st # "answered" /\ ~Active(w)
      BY <1>4 DEF Active
    <2> QED BY <1>4, <1>11, <1>12, <2>1, <2>2, <2>3 DEF Whole
  <1>14. ASSUME resolved PROVE Whole(ViewClosed(w)) /\ Extent(ViewClosed(w)) = Extent(w)
    <2>1. CASE v.base = None
      <3>1. Highest(w.pend) <= Highest(w.events)
        BY <1>4, <1>9, <2>1, NothingHighest DEF Whole
      <3>2. ~Active(w) /\ w.vain <= 2
        BY <1>4 DEF Active, Whole
      <3> QED BY <1>4, <1>11, <2>1, <3>1, <3>2, ClosedWhole
    <2>2. CASE v.base # None
      <3>1. FullTo(w, v.exp - 1) /\ v.rcv >= Highest(v.pend)
            /\ v.exp \in Nat \ {0} /\ v.rcv \in Nat
        BY <1>4, <1>13, <1>14, <2>2, ViewNumbers DEF Whole
      <3>2. \A n \in v.exp..v.rcv : n \in DOMAIN e
        BY <1>14 DEF Present
      <3>3. ASSUME NEW n \in 1..Highest(e) PROVE Holds(e, n)
        <4>1. CASE n < v.exp
          <5>1. n \in 1..(v.exp - 1)
            BY <3>1, <4>1
          <5> QED BY <1>4, <3>1, <5>1 DEF FullTo, Upto
        <4>2. CASE v.exp <= n /\ n <= v.rcv
          BY <3>1, <3>2, <4>2 DEF Holds
        <4>3. CASE n > v.rcv
          <5>1. n > Highest(w.pend)
            BY <1>4, <1>8, <3>1, <4>3
          <5> QED BY <1>4, <1>12, <2>2, <5>1 DEF NoHoleBeyond
        <4> QED BY <1>9, <3>1, <4>1, <4>2, <4>3
      <3>4. Highest(v.pend) <= Highest(e)
        <4>1. CASE v.exp <= v.rcv
          <5>1. v.rcv \in DOMAIN e
            BY <3>1, <3>2, <4>1
          <5>2. v.rcv <= Highest(e)
            BY <1>2, <5>1, HighestIsIn
          <5> QED BY <1>8, <1>9, <3>1, <5>2
        <4>2. CASE v.rcv < v.exp
          BY <1>4, <1>8, <1>9, <3>1, <4>2 DEF FullTo
        <4> QED BY <3>1, <4>1, <4>2
      <3>5. ~Active(w) /\ w.vain <= 2
        BY <1>4 DEF Active, Whole
      <3>6. Upto(w.events, Highest(w.events)) /\ Highest(w.pend) <= Highest(w.events)
        BY <1>4, <3>3, <3>4 DEF Upto
      <3> QED BY <1>4, <3>5, <3>6, ClosedWhole
    <2> QED BY <2>1, <2>2
  <1>15. ASSUME v.status = "unknown" PROVE Whole(z) /\ Extent(z) = Extent(w)
    <2>1. v.base = None
      BY <1>15 DEF Whole
    <2>2. Extent(z) = Extent(w) /\ \A c \in Nat : FullTo(w, c) => FullTo(z, c)
      BY <1>4, <1>5 DEF Extent, FullTo
    <2>3. v.exp # None => FullTo(z, v.exp - 1)
      <3>1. v.exp # None => v.exp - 1 \in Nat
        BY ViewNumbers
      <3> QED BY <1>4, <1>13, <2>2, <3>1 DEF Whole
    <2>4. v.req.st # "answered" /\ ~Active(z)
      BY <1>5 DEF Active
    <2>5. v.pend = NoEvents /\ v.vain <= 2
      BY <2>1 DEF Whole
    <2>6. Whole(z)
      BY <1>5, <1>11, <2>1, <2>3, <2>4, <2>5 DEF Whole
    <2> QED BY <2>2, <2>6
  <1>16. Extent(w) \in Nat
    BY <1>4, ViewNumbers
  <1> HIDE DEF resolved
  <1> QED BY <1>6, <1>10, <1>13, <1>14, <1>15 DEF Better

LEMMA AppliedWhole ==
    ASSUME NEW l \in Logs, NEW v \in Views(l), NEW q \in 1..Len(l), Whole(v)
    PROVE  LET w == ApplyEvent(v, q, l[q])
           IN Better(v, w) /\ q <= Extent(w)
  <1> DEFINE k == Keep(v, q, l[q])
             z == [k EXCEPT !.status = "recovering", !.rcv = Highest(k.pend)]
             base == IF v.base # None THEN v.base ELSE Highest(v.events)
             w == ApplyEvent(v, q, l[q])
  <1> SUFFICES Better(v, w) /\ q <= Extent(w)
    OBVIOUS
  <1>1. /\ Len(l) \in Nat /\ q \in Nat /\ q <= Len(l) /\ Extent(v) \in Nat
        /\ Highest(v.events) \in 0..Len(l) /\ Highest(v.pend) \in Nat
        /\ Highest(v.events) <= Extent(v) /\ Highest(v.pend) <= Extent(v)
        /\ v.base # None => v.base \in 0..Len(l)
    BY ViewNumbers
  <1>2. /\ k \in Views(l) /\ k = [v EXCEPT !.pend = k.pend]
        /\ Highest(v.pend) <= Highest(k.pend) /\ q <= Highest(k.pend)
    BY KeepsMore
  <1>3. w = IF Known(v, q) THEN v
            ELSE IF Active(v) THEN IF q <= v.base THEN v ELSE z
            ELSE IF Jump(v, q) THEN StartRecovery(k, base) ELSE Extend(v, q, l[q])
    BY DEF ApplyEvent
  <1> HIDE DEF k
  <1>4. /\ k.events = v.events /\ k.base = v.base /\ k.exp = v.exp /\ k.req = v.req
        /\ k.vain = v.vain /\ k.status = v.status
    BY <1>2 DEF Views
  <1>5. /\ z.events = v.events /\ z.pend = k.pend /\ z.base = v.base /\ z.exp = v.exp
        /\ z.req = v.req /\ z.vain = v.vain /\ z.status = "recovering"
    BY <1>2, <1>4 DEF Views
  <1> HIDE DEF z, w
  <1>6. Highest(k.pend) \in Nat
    BY <1>2, ViewNumbers
  <1>7. /\ Extent(v) <= Extent(k) /\ q <= Extent(k) /\ Extent(z) = Extent(k)
    BY <1>1, <1>2, <1>4, <1>5, <1>6 DEF Extent, Greater
  <1>8. NoHoleBeyond(v) => NoHoleBeyond(k) /\ NoHoleBeyond(z)
    BY <1>1, <1>2, <1>4, <1>5, <1>6 DEF NoHoleBeyond
  <1>9. CASE w = v /\ q <= Extent(v)
    BY <1>1, <1>9 DEF Better
  <1>10. CASE Known(v, q)
    <2>1. q <= Extent(v)
      <3>1. q \in DOMAIN v.events \/ q \in DOMAIN v.pend
        BY <1>10 DEF Known
      <3>2. q <= Highest(v.events) \/ q <= Highest(v.pend)
        BY <3>1, ViewNumbers
      <3> QED BY <1>1, <3>2
    <2> QED BY <1>3, <1>9, <1>10, <2>1
  <1>11. CASE ~Known(v, q) /\ Active(v) /\ q <= v.base
    <2>1. v.base # None /\ v.base <= Highest(v.events)
      BY <1>11 DEF Whole, FullTo
    <2>2. q <= Extent(v)
      BY <1>1, <1>11, <2>1
    <2> QED BY <1>3, <1>9, <1>11, <2>2
  <1>12. CASE ~Known(v, q) /\ Active(v) /\ ~(q <= v.base)
    <2>1. w = z
      BY <1>3, <1>12
    <2>2. v.base # None /\ NoHoleBeyond(z)
      BY <1>8, <1>12 DEF Whole
    <2>3. \A c : FullTo(v, c) => FullTo(z, c)
      BY <1>5 DEF FullTo
    <2>4. Active(z) /\ Active(v)
      BY <1>5, <1>12 DEF Active
    <2>5. Whole(z)
      BY <1>5, <2>2, <2>3, <2>4 DEF Whole
    <2> QED BY <1>7, <2>1, <2>5 DEF Better
  <1>13. CASE ~Known(v, q) /\ ~Active(v) /\ Jump(v, q)
    <2>1. w = StartRecovery(k, base) /\ ~Active(k)
      BY <1>3, <1>4, <1>13 DEF Active
    <2>2. base \in 0..Len(l) /\ FullTo(k, base)
      BY <1>1, <1>4 DEF Whole, FullTo
    <2>3. NoHoleBeyond(k)
      <3>1. CASE v.base # None
        BY <1>8, <3>1 DEF Whole
      <3>2. CASE v.base = None
        BY <1>4, <3>2 DEF Whole, Upto, NoHoleBeyond
      <3> QED BY <3>1, <3>2
    <2> HIDE DEF base
    <2>4. Whole(w) /\ Extent(w) = Extent(k)
      BY <1>2, <2>1, <2>2, <2>3, StartedWhole
    <2> QED BY <1>7, <2>4 DEF Better
  <1>14. CASE ~Known(v, q) /\ ~Active(v) /\ ~Jump(v, q)
    <2>1. w = Extend(v, q, l[q])
      BY <1>3, <1>14
    <2>2. LET x == Extend(v, q, l[q])
          IN Better(v, x) /\ q <= Extent(x)
      BY <1>14, ExtendedWhole
    <2> QED BY <2>1, <2>2
  <1> QED BY <1>10, <1>11, <1>12, <1>13, <1>14

LEMMA PageWhole ==
    ASSUME NEW l \in Logs, NEW v \in Views(l), NEW r \in Pages(l), Whole(v)
    PROVE  LET w == ApplyPage(v, r)
           IN Better(v, w) /\ (Len(r.page) > 0 => r.cursor + Len(r.page) <= Extent(w))
  <1> DEFINE len == Len(r.page)
  <1>1. PICK w : /\ w[0] = v /\ w[len] = ApplyPage(v, r)
                 /\ \A i \in 0..len : w[i] \in Views(l)
                 /\ \A i \in 1..len :
                        /\ r.cursor + i \in 1..Len(l)
                        /\ w[i] = ApplyEvent(w[i - 1], r.cursor + i, l[r.cursor + i])
    BY PagePath
  <1> DEFINE Good(i) == Better(v, w[i]) /\ (i > 0 => r.cursor + i <= Extent(w[i]))
             T == {i \in 0..len : ~Good(i)}
  <1>2. len \in Nat
    BY DEF Pages
  <1>3. Good(0)
    <2>1. Extent(v) \in Nat
      BY ViewNumbers
    <2> QED BY <1>1, <2>1 DEF Better
  <1>4. ASSUME NEW i \in 1..len, Good(i - 1) PROVE Good(i)
    <2>1. i - 1 \in 0..len /\ i \in 0..len
      BY <1>2
    <2>2. w[i - 1] \in Views(l) /\ w[i] \in Views(l)
      BY <1>1, <2>1
    <2>3. Better(w[i - 1], w[i]) /\ r.cursor + i <= Extent(w[i])
      <3> DEFINE q == r.cursor + i
      <3>1. q \in 1..Len(l) /\ w[i] = ApplyEvent(w[i - 1], q, l[q]) /\ Whole(w[i - 1])
        BY <1>1, <1>4 DEF Better
      <3> HIDE DEF q
      <3>2. Better(w[i - 1], w[i]) /\ q <= Extent(w[i])
        BY <2>2, <3>1, AppliedWhole
      <3> QED BY <3>2 DEF q
    <2>4. Extent(v) \in Nat /\ Extent(w[i - 1]) \in Nat /\ Extent(w[i]) \in Nat
      BY <2>2, ViewNumbers
    <2> QED BY <1>4, <2>3, <2>4 DEF Better
  <1>5. T = {}
    <2> SUFFICES ASSUME T # {} PROVE FALSE
      OBVIOUS
    <2>1. T \subseteq Nat
      BY <1>2
    <2> HIDE DEF Good
    <2>2. PICK k \in T : \A y \in T : k <= y
      <3> HIDE DEF T
      <3> QED BY <2>1, LeastNumber
    <2>3. k \in 1..len /\ ~Good(k) /\ k - 1 \in 0..len /\ ~(k <= k - 1)
      BY <1>2, <1>3
    <2> QED BY <1>4, <2>2, <2>3
  <1>6. Good(len)
    <2> HIDE DEF Good
    <2> QED BY <1>2, <1>5
  <1> QED BY <1>1, <1>6

LEMMA RecoveredWhole ==
    ASSUME NEW l \in Logs, NEW v \in Views(l), Whole(v), v.req.st = "answered"
    PROVE  Better(v, Recovered(v))
  <1> DEFINE c    == v.req.cursor
             len  == Len(v.req.page)
             new  == [q \in {c + i : i \in 1..len} |-> v.req.page[q - c]]
             all  == Overlay(new, v.pend)
             upto == Reach(all, c)
             rest == [q \in {n \in DOMAIN all : n > upto \/ n <= c} |-> all[q]]
             vain == IF upto = c THEN v.vain + 1 ELSE 0
             part == [q \in (c + 1)..upto |-> all[q]]
             w    == [v EXCEPT !.pend = rest, !.req = Ask(upto), !.vain = vain,
                               !.events = Merge(@, part)]
             end  == [w EXCEPT !.req = Idle]
             high == Max({upto} \cup DOMAIN rest)
             gap  == [w EXCEPT !.req = Idle, !.status = "incomplete", !.exp = upto + 1,
                               !.rcv = high]
  <1>1. /\ c \in 0..Len(l) /\ len \in Nat /\ c + len <= Len(l) /\ Len(l) \in Nat
        /\ v.pend \in Excerpts(l) /\ v.events \in Excerpts(l) /\ v.vain \in Nat
        /\ Highest(v.events) \in Nat /\ Highest(v.pend) \in Nat
        /\ v.req.page \in Seq(Nat) /\ v.req \in Pages(l)
    BY ViewNumbers
  <1>2. new \in Excerpts(l) /\ DOMAIN new = {c + i : i \in 1..len}
    <2>1. /\ DOMAIN new = {c + i : i \in 1..len}
          /\ \A q \in DOMAIN new : new[q] = v.req.page[q - c]
          /\ new = [q \in DOMAIN new |-> new[q]]
      OBVIOUS
    <2>2. ASSUME NEW i \in 1..len
          PROVE  c + i \in 1..Len(l) /\ (c + i) - c = i /\ v.req.page[i] = l[c + i]
      BY <1>1 DEF Pages
    <2>3. \A q \in DOMAIN new : q \in 1..Len(l) /\ new[q] = l[q]
      BY <2>1, <2>2
    <2> HIDE DEF new
    <2> QED BY <2>1, <2>3, IsExcerpt
  <1> HIDE DEF new
  <1>3. all \in Excerpts(l) /\ DOMAIN all = {c + i : i \in 1..len} \cup DOMAIN v.pend
    <2>1. /\ Overlay(new, v.pend) \in Excerpts(l)
          /\ DOMAIN Overlay(new, v.pend) = DOMAIN new \cup DOMAIN v.pend
      <3>1. new \in Excerpts(l) /\ v.pend \in Excerpts(l)
        BY <1>1, <1>2
      <3>2. \A f \in Excerpts(l) : \A g \in Excerpts(l) :
               Overlay(f, g) \in Excerpts(l) /\ DOMAIN Overlay(f, g) = DOMAIN f \cup DOMAIN g
        BY MergeExcerpts
      <3> QED BY <3>1, <3>2, Zenon
    <2> HIDE DEF c, len
    <2> QED BY <1>2, <2>1
  <1> HIDE DEF all
  <1>4. /\ upto \in c..Len(l) /\ (c + 1)..upto \subseteq DOMAIN all /\ upto + 1 \notin DOMAIN all
        /\ c + len <= upto
    <2>1. /\ upto \in c..Len(l) /\ (c + 1)..upto \subseteq DOMAIN all /\ upto + 1 \notin DOMAIN all
      BY <1>1, <1>3, ReachIsContiguous
    <2> HIDE DEF upto
    <2>2. c + len <= upto
      <3> SUFFICES ASSUME upto < c + len PROVE FALSE
        BY <1>1, <2>1
      <3>1. (upto + 1) - c \in 1..len /\ c + ((upto + 1) - c) = upto + 1
        BY <1>1, <2>1
      <3> QED BY <1>3, <2>1, <3>1
    <2> QED BY <2>1, <2>2
  <1> HIDE DEF upto
  <1>5. rest \in Excerpts(l) /\ DOMAIN rest = {n \in DOMAIN all : n > upto \/ n <= c}
    <2>1. DOMAIN rest \subseteq 1..Len(l) /\ \A q \in DOMAIN rest : rest[q] = l[q]
      BY <1>3, InExcerpts
    <2>2. rest = [q \in DOMAIN rest |-> rest[q]] /\ DOMAIN rest = {n \in DOMAIN all : n > upto \/ n <= c}
      OBVIOUS
    <2> HIDE DEF rest
    <2> QED BY <2>1, <2>2, IsExcerpt
  <1>6. part \in Excerpts(l) /\ DOMAIN part = (c + 1)..upto
    <2>1. DOMAIN part \subseteq 1..Len(l) /\ \A q \in DOMAIN part : part[q] = l[q]
      BY <1>3, <1>4, InExcerpts
    <2>2. part = [q \in DOMAIN part |-> part[q]] /\ DOMAIN part = (c + 1)..upto
      OBVIOUS
    <2> HIDE DEF part
    <2> QED BY <2>1, <2>2, IsExcerpt
  <1> HIDE DEF rest, part
  <1>7. /\ w.events = Merge(v.events, part) /\ w.pend = rest /\ w.base = v.base
        /\ w.status = v.status /\ w.exp = v.exp /\ w.vain = vain
        /\ w.req.st = "asked" /\ w.req.cursor = upto
    BY DEF Views, Ask
  <1>8. /\ Highest(rest) \in Nat /\ Highest(rest) \in DOMAIN rest \cup {0}
        /\ \A n \in DOMAIN rest : n <= Highest(rest)
        /\ Highest(part) \in Nat /\ Highest(part) \in DOMAIN part \cup {0}
        /\ \A n \in DOMAIN part : n <= Highest(part)
        /\ Highest(v.pend) \in DOMAIN v.pend \cup {0}
    <2>1. ASSUME NEW f \in Excerpts(l)
          PROVE  /\ Highest(f) \in Nat /\ Highest(f) \in DOMAIN f \cup {0}
                 /\ \A n \in DOMAIN f : n <= Highest(f)
      BY <1>1, HighestIsIn
    <2> QED BY <1>1, <1>5, <1>6, <2>1
  <1>9. v.base # None /\ v.status = "recovering" /\ v.vain < 2 /\ FullTo(v, c)
    BY DEF Whole, Active
  <1>10. w \in Views(l)
    <2>1. Merge(v.events, part) \in Excerpts(l)
      BY <1>1, <1>6, MergeExcerpts
    <2>2. upto \in 0..Len(l)
      BY <1>1, <1>4
    <2>3. Ask(upto) \in Pages(l)
      BY <2>2, AskIsPage
    <2>4. vain \in Nat
      BY <1>1
    <2> HIDE DEF vain
    <2> QED BY <1>5, <2>1, <2>3, <2>4 DEF Views
  <1> HIDE DEF w
  <1>11. /\ Highest(w.events) = Greater(Highest(v.events), Highest(part))
         /\ Highest(v.events) <= Highest(w.events)
         /\ \A n \in Nat : FullTo(v, n) => FullTo(w, n)
         /\ \A n \in Nat : Holds(v.events, n) \/ n \in DOMAIN part => Holds(w.events, n)
    BY <1>6, <1>7, ShowsMore
  <1>12. /\ Highest(w.events) \in Nat /\ upto <= Highest(w.events)
         /\ \A n \in Nat : n <= Highest(w.events) /\ n > upto => n <= Highest(v.events)
    <2>1. Highest(w.events) \in Nat
      BY <1>10, ViewNumbers
    <2>2. Highest(part) <= upto
      BY <1>1, <1>4, <1>6, <1>8
    <2>3. upto <= Highest(w.events)
      <3>1. CASE upto = c
        BY <1>1, <1>9, <1>11, <2>1, <3>1 DEF FullTo
      <3>2. CASE upto > c
        <4>1. upto \in DOMAIN part
          BY <1>1, <1>4, <1>6, <3>2
        <4>2. upto <= Highest(part)
          BY <1>8, <4>1
        <4> QED BY <1>1, <1>4, <1>8, <1>11, <4>2 DEF Greater
      <3> QED BY <1>1, <1>4, <3>1, <3>2
    <2> QED BY <1>1, <1>4, <1>8, <1>11, <2>1, <2>2, <2>3 DEF Greater
  <1>13. FullTo(w, upto)
    <2>1. ASSUME NEW n \in 1..upto PROVE Holds(w.events, n)
      <3>1. CASE n <= c
        <4>1. n \in 1..c /\ n \in Nat
          BY <1>1, <1>4, <3>1
        <4> QED BY <1>9, <1>11, <4>1 DEF FullTo, Upto
      <3>2. CASE n > c
        <4>1. n \in DOMAIN part /\ n \in Nat
          BY <1>1, <1>4, <1>6, <3>2
        <4> QED BY <1>11, <4>1
      <3> QED BY <1>1, <1>4, <3>1, <3>2
    <2> QED BY <1>12, <2>1 DEF FullTo, Upto
  <1>14. Highest(v.pend) <= Highest(rest) \/ Highest(v.pend) <= upto
    BY <1>1, <1>3, <1>4, <1>5, <1>8
  <1>15. NoHoleBeyond(w)
    <2> SUFFICES ASSUME NEW n \in 1..Highest(w.events), n > Highest(rest)
                 PROVE  Holds(w.events, n)
      BY <1>7 DEF NoHoleBeyond
    <2>1. CASE n <= upto
      <3>1. n \in 1..upto
        BY <1>1, <1>4, <2>1
      <3> QED BY <1>13, <3>1 DEF FullTo, Upto
    <2>2. CASE n > upto
      <3>1. n \in 1..Highest(v.events) /\ n \in Nat
        BY <1>12, <2>2
      <3>2. n > Highest(v.pend)
        BY <1>1, <1>4, <1>8, <1>14, <2>2, <3>1
      <3>3. Holds(v.events, n)
        BY <1>9, <3>1, <3>2 DEF Whole, NoHoleBeyond
      <3> QED BY <1>11, <3>1, <3>3
    <2> QED BY <1>1, <1>4, <1>12, <2>1, <2>2
  <1>16. Extent(v) <= Extent(w)
    BY <1>1, <1>4, <1>7, <1>8, <1>11, <1>12, <1>14 DEF Extent, Greater
  <1>17. FullTo(w, v.base) /\ (v.exp # None => FullTo(w, v.exp - 1))
    <2>1. v.base \in Nat /\ (v.exp # None => v.exp - 1 \in Nat)
      BY <1>9, ViewNumbers
    <2> QED BY <1>9, <1>11, <2>1 DEF Whole
  <1>18. vain \in Nat /\ vain <= 2
    BY <1>1, <1>9
  <1> HIDE DEF vain
  <1>19. ASSUME DOMAIN rest = {}, len < Page PROVE Better(v, ViewClosed(end))
    <2>1. /\ end.events = w.events /\ end.pend = rest /\ end.req.st = "idle" /\ end.vain = vain
          /\ end \in Views(l)
      <3>1. Idle \in Pages(l) /\ Idle.st = "idle"
        BY <1>1, AskIsPage DEF Idle
      <3> QED BY <1>7, <1>10, <3>1 DEF Views
    <2>2. Highest(w.events) = upto
      <3>1. Highest(v.events) <= c + len
        BY <1>19 DEF Whole
      <3>2. ~(Highest(w.events) > upto)
        <4> SUFFICES ASSUME Highest(w.events) > upto PROVE FALSE
          OBVIOUS
        <4>1. Highest(w.events) <= Highest(v.events)
          BY <1>12
        <4> HIDE DEF c, len
        <4> QED BY <1>1, <1>4, <1>12, <3>1, <4>1
      <3> QED BY <1>1, <1>4, <1>12, <3>2
    <2> HIDE DEF end
    <2>3. Highest(end.pend) <= Highest(end.events)
      BY <1>8, <1>12, <1>19, <2>1
    <2>4. Whole(ViewClosed(end)) /\ Extent(ViewClosed(end)) = Extent(end)
      <3>1. Upto(end.events, Highest(end.events)) /\ ~Active(end) /\ end.vain <= 2
        BY <1>13, <1>18, <2>1, <2>2 DEF FullTo, Active
      <3> QED BY <2>1, <2>3, <3>1, ClosedWhole
    <2>5. Extent(end) = Extent(w)
      BY <1>7, <2>1 DEF Extent
    <2> QED BY <1>16, <2>4, <2>5 DEF Better
  <1>20. ASSUME vain < 2 PROVE Better(v, w)
    <2>1. Whole(w)
      BY <1>7, <1>9, <1>13, <1>15, <1>17, <1>18, <1>20 DEF Whole, Active
    <2> QED BY <1>16, <2>1 DEF Better
  <1>21. Better(v, gap)
    <2>1. /\ gap.events = w.events /\ gap.pend = rest /\ gap.base = v.base /\ gap.vain = vain
          /\ gap.status = "incomplete" /\ gap.exp = upto + 1 /\ gap.rcv = high
          /\ gap.req.st = "idle"
      BY <1>7, <1>10 DEF Views, Idle
    <2>2. (upto + 1) - 1 = upto
      BY <1>1, <1>4
    <2>3. high >= Highest(rest)
      <3> DEFINE S == {upto} \cup DOMAIN rest
      <3>1. S \in SUBSET (0..Len(l)) /\ S # {} /\ S \subseteq Nat
        BY <1>1, <1>4, <1>5, InExcerpts
      <3> HIDE DEF S
      <3>2. Max(S) \in Nat /\ \A y \in S : y <= Max(S)
        BY <1>1, <3>1, MaxOfBounded
      <3>3. high \in Nat /\ \A y \in DOMAIN rest \cup {upto} : y <= high
        BY <3>2 DEF S
      <3> HIDE DEF high
      <3> QED BY <1>1, <1>4, <1>8, <3>3
    <2> HIDE DEF gap, high
    <2>4. /\ \A n : FullTo(w, n) => FullTo(gap, n)
          /\ NoHoleBeyond(gap) /\ Extent(gap) = Extent(w)
      BY <1>7, <1>15, <2>1 DEF FullTo, NoHoleBeyond, Extent
    <2>5. FullTo(gap, upto) /\ FullTo(gap, v.base)
      BY <1>13, <1>17, <2>4
    <2>6. Whole(gap)
      BY <1>9, <1>18, <2>1, <2>2, <2>3, <2>4, <2>5 DEF Whole, Active
    <2> QED BY <1>16, <2>4, <2>6 DEF Better
  <1>22. ViewClosed(end) = [ViewClosed(w) EXCEPT !.req = Idle]
    BY <1>10 DEF ViewClosed, Views
  <1>23. Recovered(v) = IF DOMAIN rest = {} /\ len < Page
                          THEN [ViewClosed(w) EXCEPT !.req = Idle]
                        ELSE IF vain < 2 THEN w ELSE gap
    BY DEF Recovered, w, rest, vain, part, upto, all, new
  <1> HIDE DEF gap, end
  <1> QED BY <1>19, <1>20, <1>21, <1>22, <1>23

LEMMA FailedWhole ==
    ASSUME NEW l \in Logs, NEW v \in Views(l), Whole(v), Active(v)
    PROVE  Better(v, RecoveryFailed(v))
  <1> DEFINE c    == v.req.cursor
             high == HighestKey(v.pend)
             w    == [v EXCEPT !.req = Idle, !.events = Merge(@, v.pend)]
             gap  == [w EXCEPT !.status = "incomplete", !.exp = c + 1, !.rcv = high]
  <1>1. /\ c \in Nat /\ v.pend \in Excerpts(l) /\ v.events \in Excerpts(l)
        /\ Highest(v.events) \in Nat /\ Highest(v.pend) \in Nat /\ None \in Nat
        /\ 0 \in 0..Len(l)
    BY ViewNumbers
  <1>2. v.base # None /\ v.vain < 2 /\ FullTo(v, c) /\ NoHoleBeyond(v) /\ FullTo(v, v.base)
    BY DEF Whole
  <1>3. Merge(v.events, v.pend) \in Excerpts(l) /\ Idle \in Pages(l) /\ Idle.st = "idle"
    <2>1. \A f \in Excerpts(l) : \A g \in Excerpts(l) : Merge(f, g) \in Excerpts(l)
      BY MergeExcerpts
    <2> QED BY <1>1, <2>1, AskIsPage DEF Idle
  <1>4. /\ w \in Views(l) /\ w.events = Merge(v.events, v.pend) /\ w.pend = v.pend
        /\ w.base = v.base /\ w.status = v.status /\ w.exp = v.exp /\ w.vain = v.vain
        /\ w.req.st = "idle" /\ w.req = Idle
    BY <1>3 DEF Views
  <1>5. /\ gap.events = w.events /\ gap.pend = v.pend /\ gap.base = v.base /\ gap.vain = v.vain
        /\ gap.status = "incomplete" /\ gap.exp = c + 1 /\ gap.rcv = high /\ gap.req.st = "idle"
    BY <1>4 DEF Views
  <1> HIDE DEF w, gap
  <1>6. /\ Highest(w.events) = Greater(Highest(v.events), Highest(v.pend))
        /\ Highest(v.events) <= Highest(w.events)
        /\ \A n \in Nat : FullTo(v, n) => FullTo(w, n)
        /\ \A n \in Nat : Holds(v.events, n) \/ n \in DOMAIN v.pend => Holds(w.events, n)
    BY <1>1, <1>4, ShowsMore
  <1>7. Highest(w.events) = Extent(v) /\ Extent(w) = Extent(v) /\ Extent(gap) = Extent(v)
        /\ Extent(v) \in Nat /\ Highest(v.pend) <= Extent(v)
        /\ \A n \in Nat : n <= Extent(v) /\ n > Highest(v.pend) => n <= Highest(v.events)
    BY <1>1, <1>4, <1>5, <1>6 DEF Extent, Greater
  <1>8. ASSUME NEW n \in 1..Highest(w.events), n > Highest(v.pend) PROVE Holds(w.events, n)
    <2>1. n \in Nat /\ n \in 1..Highest(v.events)
      BY <1>7, <1>8
    <2>2. Holds(v.events, n)
      BY <1>2, <1>8, <2>1 DEF NoHoleBeyond
    <2> QED BY <1>6, <2>1, <2>2
  <1>9. FullTo(w, c) /\ FullTo(w, v.base)
    <2>1. v.base \in Nat
      BY <1>2, ViewNumbers
    <2> QED BY <1>1, <1>2, <1>6, <2>1
  <1>10. ASSUME high # None, Present(w.events, c + 1, high) PROVE Better(v, ViewClosed(w))
    <2>1. high = Highest(v.pend)
      BY <1>10 DEF HighestKey
    <2>2. ASSUME NEW n \in 1..Highest(w.events) PROVE Holds(w.events, n)
      <3>1. CASE n <= c
        BY <1>1, <1>9, <3>1 DEF FullTo, Upto
      <3>2. CASE c < n /\ n <= high
        <4>1. n \in (c + 1)..high
          BY <1>1, <2>1, <3>2
        <4> HIDE DEF high
        <4> QED BY <1>10, <4>1 DEF Present, Holds
      <3>3. CASE n > high
        BY <1>8, <2>1, <3>3
      <3> HIDE DEF c, high
      <3> QED BY <1>1, <1>7, <2>1, <3>1, <3>2, <3>3
    <2>3. Upto(w.events, Highest(w.events)) /\ Highest(w.pend) <= Highest(w.events)
          /\ ~Active(w) /\ w.vain <= 2
      BY <1>4, <1>7, <2>2 DEF Upto, Active, Whole
    <2>4. Whole(ViewClosed(w)) /\ Extent(ViewClosed(w)) = Extent(w)
      BY <1>4, <2>3, ClosedWhole
    <2> QED BY <1>7, <2>4 DEF Better
  <1>11. Better(v, gap)
    <2>1. /\ \A n : FullTo(w, n) => FullTo(gap, n)
          /\ NoHoleBeyond(gap)
      BY <1>5, <1>8 DEF FullTo, NoHoleBeyond
    <2>2. high # None => high >= Highest(v.pend)
      BY <1>1 DEF HighestKey
    <2>3. (c + 1) - 1 = c /\ v.vain <= 2
      BY <1>1 DEF Whole
    <2> HIDE DEF high, c
    <2>4. FullTo(gap, c) /\ FullTo(gap, v.base)
      BY <1>9, <2>1
    <2>5. Whole(gap)
      BY <1>2, <1>5, <2>1, <2>2, <2>3, <2>4 DEF Whole, Active
    <2> QED BY <1>7, <2>5 DEF Better
  <1>12. RecoveryFailed(v) = IF high # None /\ Present(w.events, c + 1, high)
                               THEN ViewClosed(w) ELSE gap
    BY DEF RecoveryFailed, w, gap
  <1> HIDE DEF high, c
  <1> QED BY <1>10, <1>11, <1>12

LEMMA CatchUpWhole ==
    ASSUME NEW l \in Logs, NEW v \in Views(l), Whole(v)
    PROVE  /\ \A c \in Nat : c <= Extent(v) => Better(v, CatchUpStarted(v, c))
           /\ \A st \in {"live", "incomplete"} : /\ Better(v, CatchUpEnded(v, st))
                                                 /\ Extent(CatchUpEnded(v, st)) = Extent(v)
  <1>1. Extent(v) \in Nat /\ Highest(v.events) \in Nat /\ Better(v, v)
    BY ViewNumbers DEF Better
  <1>2. ASSUME v.base = None
        PROVE  /\ ~Active(v) /\ v.req.st # "answered" /\ v.pend = NoEvents
               /\ Upto(v.events, Highest(v.events)) /\ Extent(v) = Highest(v.events)
    <2>1. ~Active(v) /\ v.pend = NoEvents /\ Upto(v.events, Highest(v.events))
      BY <1>2 DEF Whole
    <2>2. Extent(v) = Highest(v.events)
      BY <1>1, <2>1, NothingHighest DEF Extent, Greater
    <2> QED BY <2>1, <2>2 DEF Active
  <1>3. ASSUME NEW c \in Nat, c <= Extent(v) PROVE Better(v, CatchUpStarted(v, c))
    <2> DEFINE w == CatchUpStarted(v, c)
    <2>1. CASE v.base # None
      BY <1>1, <2>1 DEF CatchUpStarted
    <2>2. CASE v.base = None
      <3>1. /\ w.events = v.events /\ w.pend = v.pend /\ w.base = v.base /\ w.vain = v.vain
            /\ w.exp = c + 1 /\ w.req = v.req
        BY <2>2 DEF CatchUpStarted, Views
      <3> HIDE DEF w
      <3>2. (c + 1) - 1 = c /\ FullTo(w, c) /\ Extent(w) = Extent(v)
        BY <1>1, <1>2, <1>3, <2>2, <3>1 DEF FullTo, Upto, Extent
      <3>3. ~Active(w) /\ w.vain <= 2
        BY <1>2, <2>2, <3>1 DEF Active, Whole
      <3>4. Whole(w)
        BY <1>2, <2>2, <3>1, <3>2, <3>3 DEF Whole
      <3>5. Better(v, w)
        BY <1>1, <3>2, <3>4 DEF Better
      <3> QED BY <3>5 DEF w
    <2> QED BY <2>1, <2>2
  <1>4. ASSUME NEW st \in {"live", "incomplete"}
        PROVE  Better(v, CatchUpEnded(v, st)) /\ Extent(CatchUpEnded(v, st)) = Extent(v)
    <2> DEFINE w == CatchUpEnded(v, st)
    <2>1. CASE ~v.owned
      BY <1>1, <2>1 DEF CatchUpEnded
    <2>2. CASE v.owned /\ v.base # None
      <3>1. /\ w.events = v.events /\ w.pend = v.pend /\ w.base = v.base /\ w.vain = v.vain
            /\ w.exp = v.exp /\ w.req = v.req /\ w.rcv = v.rcv /\ w.status = v.status
        BY <2>2 DEF CatchUpEnded, Views
      <3> HIDE DEF w
      <3>2. Whole(w) /\ Extent(w) = Extent(v)
        <4>1. /\ \A n : FullTo(v, n) <=> FullTo(w, n)
              /\ NoHoleBeyond(v) <=> NoHoleBeyond(w)
              /\ Active(v) <=> Active(w)
          BY <3>1 DEF FullTo, NoHoleBeyond, Active
        <4> QED BY <3>1, <4>1 DEF Whole, Extent
      <3>3. Better(v, w)
        BY <1>1, <3>2 DEF Better
      <3> QED BY <3>2, <3>3 DEF w
    <2>3. CASE v.owned /\ v.base = None
      <3>1. /\ w.events = v.events /\ w.pend = v.pend /\ w.base = v.base /\ w.vain = v.vain
            /\ w.exp \in {v.exp, None} /\ w.req = v.req
        BY <2>3 DEF CatchUpEnded, Views
      <3> HIDE DEF w
      <3>2. Whole(w) /\ Extent(w) = Extent(v)
        <4>1. /\ \A n : FullTo(v, n) <=> FullTo(w, n)
              /\ ~Active(w) /\ v.vain <= 2
          BY <1>2, <2>3, <3>1 DEF FullTo, Active, Whole
        <4>2. w.exp # None => FullTo(w, w.exp - 1)
          BY <3>1, <4>1 DEF Whole
        <4> QED BY <1>2, <2>3, <3>1, <4>1, <4>2 DEF Whole, Extent
      <3>3. Better(v, w)
        BY <1>1, <3>2 DEF Better
      <3> QED BY <3>2, <3>3 DEF w
    <2> QED BY <2>1, <2>2, <2>3
  <1> QED BY <1>3, <1>4

LEMMA AnsweredWhole ==
    ASSUME log \in Logs, NEW v \in Views(log), Whole(v), v.req.st = "asked"
    PROVE  Better(v, [v EXCEPT !.req = Answered(@)])
  <1> DEFINE r == Answered(v.req)
             w == [v EXCEPT !.req = r]
  <1>1. /\ v.req \in Pages(log) /\ Extent(v) \in Nat /\ Highest(v.events) \in 0..Len(log)
        /\ Len(log) \in Nat
    BY ViewNumbers
  <1>2. /\ r.st = "answered" /\ r.cursor = v.req.cursor
        /\ Len(r.page) < Page => r.cursor + Len(r.page) = Len(log)
    BY <1>1, AnsweredPage
  <1> HIDE DEF r
  <1>3. /\ w.events = v.events /\ w.pend = v.pend /\ w.base = v.base /\ w.vain = v.vain
        /\ w.exp = v.exp /\ w.rcv = v.rcv /\ w.status = v.status /\ w.req = r
    BY DEF Views
  <1> HIDE DEF w
  <1>4. /\ \A n : FullTo(v, n) <=> FullTo(w, n)
        /\ NoHoleBeyond(v) <=> NoHoleBeyond(w)
        /\ Active(v) /\ Active(w) /\ Extent(w) = Extent(v)
    BY <1>2, <1>3 DEF FullTo, NoHoleBeyond, Active, Extent
  <1>5. Len(w.req.page) < Page => Highest(w.events) <= w.req.cursor + Len(w.req.page)
    BY <1>1, <1>2, <1>3
  <1>6. Whole(w)
    BY <1>2, <1>3, <1>4, <1>5 DEF Whole
  <1>7. Better(v, w)
    BY <1>1, <1>4, <1>6 DEF Better
  <1> QED BY <1>7 DEF w, r

LEMMA RetriedWhole ==
    ASSUME NEW l \in Logs, NEW v \in Views(l), Whole(v), v.status = "incomplete"
    PROVE  Better(v, StartRecovery(v, IF v.base # None THEN v.base
                                      ELSE IF v.exp # None THEN v.exp - 1
                                      ELSE Highest(v.events)))
  <1> DEFINE b == IF v.base # None THEN v.base
                  ELSE IF v.exp # None THEN v.exp - 1 ELSE Highest(v.events)
  <1>1. /\ Extent(v) \in Nat /\ Highest(v.events) \in 0..Len(l) /\ Len(l) \in Nat
        /\ v.base # None => v.base \in 0..Len(l)
        /\ v.exp # None => v.exp - 1 \in 0..Len(l)
    BY ViewNumbers
  <1>2. ~Active(v)
    BY DEF Whole
  <1>3. b \in 0..Len(l) /\ FullTo(v, b)
    BY <1>1 DEF Whole, FullTo
  <1>4. NoHoleBeyond(v)
    <2>1. CASE v.base # None
      BY <2>1 DEF Whole
    <2>2. CASE v.base = None
      BY <2>2 DEF Whole, Upto, NoHoleBeyond
    <2> QED BY <2>1, <2>2
  <1> HIDE DEF b
  <1>5. Whole(StartRecovery(v, b)) /\ Extent(StartRecovery(v, b)) = Extent(v)
    BY <1>2, <1>3, <1>4, StartedWhole
  <1>6. Better(v, StartRecovery(v, b))
    BY <1>1, <1>5 DEF Better
  <1> QED BY <1>6 DEF b

-----------------------------------------------------------------------------
(* The rest of the state, and what the page has of the log. The frames on    *)
(* their way end in the last line that was appended since the hub heard of   *)
(* the subscription, unless the page has it.                                 *)
Counters ==
    /\ made <= MaxEvents /\ tail \in {"clean", "whole", "cut"}
    /\ cached \in 0..None /\ (cached # 0 => tail = "clean" /\ cached = Len(log) + 1)
    /\ heard \in 0..MaxEvents
Switches ==
    /\ hub \in BOOLEAN /\ conn \in BOOLEAN /\ wanted \in BOOLEAN
    /\ upstream \in Seq(BOOLEAN)
RestTypes == Counters /\ Switches
OnItsWay(l, fs) == fs # <<>> /\ fs[Len(fs)][1] = Len(l)
HeardAll == hub /\ Len(log) > heard => Len(log) <= Extent(view) \/ OnItsWay(log, frames)
FeedInv  == EvidenceInv /\ RestTypes /\ Whole(view) /\ lastSeq <= Extent(view) /\ HeardAll

LEMMA FeedInitInv == FeedInit => FeedInv
  <1> SUFFICES ASSUME FeedInit PROVE FeedInv
    OBVIOUS
  <1>1. EvidenceInv
    BY EvidenceInit
  <1>2. RestTypes
    <2>1. /\ made = 0 /\ tail = "clean" /\ cached = 0 /\ heard = 0 /\ upstream = <<>>
          /\ hub = FALSE /\ conn = FALSE /\ wanted = FALSE
      BY DEF FeedInit
    <2>2. Counters
      BY <2>1, NoneIsNumber DEF Counters
    <2>3. Switches
      <3>1. <<>> \in Seq(BOOLEAN)
        OBVIOUS
      <3> QED BY <2>1, <3>1, Zenon DEF Switches
    <2> QED BY <2>2, <2>3 DEF RestTypes
  <1>3. /\ view.events = NoEvents /\ view.pend = NoEvents /\ view.base = None /\ view.exp = None
        /\ view.vain = 0 /\ view.req.st = "idle" /\ lastSeq = 0 /\ ~hub
    BY DEF FeedInit, Idle
  <1>4. Upto(NoEvents, Highest(NoEvents))
    BY NothingHighest DEF Upto
  <1>5. Whole(view) /\ Extent(view) = 0
    BY <1>3, <1>4, NothingHighest DEF Whole, Active, Extent, Greater
  <1> QED BY <1>1, <1>2, <1>3, <1>5 DEF FeedInv, HeardAll

LEMMA RestStep == FeedInv /\ [FeedNext]_feedVars => RestTypes'
  <1> SUFFICES ASSUME FeedInv, [FeedNext]_feedVars PROVE RestTypes'
    OBVIOUS
  <1>1. RestTypes /\ EvidenceInv /\ EvidenceInv' /\ log \in Logs /\ Len(log) \in Nat
        /\ made \in Nat /\ None = MaxEvents + 1 /\ MaxEvents \in Nat /\ Len(log) <= MaxEvents
    BY EvidenceStep, NoneIsNumber DEF FeedInv, EvidenceInv, Logs
  <1> USE <1>1
  <1>2. Len(log') \in Nat /\ Len(log') <= MaxEvents /\ made' \in Nat
    BY DEF EvidenceInv, Logs
  <1>3. CASE AppendEvent
    <2>1. /\ made < MaxEvents /\ made' = made + 1 /\ tail' = "clean" /\ cached' = Len(log') + 1
          /\ UNCHANGED <<heard, hub, conn, wanted, upstream>>
      BY <1>3 DEF AppendEvent
    <2>2. Counters'
      BY <1>2, <2>1 DEF RestTypes, Counters
    <2>3. Switches'
      BY <2>1 DEF RestTypes, Switches
    <2> QED BY <2>2, <2>3 DEF RestTypes
  <1>4. CASE Crash
    <2>1. /\ cached' = 0 /\ heard' = heard /\ conn' = FALSE /\ hub' = FALSE
          /\ upstream' = <<>> /\ wanted' = wanted
      BY <1>4 DEF Crash, Lost
    <2>2. \/ UNCHANGED <<tail, made>>
          \/ made < MaxEvents /\ made' = made + 1 /\ tail' \in {"whole", "cut"}
      BY <1>4 DEF Crash
    <2>3. Counters'
      BY <2>1, <2>2 DEF RestTypes, Counters
    <2>4. Switches'
      <3>1. <<>> \in Seq(BOOLEAN)
        OBVIOUS
      <3>2. wanted \in BOOLEAN
        BY DEF RestTypes, Switches
      <3> QED BY <2>1, <3>1, <3>2, Zenon DEF Switches
    <2> QED BY <2>3, <2>4 DEF RestTypes
  <1>5. ASSUME UNCHANGED <<log, tail, cached, made>>, heard' \in 0..MaxEvents, Switches'
        PROVE  RestTypes'
    BY <1>5 DEF RestTypes, Counters
  <1>6. heard \in 0..MaxEvents /\ Switches
    BY DEF RestTypes, Counters
  <1>7. CASE Drop
    <2>1. /\ UNCHANGED <<log, tail, cached, made, heard, wanted>> /\ conn' = FALSE /\ hub' = FALSE
          /\ upstream' = <<>>
      BY <1>7 DEF Drop, Lost
    <2>2. Switches'
      <3>1. <<>> \in Seq(BOOLEAN)
        OBVIOUS
      <3> QED BY <1>6, <2>1, <3>1, Zenon DEF Switches
    <2> QED BY <1>5, <1>6, <2>1, <2>2
  <1>8. CASE Open \/ Subscribe \/ Unsubscribe
    <2>1. /\ UNCHANGED <<log, tail, cached, made, heard, hub>>
          /\ conn' \in {conn, TRUE} /\ wanted' \in {wanted, TRUE, FALSE}
          /\ upstream' \in {upstream, <<TRUE>>, upstream \o <<TRUE>>, upstream \o <<FALSE>>}
      BY <1>8 DEF Open, Subscribe, Unsubscribe
    <2>2. upstream' \in Seq(BOOLEAN)
      <3>1. upstream \in Seq(BOOLEAN) /\ <<TRUE>> \in Seq(BOOLEAN) /\ <<FALSE>> \in Seq(BOOLEAN)
        BY <1>6 DEF Switches
      <3>2. upstream \o <<TRUE>> \in Seq(BOOLEAN) /\ upstream \o <<FALSE>> \in Seq(BOOLEAN)
        BY <3>1, ConcatProperties
      <3> QED BY <2>1, <3>1, <3>2
    <2>3. hub' \in BOOLEAN /\ conn' \in BOOLEAN /\ wanted' \in BOOLEAN
      BY <1>6, <2>1, Zenon DEF Switches
    <2>4. Switches'
      BY <2>2, <2>3 DEF Switches
    <2> QED BY <1>5, <1>6, <2>1, <2>4
  <1>9. CASE HubReceives
    <2>1. /\ upstream # <<>> /\ hub' = Head(upstream) /\ upstream' = Tail(upstream)
          /\ heard' = (IF Head(upstream) THEN Len(log) ELSE 0)
          /\ UNCHANGED <<log, tail, cached, made, conn, wanted>>
      BY <1>9 DEF HubReceives
    <2>2. Head(upstream) \in BOOLEAN /\ Tail(upstream) \in Seq(BOOLEAN)
      BY <1>6, <2>1, HeadTailProperties DEF Switches
    <2>3. Switches'
      <3>1. hub' \in BOOLEAN /\ upstream' \in Seq(BOOLEAN)
        BY <2>1, <2>2, Zenon
      <3>2. conn' \in BOOLEAN /\ wanted' \in BOOLEAN
        BY <1>6, <2>1, Zenon DEF Switches
      <3> QED BY <3>1, <3>2, Zenon DEF Switches
    <2>4. heard' \in 0..MaxEvents
      <3>1. heard' = Len(log) \/ heard' = 0
        BY <2>1, Zenon
      <3> QED BY <3>1
    <2> QED BY <1>5, <2>1, <2>3, <2>4
  <1>10. CASE UNCHANGED <<log, tail, cached, made, hub, heard, upstream, conn, wanted>>
    BY <1>10 DEF RestTypes, Counters, Switches
  <1> QED BY <1>3, <1>4, <1>7, <1>8, <1>9, <1>10
             DEF FeedNext, ClientReceives, AnswerCatchUp, AnswerGap, CatchUpArrives, CatchUpFails,
                 GapArrives, GapFails, Retry, feedVars

LEMMA FeedNumbers ==
    ASSUME FeedInv, [FeedNext]_feedVars
    PROVE  /\ EvidenceInv /\ Whole(view) /\ lastSeq <= Extent(view)
           /\ log \in Logs /\ view \in Views(log) /\ fetch \in Pages(log) /\ lastSeq \in 0..Len(log)
           /\ lastSeq \in Nat /\ Len(log) \in Nat
           /\ Extent(view) \in Nat /\ Extent(view') \in Nat
  <1>1. /\ EvidenceInv /\ Whole(view) /\ lastSeq <= Extent(view)
        /\ log \in Logs /\ view \in Views(log) /\ fetch \in Pages(log) /\ lastSeq \in 0..Len(log)
        /\ lastSeq \in Nat /\ Len(log) \in Nat
    BY DEF FeedInv, EvidenceInv, Logs
  <1>2. /\ view' \in Views(log') /\ log' \in Logs /\ lastSeq' \in Nat
    BY <1>1, EvidenceStep DEF EvidenceInv, Logs
  <1>3. Extent(view) \in Nat /\ Extent(view') \in Nat
    <2>1. Extent(view) \in 0..Len(log)
      BY <1>1, ViewNumbers
    <2>2. Extent(view') \in 0..Len(log')
      BY <1>2, ViewNumbers
    <2> QED BY <2>1, <2>2
  <1> QED BY <1>1, <1>3

LEMMA ReceivedWhole ==
    ASSUME FeedInv, ClientReceives
    PROVE  /\ Better(view, view') /\ lastSeq' <= Extent(view')
           /\ Head(frames)[1] <= Extent(view')
  <1>1. /\ Whole(view) /\ lastSeq <= Extent(view) /\ log \in Logs /\ view \in Views(log)
        /\ lastSeq \in 0..Len(log) /\ lastSeq \in Nat /\ Len(log) \in Nat
        /\ Extent(view) \in Nat /\ Extent(view') \in Nat
    BY FeedNumbers DEF FeedNext
  <1> DEFINE q == Head(frames)[1]
  <1>4. /\ frames # <<>> /\ lastSeq' = Max({lastSeq, q})
        /\ view' = ApplyEvent(view, q, Head(frames)[2])
    BY DEF ClientReceives
  <1>5. q \in 1..Len(log) /\ Head(frames)[2] = log[q]
    BY <1>4 DEF FeedInv, EvidenceInv
  <1> HIDE DEF q
  <1>6. Better(view, view') /\ q <= Extent(view')
    BY <1>1, <1>4, <1>5, AppliedWhole
  <1>7. lastSeq' \in {lastSeq, q}
    <2> DEFINE S == {lastSeq, q}
    <2>1. S \in SUBSET (0..Len(log)) /\ S # {}
      BY <1>1, <1>5
    <2> HIDE DEF S
    <2>2. Max(S) \in S
      BY <1>1, <2>1, MaxOfBounded
    <2> QED BY <1>4, <2>2 DEF S
  <1>8. lastSeq' <= Extent(view')
    BY <1>1, <1>6, <1>7 DEF Better
  <1> QED BY <1>6, <1>8 DEF q

(* No step takes from the page what it has, or makes a hole.                 *)
LEMMA ViewStep ==
    FeedInv /\ [FeedNext]_feedVars
      => Better(view, view') /\ lastSeq' <= Extent(view')
  <1> SUFFICES ASSUME FeedInv, [FeedNext]_feedVars
               PROVE  Better(view, view') /\ lastSeq' <= Extent(view')
    OBVIOUS
  <1>1. /\ EvidenceInv /\ Whole(view) /\ lastSeq <= Extent(view)
        /\ log \in Logs /\ view \in Views(log) /\ fetch \in Pages(log) /\ lastSeq \in 0..Len(log)
        /\ lastSeq \in Nat /\ Len(log) \in Nat
    BY FeedNumbers
  <1>3. Extent(view) \in Nat /\ Extent(view') \in Nat
    BY FeedNumbers
  <1>4. ASSUME Better(view, view'), lastSeq' = lastSeq PROVE lastSeq' <= Extent(view')
    BY <1>1, <1>3, <1>4 DEF Better
  <1>5. ASSUME view' = view, lastSeq' = lastSeq
        PROVE  Better(view, view') /\ lastSeq' <= Extent(view')
    BY <1>1, <1>3, <1>5 DEF Better
  <1>6. /\ Better(view, CatchUpStarted(view, lastSeq))
        /\ Better(view, CatchUpEnded(view, "incomplete"))
    BY <1>1, CatchUpWhole
  <1>7. CASE ClientReceives
    BY <1>7, ReceivedWhole
  <1>8. CASE Open \/ Subscribe \/ Unsubscribe \/ CatchUpFails
    <2>1. /\ lastSeq' = lastSeq
          /\ view' \in {view, CatchUpStarted(view, lastSeq), CatchUpEnded(view, "incomplete")}
      BY <1>8 DEF Open, Subscribe, Unsubscribe, CatchUpFails, CatchUp
    <2> QED BY <1>4, <1>5, <1>6, <2>1
  <1>9. CASE AnswerGap
    <2>1. view.req.st = "asked" /\ view' = [view EXCEPT !.req = Answered(@)] /\ lastSeq' = lastSeq
      BY <1>9 DEF AnswerGap
    <2>2. Better(view, view')
      BY <1>1, <2>1, AnsweredWhole
    <2> QED BY <1>4, <2>1, <2>2
  <1>10. CASE CatchUpArrives
    <2> DEFINE n == Len(fetch.page)
               v == ApplyPage(view, fetch)
    <2>1. /\ lastSeq' = IF n = 0 THEN lastSeq ELSE fetch.cursor + n
          /\ view' \in {v, CatchUpEnded(v, "live")}
      BY <1>10 DEF CatchUpArrives
    <2>2. Better(view, v) /\ (n > 0 => fetch.cursor + n <= Extent(v)) /\ v \in Views(log)
      BY <1>1, PageWhole, AppliedPage
    <2>3. n \in Nat
      BY <1>1 DEF Pages
    <2> HIDE DEF v, n
    <2>4. Better(v, CatchUpEnded(v, "live")) /\ Extent(CatchUpEnded(v, "live")) = Extent(v)
      BY <1>1, <2>2, CatchUpWhole DEF Better
    <2>5. Better(view, view') /\ Extent(view') = Extent(v)
      BY <2>1, <2>2, <2>4 DEF Better
    <2>6. lastSeq' <= Extent(view')
      BY <1>1, <1>3, <2>1, <2>2, <2>3, <2>5 DEF Better
    <2> QED BY <2>5, <2>6
  <1>11. CASE GapArrives
    <2>1. view.req.st = "answered" /\ view' = Recovered(view) /\ lastSeq' = lastSeq
      BY <1>11 DEF GapArrives
    <2>2. Better(view, view')
      BY <1>1, <2>1, RecoveredWhole
    <2> QED BY <1>4, <2>1, <2>2
  <1>12. CASE GapFails
    <2>1. Active(view) /\ view' = RecoveryFailed(view) /\ lastSeq' = lastSeq
      BY <1>12 DEF GapFails
    <2>2. Better(view, view')
      BY <1>1, <2>1, FailedWhole
    <2> QED BY <1>4, <2>1, <2>2
  <1>13. CASE Retry
    <2>1. /\ view.status = "incomplete" /\ lastSeq' = lastSeq
          /\ view' = StartRecovery(view, IF view.base # None THEN view.base
                                         ELSE IF view.exp # None THEN view.exp - 1
                                         ELSE Highest(view.events))
      BY <1>13 DEF Retry
    <2>2. Better(view, view')
      BY <1>1, <2>1, RetriedWhole
    <2> QED BY <1>4, <2>1, <2>2
  <1>14. CASE AppendEvent \/ Drop \/ Crash \/ HubReceives \/ AnswerCatchUp \/ UNCHANGED feedVars
    BY <1>5, <1>14 DEF AppendEvent, Drop, Crash, HubReceives, AnswerCatchUp, feedVars
  <1>15. CASE ~ClientReceives
    BY <1>8, <1>9, <1>10, <1>11, <1>12, <1>13, <1>14, <1>15 DEF FeedNext
  <1> QED BY <1>7, <1>15

LEMMA HeardStep == FeedInv /\ [FeedNext]_feedVars => HeardAll'
  <1> SUFFICES ASSUME FeedInv, [FeedNext]_feedVars PROVE HeardAll'
    OBVIOUS
  <1>1. /\ EvidenceInv /\ EvidenceInv' /\ HeardAll
        /\ view \in Views(log) /\ log \in Logs /\ view' \in Views(log') /\ log' \in Logs
        /\ frames \in Seq(Nat \X Nat)
    BY EvidenceStep DEF FeedInv, EvidenceInv
  <1>2. Extent(view) \in Nat /\ Extent(view') \in Nat /\ Len(log) \in Nat
    <2>1. Extent(view) \in 0..Len(log)
      BY <1>1, ViewNumbers
    <2>2. Extent(view') \in 0..Len(log')
      BY <1>1, ViewNumbers
    <2> QED BY <1>1, <2>1, <2>2 DEF Logs
  <1>3. Extent(view) <= Extent(view')
    BY ViewStep DEF Better
  <1>4. CASE UNCHANGED <<log, hub, heard, frames>>
    BY <1>1, <1>2, <1>3, <1>4 DEF HeardAll
  <1>5. CASE AppendEvent
    <2>1. frames' = (IF hub THEN frames \o <<<<Len(log'), made + 1>>>> ELSE frames) /\ hub' = hub
      BY <1>5 DEF AppendEvent
    <2>2. CASE hub
      <3> DEFINE e == <<Len(log'), made + 1>>
      <3>1. frames' = frames \o <<e>> /\ e[1] = Len(log')
        BY <2>1, <2>2
      <3>2. e \in Nat \X Nat
        BY <1>1 DEF EvidenceInv, Logs
      <3> HIDE DEF e
      <3>3. frames' # <<>> /\ frames'[Len(frames')] = e
        BY <1>1, <3>1, <3>2
      <3> QED BY <3>1, <3>3 DEF HeardAll, OnItsWay
    <2>3. CASE ~hub
      BY <2>1, <2>3 DEF HeardAll
    <2> QED BY <2>2, <2>3
  <1>6. CASE Drop \/ Crash
    BY <1>6 DEF Drop, Crash, Lost, HeardAll
  <1>7. CASE HubReceives
    <2>1. log' = log /\ hub' = Head(upstream)
          /\ heard' = IF Head(upstream) THEN Len(log) ELSE 0
      BY <1>7 DEF HubReceives
    <2>2. CASE Head(upstream)
      <3>1. heard' = Len(log')
        BY <2>1, <2>2, Zenon
      <3>2. Len(log') \in Nat
        BY <1>2, <2>1
      <3>3. ~(Len(log') > heard')
        BY <3>1, <3>2
      <3> QED BY <3>3, Zenon DEF HeardAll
    <2>3. CASE ~Head(upstream)
      BY <2>1, <2>3, Zenon DEF HeardAll
    <2> QED BY <2>2, <2>3
  <1>8. CASE ClientReceives
    <2>1. frames # <<>> /\ frames' = Tail(frames) /\ UNCHANGED <<log, hub, heard>>
      BY <1>8 DEF ClientReceives
    <2>2. Head(frames)[1] <= Extent(view')
      BY <1>8, ReceivedWhole
    <2>3. ASSUME OnItsWay(log, frames) PROVE Len(log) <= Extent(view') \/ OnItsWay(log, frames')
      <3>1. CASE Len(frames) = 1
        <4>1. Head(frames) = frames[Len(frames)]
          BY <1>1, <2>1, <3>1
        <4> QED BY <2>2, <2>3, <4>1 DEF OnItsWay
      <3>2. CASE Len(frames) # 1
        <4>1. frames' # <<>> /\ frames'[Len(frames')] = frames[Len(frames)]
          <5>1. Len(frames) \in Nat /\ Len(frames) > 1 /\ Len(frames') = Len(frames) - 1
                /\ \A i \in 1..Len(frames') : frames'[i] = frames[i + 1]
            <6>1. frames \in Seq(Nat \X Nat) /\ Len(frames) \in Nat /\ Len(frames) # 0
              BY <1>1, <2>1, EmptySeq
            <6>2. /\ Len(Tail(frames)) = Len(frames) - 1
                  /\ \A i \in 1..Len(Tail(frames)) : Tail(frames)[i] = frames[i + 1]
              BY <6>1, <2>1, HeadTailProperties
            <6> QED BY <2>1, <3>2, <6>1, <6>2
          <5>2. Len(frames') \in 1..Len(frames') /\ Len(frames') + 1 = Len(frames)
            BY <5>1
          <5>3. frames'[Len(frames')] = frames[Len(frames') + 1]
            BY <5>1, <5>2
          <5>4. frames' # <<>>
            BY <5>2
          <5> QED BY <5>2, <5>3, <5>4
        <4> QED BY <2>3, <4>1 DEF OnItsWay
      <3> QED BY <3>1, <3>2
    <2> QED BY <1>1, <1>2, <1>3, <2>1, <2>3 DEF HeardAll
  <1> QED BY <1>4, <1>5, <1>6, <1>7, <1>8
             DEF FeedNext, Open, Subscribe, Unsubscribe, AnswerCatchUp, AnswerGap, CatchUpArrives,
                 CatchUpFails, GapArrives, GapFails, Retry, feedVars

LEMMA FeedStep == FeedInv /\ [FeedNext]_feedVars => FeedInv'
  <1> SUFFICES ASSUME FeedInv, [FeedNext]_feedVars PROVE FeedInv'
    OBVIOUS
  <1>1. EvidenceInv'
    BY EvidenceStep DEF FeedInv
  <1> QED BY <1>1, RestStep, ViewStep, HeardStep DEF FeedInv, Better

(* Nothing is kept for a recovery when the page says live.                   *)
LEMMA LiveShowsAll ==
    ASSUME FeedInv, view.status = "live"
    PROVE  /\ Upto(view.events, Highest(view.events)) /\ Highest(view.events) = Extent(view)
           /\ Highest(view.events) \in 0..Len(log) /\ Len(log) \in Nat
           /\ DOMAIN view.events \subseteq 1..Len(log)
           /\ \A q \in DOMAIN view.events : q <= Highest(view.events)
  <1>1. log \in Logs /\ view \in Views(log) /\ Whole(view)
    BY DEF FeedInv, EvidenceInv
  <1>2. /\ Highest(view.events) \in 0..Len(log) /\ Len(log) \in Nat
        /\ DOMAIN view.events \subseteq 1..Len(log)
        /\ \A q \in DOMAIN view.events : q <= Highest(view.events)
    BY <1>1, ViewNumbers
  <1>3. view.base = None /\ view.pend = NoEvents /\ Upto(view.events, Highest(view.events))
    BY <1>1 DEF Whole
  <1>4. Highest(view.events) = Extent(view)
    BY <1>2, <1>3, NothingHighest DEF Extent, Greater
  <1> QED BY <1>2, <1>3, <1>4

(* When the page says live, what it shows is an interval of the log, from    *)
(* its first line or from where a full ring begins, whatever sockets were    *)
(* lost and in whatever order frames and pages came (applyWsMsg,             *)
(* recoverEvidenceGap, setEvidenceCatchUpState).                             *)
THEOREM LiveIsContiguousHolds == FeedSpec => []LiveIsContiguous
  <1>1. ASSUME FeedInv PROVE FeedTypeOK
    <2>1. /\ RestTypes /\ log \in Logs /\ made \in Nat /\ lastSeq \in 0..Len(log)
          /\ fetch \in Pages(log) /\ view \in Views(log) /\ Whole(view)
      BY <1>1 DEF FeedInv, EvidenceInv
    <2>2. /\ Len(log) \in Nat /\ Len(log) <= MaxEvents /\ MaxEvents \in Nat /\ None = MaxEvents + 1
      BY <2>1, NoneIsNumber DEF Logs
    <2>3. fetch.st \in {"idle", "asked", "answered"}
      BY <2>1 DEF Pages
    <2>4. ViewType(view)
      <3>1. /\ view.owned \in BOOLEAN
            /\ view.status \in {"unknown", "recovering", "incomplete", "live"}
            /\ view.base \in (0..Len(log)) \cup {None} /\ view.exp \in (1..(Len(log) + 1)) \cup {None}
            /\ view.rcv \in 0..None /\ view.vain \in Nat
        BY <2>1 DEF Views
      <3>2. /\ DOMAIN view.events \subseteq 1..Len(log) /\ DOMAIN view.pend \subseteq 1..Len(log)
            /\ view.req.st \in {"idle", "asked", "answered"}
        BY <2>1, ViewNumbers
      <3>3. view.vain \in 0..2
        BY <2>1, <3>1 DEF Whole
      <3>4. 1..Len(log) \subseteq Numbers
        BY <2>2 DEF Numbers
      <3>5. /\ view.base \in Numbers \cup {None} /\ view.exp \in Numbers \cup {None}
            /\ view.rcv \in Numbers \cup {None}
        BY <2>2, <3>1 DEF Numbers
      <3> QED BY <3>1, <3>2, <3>3, <3>4, <3>5 DEF ViewType
    <2>5. {hub, conn, wanted} \subseteq BOOLEAN
      BY <2>1, Zenon DEF RestTypes, Switches
    <2>6. /\ cached \in Numbers \cup {MaxEvents + 1} /\ made \in Numbers /\ heard \in Numbers
          /\ lastSeq \in Numbers /\ tail \in {"clean", "whole", "cut"}
          /\ (cached # 0 => tail = "clean" /\ cached = Len(log) + 1)
      BY <2>1, <2>2 DEF RestTypes, Counters, Numbers
    <2> QED BY <2>2, <2>3, <2>4, <2>5, <2>6 DEF FeedTypeOK
  <1>2. ASSUME FeedInv, view.status = "live"
        PROVE  LET shown == DOMAIN view.events
               IN /\ \A q \in shown : q = Max(shown) \/ q + 1 \in shown
                  /\ shown = {} \/ 1 \in shown \/ Cardinality(shown) = Ring
    <2> DEFINE shown == DOMAIN view.events
               high  == Highest(view.events)
    <2>1. /\ high \in Nat /\ Len(log) \in Nat /\ shown \in SUBSET (1..Len(log))
          /\ \A q \in shown : q \in Nat /\ q <= high
          /\ \A n \in 1..high : Holds(view.events, n)
      BY <1>2, LiveShowsAll DEF Upto
    <2> HIDE DEF high
    <2>2. ASSUME NEW q \in shown, q # Max(shown) PROVE q + 1 \in shown
      <3>1. Max(shown) \in shown /\ q <= Max(shown)
        <4>1. shown \in SUBSET (0..Len(log)) /\ shown # {}
          BY <2>1
        <4> HIDE DEF shown
        <4> QED BY <2>1, <4>1, MaxOfBounded
      <3>2. q + 1 \in 1..high /\ ~(q + 1 < q)
        <4> DEFINE m == Max(shown)
        <4>1. q \in Nat /\ m \in Nat /\ m <= high /\ q <= m /\ q # m
          <5> HIDE DEF shown
          <5> QED BY <2>1, <2>2, <3>1
        <4> HIDE DEF m
        <4> QED BY <2>1, <4>1
      <3>3. Holds(view.events, q + 1)
        BY <2>1, <3>2
      <3> QED BY <3>2, <3>3 DEF Holds, shown
    <2>3. ASSUME shown # {}, 1 \notin shown PROVE Cardinality(shown) = Ring
      <3>1. 1 \in 1..high
        BY <2>1, <2>3
      <3> QED BY <2>1, <2>3, <3>1 DEF Holds
    <2> QED BY <2>2, <2>3
  <1>3. FeedInv => LiveIsContiguous
    BY <1>1, <1>2 DEF LiveIsContiguous
  <1> QED BY FeedInitInv, FeedStep, <1>3, PTL DEF FeedSpec

(* When nothing is under way and the page says live, it has the whole log,   *)
(* unless nothing was appended since the hub heard of the subscription       *)
(* (registerWsHub, #catchUp, applyWsMsg).                                    *)
THEOREM LiveMissesOnlyUnheardHolds == FeedSpec => []LiveMissesOnlyUnheard
  <1>1. FeedInv => LiveMissesOnlyUnheard
    <2> SUFFICES ASSUME FeedInv, hub, view.status = "live", frames = <<>>, Len(log) > heard
                 PROVE  Highest(view.events) = Len(log)
      BY DEF LiveMissesOnlyUnheard
    <2>1. Len(log) <= Extent(view)
      BY DEF FeedInv, HeardAll, OnItsWay
    <2> QED BY <2>1, LiveShowsAll
  <1> QED BY FeedInitInv, FeedStep, <1>1, PTL DEF FeedSpec

-----------------------------------------------------------------------------
(* The sessions of Claude. Where a turn is.                                  *)
Phases  == {"new", "queued", "loading", "resolving", "pushed", "resulted", "over"}
AtWork  == {"loading", "resolving", "pushed", "resulted"}
RunType == [ph : Phases, killed : BOOLEAN, out : Ends \cup {"none"},
            on : Turns \cup {NoTurn}, timer : Turns \cup {NoTurn}]
SessionType == [active : Turns \cup {NoTurn}, queue : Seq(Turns), live : Turns \cup {NoTurn},
                intr : BOOLEAN, aborted : BOOLEAN]

(* The turn at work is the one its session calls active; those that wait are *)
(* in its queue, once.                                                       *)
OneAtWork ==
    /\ \A t \in Turns : run[t].ph \in AtWork <=> sess[SessionOf[t]].active = t
    /\ \A s \in Sessions : sess[s].active # NoTurn => SessionOf[sess[s].active] = s
    /\ \A s \in Sessions : \A i \in 1..Len(sess[s].queue) :
          /\ run[sess[s].queue[i]].ph = "queued" /\ SessionOf[sess[s].queue[i]] = s
          /\ \A j \in 1..Len(sess[s].queue) : sess[s].queue[i] = sess[s].queue[j] => i = j

(* What marks a turn as killed belongs to a turn that was killed.            *)
MarksAreOwn ==
    /\ \A t \in Turns : asked[t] # NoTurn \/ run[t].timer # NoTurn => run[t].killed
    /\ \A s \in Sessions : sess[s].intr => sess[s].active # NoTurn /\ run[sess[s].active].killed
    /\ \A t \in Turns : run[t].ph = "pushed" /\ sess[SessionOf[t]].aborted
                          => run[t].killed \/ t \in struck
    /\ \A t \in Turns : run[t].out = "killed" => run[t].killed \/ t \in struck

ClaudeInv == ClaudeTypeOK /\ OneAtWork /\ MarksAreOwn

LEMMA TypesAgree ==
    ClaudeTypeOK <=> /\ run \in [Turns -> RunType] /\ sess \in [Sessions -> SessionType]
                     /\ open \subseteq Turns /\ asked \in [Turns -> Turns \cup {NoTurn}]
                     /\ changes \in 0..MaxGen /\ changed \in BOOLEAN /\ struck \subseteq Turns
  BY DEF ClaudeTypeOK, RunType, SessionType, Phases

LEMMA TurnHasSession == \A t \in Turns : SessionOf[t] \in Sessions
  BY DEF Sessions

LEMMA ClaudeInitInv == ClaudeInit => ClaudeInv
  <1> SUFFICES ASSUME ClaudeInit PROVE ClaudeInv
    OBVIOUS
  <1>1. NewRun \in RunType /\ NewState \in SessionType
    BY ClaudeAssumption DEF NewRun, NewState, RunType, SessionType, Phases, Ends
  <1>2. ClaudeTypeOK
    <2>1. run \in [Turns -> RunType] /\ sess \in [Sessions -> SessionType]
      BY <1>1 DEF ClaudeInit
    <2>2. /\ open \subseteq Turns /\ asked \in [Turns -> Turns \cup {NoTurn}]
          /\ struck \subseteq Turns
      BY DEF ClaudeInit
    <2>3. changes \in 0..MaxGen
      BY ClaudeAssumption DEF ClaudeInit
    <2>4. changed \in BOOLEAN
      BY DEF ClaudeInit
    <2> QED BY <2>1, <2>2, <2>3, <2>4, TypesAgree
  <1>3. OneAtWork /\ MarksAreOwn
    <2>1. \A t \in Turns : run[t] = NewRun /\ asked[t] = NoTurn /\ SessionOf[t] \in Sessions
      BY TurnHasSession DEF ClaudeInit
    <2>2. \A s \in Sessions : sess[s] = NewState
      BY DEF ClaudeInit
    <2>3. NewState.queue = <<>> /\ NewState.active = NoTurn /\ ~NewState.intr /\ ~NewState.aborted
      BY DEF NewState
    <2>4. NewRun.ph = "new" /\ NewRun.timer = NoTurn /\ NewRun.out = "none"
      BY DEF NewRun
    <2>5. OneAtWork
      BY <2>1, <2>2, <2>3, <2>4, ClaudeAssumption DEF OneAtWork, AtWork
    <2>6. MarksAreOwn
      BY <2>1, <2>2, <2>3, <2>4 DEF MarksAreOwn
    <2> QED BY <2>5, <2>6
  <1> QED BY <1>2, <1>3 DEF ClaudeInv

(* The turns that are skipped are a beginning of the queue, all killed, and  *)
(* the turn after them is not.                                               *)
LEMMA DoomedIsPrefix ==
    ASSUME ClaudeTypeOK, NEW q \in Seq(Turns)
    PROVE  \E m \in 0..Len(q) :
             /\ Doomed(q) = 1..m /\ Cardinality(Doomed(q)) = m
             /\ \A i \in 1..m : run[q[i]].killed
             /\ m < Len(q) => ~run[q[m + 1]].killed
  <1> DEFINE Ahead == {i \in 1..Len(q) : ~run[q[i]].killed}
             T == Ahead \cup {Len(q) + 1}
  <1>1. Len(q) \in Nat /\ DOMAIN q = 1..Len(q) /\ T \subseteq Nat /\ T # {}
    OBVIOUS
  <1>2. PICK k \in T : \A y \in T : ~(<<y, k>> \in OpToRel(<, Nat))
    <2>1. IsWellFoundedOn(OpToRel(<, Nat), Nat)
      BY NatLessThanWellFounded
    <2> HIDE DEF T
    <2> QED BY <1>1, <2>1, WFMin
  <1>3. \A y \in T : k <= y
    <2> SUFFICES ASSUME NEW y \in T, y < k PROVE FALSE
      BY <1>1
    <2>1. <<y, k>> \in OpToRel(<, Nat)
      <3>1. <<y, k>> \in Nat \X Nat /\ <<y, k>>[1] < <<y, k>>[2]
        BY <1>1
      <3> QED BY <3>1 DEF OpToRel
    <2> QED BY <2>1, <1>2
  <1>4. k \in 1..(Len(q) + 1) /\ \A i \in 1..(k - 1) : run[q[i]].killed
    BY <1>1, <1>3
  <1>8. k <= Len(q) => ~run[q[k]].killed
    <2> SUFFICES ASSUME k <= Len(q) PROVE k \in Ahead
      OBVIOUS
    <2> QED BY <1>1
  <1>5. Doomed(q) = 1..(k - 1)
    <2>1. ASSUME NEW i \in Doomed(q) PROVE i \in 1..(k - 1)
      BY <2>1, <1>1, <1>4, <1>8 DEF Doomed
    <2>2. ASSUME NEW i \in 1..(k - 1) PROVE i \in Doomed(q)
      BY <2>2, <1>1, <1>4 DEF Doomed
    <2> QED BY <2>1, <2>2
  <1>6. k - 1 \in 0..Len(q) /\ Cardinality(1..(k - 1)) = k - 1
    BY <1>1, <1>4, FS_Interval
  <1>7. k - 1 < Len(q) => ~run[q[(k - 1) + 1]].killed
    BY <1>1, <1>4, <1>8
  <1> QED BY <1>4, <1>5, <1>6, <1>7

(* The end of turn t, whose session has the record x: the turns it skips end *)
(* as killed, and the next one is at work.                                   *)
LEMMA FinishKeeps ==
    ASSUME ClaudeInv, NEW t \in Turns, NEW out \in Ends, NEW x \in SessionType, NEW o,
           o \subseteq Turns,
           sess[SessionOf[t]].active = t, x.queue = sess[SessionOf[t]].queue,
           out = "killed" => run[t].killed \/ t \in struck',
           Finish(t, out, x, o),
           struck \subseteq struck' /\ struck' \subseteq Turns,
           asked' \in [Turns -> Turns \cup {NoTurn}],
           \A u \in Turns : asked'[u] # NoTurn => asked[u] # NoTurn,
           UNCHANGED changes
    PROVE  ClaudeInv'
  <1> DEFINE s == SessionOf[t]
             q == x.queue
             y == Retired(x)
  <1> USE ClaudeAssumption
  <1>1. /\ run \in [Turns -> RunType] /\ sess \in [Sessions -> SessionType]
        /\ s \in Sessions /\ q \in Seq(Turns) /\ ClaudeTypeOK
    BY TypesAgree, TurnHasSession DEF ClaudeInv, SessionType
  <1>2. PICK m \in 0..Len(q) :
             /\ Doomed(q) = 1..m /\ Cardinality(Doomed(q)) = m
             /\ \A i \in 1..m : run[q[i]].killed
             /\ m < Len(q) => ~run[q[m + 1]].killed
    BY <1>1, DoomedIsPrefix
  <1> DEFINE next == IF m < Len(q) THEN q[m + 1] ELSE NoTurn
             rest == SubSeq(q, m + 2, Len(q))
             skipped == {u \in Turns : \E i \in 1..m : q[i] = u}
  <1>3. /\ Len(q) \in Nat /\ \A i \in 1..Len(q) : q[i] \in Turns
        /\ (m + 1 <= Len(q)) = (m < Len(q))
    BY <1>1, <1>2
  <1>4. /\ y.queue = q /\ y.intr = FALSE /\ y.active = NoTurn /\ y \in SessionType
    <2>1. After(x) \in SessionType /\ After(x).queue = q /\ ~After(x).intr /\ After(x).active = NoTurn
      BY DEF After, SessionType
    <2> QED BY <2>1 DEF Retired, Closed, SessionType
  <1>5. sess' = [sess EXCEPT ![s] = [y EXCEPT !.active = next, !.queue = rest]]
    <2> DEFINE k == Cardinality(Doomed(q)) + 1
    <2>1. sess' = [sess EXCEPT ![s] = [y EXCEPT
             !.active = IF k <= Len(q) THEN q[k] ELSE NoTurn,
             !.queue  = SubSeq(q, k + 1, Len(q))]]
      BY DEF Finish
    <2>2. k = m + 1 /\ k + 1 = m + 2 /\ (k <= Len(q)) = (m < Len(q))
      BY <1>2, <1>3
    <2> HIDE DEF k, y
    <2> QED BY <2>1, <2>2
  <1>6. \A u \in Turns : run'[u] =
             IF u = t THEN Over(run[u].killed, out)
             ELSE IF u \in skipped THEN Over(TRUE, "killed")
             ELSE IF u = next THEN [run[u] EXCEPT !.ph = "loading"]
             ELSE run[u]
    <2> DEFINE k == Cardinality(Doomed(q)) + 1
    <2>1. run' = [u \in Turns |->
             IF u = t THEN Over(run[u].killed, out)
             ELSE IF \E i \in Doomed(q) : q[i] = u THEN Over(TRUE, "killed")
             ELSE IF k <= Len(q) /\ u = q[k] THEN [run[u] EXCEPT !.ph = "loading"]
             ELSE run[u]]
      BY DEF Finish
    <2>2. k = m + 1 /\ (k <= Len(q)) = (m < Len(q))
      BY <1>2, <1>3
    <2>3. \A u \in Turns : (\E i \in Doomed(q) : q[i] = u) <=> u \in skipped
      BY <1>2
    <2>4. \A u \in Turns : (k <= Len(q) /\ u = q[k]) <=> u = next
      BY <2>2
    <2> HIDE DEF k, skipped, next
    <2> QED BY <2>1, <2>3, <2>4
  <1>7. /\ \A i \in 1..Len(q) : /\ run[q[i]].ph = "queued" /\ SessionOf[q[i]] = s /\ q[i] # t
                                /\ \A j \in 1..Len(q) : q[i] = q[j] => i = j
        /\ run[t].ph \in AtWork
    BY <1>1, <1>3 DEF ClaudeInv, OneAtWork, AtWork
  <1>8. /\ rest \in Seq(Turns)
        /\ \A i \in 1..Len(rest) : i + m + 1 \in 1..Len(q) /\ rest[i] = q[i + m + 1]
    BY <1>1, <1>2, <1>3
  <1>9. \A u \in skipped : /\ run[u].killed /\ run[u].ph = "queued" /\ SessionOf[u] = s
                           /\ u # t /\ u # next
    BY <1>2, <1>3, <1>7
  <1>10. /\ next \in Turns \cup {NoTurn}
         /\ next # NoTurn => /\ m < Len(q) /\ next = q[m + 1] /\ m + 1 \in 1..Len(q)
                             /\ next # t /\ SessionOf[next] = s /\ run[next].ph = "queued"
    BY <1>2, <1>3, <1>7
  <1>11. \A i \in 1..Len(rest) : /\ rest[i] \in Turns \ skipped /\ rest[i] # next /\ rest[i] # t
                                 /\ run[rest[i]].ph = "queued" /\ SessionOf[rest[i]] = s
                                 /\ \A j \in 1..Len(rest) : rest[i] = rest[j] => i = j
    <2> SUFFICES ASSUME NEW i \in 1..Len(rest)
                 PROVE  /\ rest[i] \in Turns \ skipped /\ rest[i] # next /\ rest[i] # t
                        /\ run[rest[i]].ph = "queued" /\ SessionOf[rest[i]] = s
                        /\ \A j \in 1..Len(rest) : rest[i] = rest[j] => i = j
      OBVIOUS
    <2>1. i + m + 1 \in 1..Len(q) /\ rest[i] = q[i + m + 1] /\ i + m + 1 \notin 1..(m + 1) /\ i \in Nat
      BY <1>2, <1>8
    <2>2. rest[i] \notin skipped
      <3> SUFFICES ASSUME NEW j \in 1..m, q[j] = rest[i] PROVE FALSE
        OBVIOUS
      <3>1. j \in 1..Len(q) /\ q[j] = q[i + m + 1] /\ j # i + m + 1
        BY <1>2, <1>3, <2>1
      <3> QED BY <3>1, <1>7, <2>1
    <2>3. rest[i] # next
      BY <2>1, <1>2, <1>7, <1>10, <1>3, ClaudeAssumption
    <2>4. \A j \in 1..Len(rest) : rest[i] = rest[j] => i = j
      BY <2>1, <1>2, <1>7, <1>8
    <2> HIDE DEF rest, skipped, next
    <2> QED BY <2>1, <2>2, <2>3, <2>4, <1>3, <1>7
  <1>12. \A u \in Turns :
           /\ u = t => run'[u] = Over(run[u].killed, out)
           /\ u \in skipped => run'[u] = Over(TRUE, "killed")
           /\ u = next => run'[u] = [run[u] EXCEPT !.ph = "loading"]
           /\ u # t /\ u \notin skipped /\ u # next => run'[u] = run[u]
    <2> HIDE DEF skipped, next
    <2> QED BY <1>6, <1>9, <1>10
  <1>13. \A kl \in BOOLEAN, o2 \in Ends :
           /\ Over(kl, o2) \in RunType /\ Over(kl, o2).ph = "over" /\ Over(kl, o2).out = o2
           /\ Over(kl, o2).killed <=> kl
           /\ Over(kl, o2).timer = NoTurn
    BY DEF Over, NewRun, RunType, Phases, Ends
  <1>14. run' = [u \in Turns |-> run'[u]]
    BY DEF Finish
  <1> HIDE DEF skipped, next, rest, y, s, q
  <1>15. \A u \in Turns :
           /\ run'[u] \in RunType
           /\ run[u].killed => run'[u].killed
           /\ run'[u].timer # NoTurn => run'[u].timer = run[u].timer
           /\ u = t => run'[u].ph = "over" /\ run'[u].out = out
           /\ u \in skipped => run'[u].ph = "over"
           /\ u = next => run'[u].ph = "loading" /\ run'[u].out = run[u].out
    <2> SUFFICES ASSUME NEW u \in Turns
                 PROVE  /\ run'[u] \in RunType
                        /\ run[u].killed => run'[u].killed
                        /\ run'[u].timer # NoTurn => run'[u].timer = run[u].timer
                        /\ u = t => run'[u].ph = "over" /\ run'[u].out = out
                        /\ u \in skipped => run'[u].ph = "over"
                        /\ u = next => run'[u].ph = "loading" /\ run'[u].out = run[u].out
      OBVIOUS
    <2>1. run[u] \in RunType /\ run[u].killed \in BOOLEAN /\ "killed" \in Ends
      BY <1>1 DEF RunType, Ends
    <2>2. CASE u = t
      <3>1. run'[u] = Over(run[u].killed, out) /\ u \notin skipped /\ u # next
        BY <2>2, <1>9, <1>10, <1>12, ClaudeAssumption
      <3> QED BY <3>1, <2>1, <2>2, <1>13
    <2>3. CASE u \in skipped
      <3>1. run'[u] = Over(TRUE, "killed") /\ u # t /\ u # next
        BY <2>3, <1>9, <1>12
      <3>2. /\ Over(TRUE, "killed") \in RunType /\ Over(TRUE, "killed").ph = "over"
            /\ Over(TRUE, "killed").killed /\ Over(TRUE, "killed").timer = NoTurn
        BY DEF Over, NewRun, RunType, Phases, Ends
      <3> QED BY <3>1, <3>2, <2>3
    <2>4. CASE u = next
      <3>1. run'[u] = [run[u] EXCEPT !.ph = "loading"] /\ u # t /\ u \notin skipped
        BY <2>4, <1>9, <1>10, <1>12, ClaudeAssumption
      <3>2. /\ run'[u] \in RunType /\ run'[u].ph = "loading" /\ run'[u].out = run[u].out
            /\ run'[u].killed = run[u].killed /\ run'[u].timer = run[u].timer
        BY <2>1, <3>1 DEF RunType, Phases
      <3> QED BY <3>1, <3>2
    <2>5. CASE u # t /\ u \notin skipped /\ u # next
      BY <2>1, <2>5, <1>12
    <2> QED BY <2>2, <2>3, <2>4, <2>5
  <1>16. /\ sess' \in [Sessions -> SessionType]
         /\ sess'[s].active = next /\ sess'[s].queue = rest /\ ~sess'[s].intr
         /\ \A r \in Sessions : r # s => sess'[r] = sess[r]
    <2>1. [y EXCEPT !.active = next, !.queue = rest] \in SessionType
      BY <1>4, <1>8, <1>10 DEF SessionType
    <2>2. /\ [y EXCEPT !.active = next, !.queue = rest].active = next
          /\ [y EXCEPT !.active = next, !.queue = rest].queue = rest
          /\ [y EXCEPT !.active = next, !.queue = rest].intr = FALSE
      BY <1>4 DEF SessionType
    <2> QED BY <2>1, <2>2, <1>1, <1>5
  <1>17. open' \subseteq Turns /\ changed' \in BOOLEAN
    <2>1. open' \subseteq o
      BY DEF Finish
    <2>2. changed' \in BOOLEAN
      BY DEF Finish
    <2> QED BY <2>1, <2>2
  <1>18. ClaudeTypeOK'
    <2>1. run' \in [Turns -> RunType]
      BY <1>14, <1>15
    <2>2. changes' \in 0..MaxGen /\ struck' \subseteq Turns
          /\ asked' \in [Turns -> Turns \cup {NoTurn}]
      BY <1>1, TypesAgree
    <2> QED BY <2>1, <2>2, <1>16, <1>17 DEF ClaudeTypeOK, RunType, SessionType, Phases
  <1>19. s = SessionOf[t] /\ sess[s].active = t /\ q = sess[s].queue
    BY DEF s, q
  <1>20. OneAtWork'
    <2>1. ASSUME NEW u \in Turns
          PROVE  run'[u].ph \in AtWork <=> sess'[SessionOf[u]].active = u
      <3>1. (run[u].ph \in AtWork <=> sess[SessionOf[u]].active = u) /\ SessionOf[u] \in Sessions
        BY TurnHasSession DEF ClaudeInv, OneAtWork
      <3>2. CASE u = t \/ u \in skipped
        <4>1. run'[u].ph = "over"
          BY <3>2, <1>15
        <4>2. SessionOf[u] = s /\ u # next
          BY <3>2, <1>9, <1>10, <1>19, ClaudeAssumption
        <4> QED BY <4>1, <4>2, <1>16 DEF AtWork
      <3>3. CASE u = next
        BY <3>3, <1>10, <1>15, <1>16, ClaudeAssumption DEF AtWork
      <3>4. CASE u # t /\ u \notin skipped /\ u # next
        BY <3>1, <3>4, <1>12, <1>16, <1>19
      <3> QED BY <3>2, <3>3, <3>4
    <2>2. ASSUME NEW r \in Sessions, sess'[r].active # NoTurn
          PROVE  SessionOf[sess'[r].active] = r
      BY <2>2, <1>10, <1>16 DEF ClaudeInv, OneAtWork
    <2>3. ASSUME NEW r \in Sessions, NEW i \in 1..Len(sess'[r].queue)
          PROVE  /\ run'[sess'[r].queue[i]].ph = "queued" /\ SessionOf[sess'[r].queue[i]] = r
                 /\ \A j \in 1..Len(sess'[r].queue) :
                       sess'[r].queue[i] = sess'[r].queue[j] => i = j
      <3>1. CASE r = s
        BY <2>3, <3>1, <1>11, <1>12, <1>16
      <3>2. CASE r # s
        <4>1. sess'[r] = sess[r] /\ sess[r].queue \in Seq(Turns)
          BY <3>2, <1>1, <1>16 DEF SessionType
        <4> DEFINE w == sess[r].queue[i]
        <4>2. w \in Turns /\ run[w].ph = "queued" /\ SessionOf[w] = r
          BY <2>3, <4>1 DEF ClaudeInv, OneAtWork
        <4> HIDE DEF w
        <4>4. w # t /\ w \notin skipped /\ w # next
          BY <4>2, <3>2, <1>9, <1>10, <1>19, ClaudeAssumption
        <4>3. run'[w] = run[w]
          BY <4>2, <4>4, <3>2, <1>9, <1>10, <1>12, <1>19, ClaudeAssumption
        <4> USE DEF w
        <4> QED BY <2>3, <4>1, <4>2, <4>3 DEF ClaudeInv, OneAtWork
      <3> QED BY <3>1, <3>2
    <2> QED BY <2>1, <2>2, <2>3 DEF OneAtWork
  <1>21. MarksAreOwn'
    <2>1. ASSUME NEW u \in Turns, asked'[u] # NoTurn \/ run'[u].timer # NoTurn
          PROVE  run'[u].killed
      <3>1. run'[u].timer # NoTurn => run[u].timer # NoTurn
        BY <1>15
      <3> QED BY <2>1, <3>1, <1>15 DEF ClaudeInv, MarksAreOwn
    <2>2. ASSUME NEW r \in Sessions, sess'[r].intr
          PROVE  sess'[r].active # NoTurn /\ run'[sess'[r].active].killed
      <3>1. sess'[r] = sess[r] /\ sess[r].active \in Turns \cup {NoTurn}
        BY <2>2, <1>1, <1>16 DEF SessionType
      <3> QED BY <2>2, <3>1, <1>15 DEF ClaudeInv, MarksAreOwn
    <2>3. ASSUME NEW u \in Turns, run'[u].ph = "pushed", sess'[SessionOf[u]].aborted
          PROVE  run'[u].killed \/ u \in struck'
      <3>1. u # t /\ u \notin skipped /\ u # next
        BY <2>3, <1>15
      <3>2. run'[u] = run[u] /\ SessionOf[u] \in Sessions
        BY <3>1, <1>12, TurnHasSession
      <3>3. sess[SessionOf[u]].active = u
        BY <2>3, <3>2 DEF ClaudeInv, OneAtWork, AtWork
      <3>4. SessionOf[u] # s
        BY <3>1, <3>3, <1>19
      <3> QED BY <2>3, <3>2, <3>4, <1>16 DEF ClaudeInv, MarksAreOwn
    <2>4. ASSUME NEW u \in Turns, run'[u].out = "killed"
          PROVE  run'[u].killed \/ u \in struck'
      <3>1. CASE u = t
        <4>1. run'[u].out = out
          BY <3>1, <1>15
        <4> QED BY <2>4, <3>1, <4>1, <1>15
      <3>2. CASE u \in skipped
        BY <3>2, <1>9, <1>15
      <3>3. CASE u # t /\ u \notin skipped
        <4>1. run'[u].out = run[u].out
          BY <3>3, <1>12, <1>15
        <4> QED BY <2>4, <4>1, <1>15 DEF ClaudeInv, MarksAreOwn
      <3> QED BY <3>1, <3>2, <3>3
    <2> QED BY <2>1, <2>2, <2>3, <2>4 DEF MarksAreOwn
  <1> QED BY <1>18, <1>20, <1>21 DEF ClaudeInv

(* Query n of session r is closed; the record x is what becomes of r.        *)
LEMMA ShutKeeps ==
    ASSUME ClaudeInv, NEW r \in Sessions, NEW n, NEW x \in SessionType,
           x.active = sess[r].active, x.queue = sess[r].queue, x.intr = sess[r].intr,
           \A t \in Turns : x.active = t /\ run[t].ph = "pushed" /\ x.aborted
                              => run[t].killed \/ t \in struck',
           Shut(r, n, x),
           struck \subseteq struck' /\ struck' \subseteq Turns,
           asked' \in [Turns -> Turns \cup {NoTurn}],
           \A u \in Turns : asked'[u] # NoTurn => asked[u] # NoTurn,
           UNCHANGED changes
    PROVE  ClaudeInv'
  <1> DEFINE t == x.active
  <1>1. /\ run \in [Turns -> RunType] /\ sess \in [Sessions -> SessionType] /\ open \subseteq Turns
        /\ ClaudeTypeOK /\ t \in Turns \cup {NoTurn}
    BY TypesAgree DEF ClaudeInv, SessionType
  <1>2. ASSUME t # NoTurn, At(t, "pushed"),
               Finish(t, IF x.intr \/ x.aborted THEN "killed" ELSE "error",
                      Leaving(x, n), open \ {n})
        PROVE  ClaudeInv'
    <2> DEFINE out == IF x.intr \/ x.aborted THEN "killed" ELSE "error"
               z == Leaving(x, n)
    <2>1. t \in Turns /\ SessionOf[t] = r /\ sess[SessionOf[t]].active = t
      BY <1>1, <1>2 DEF ClaudeInv, OneAtWork
    <2>2. z \in SessionType /\ z.queue = sess[SessionOf[t]].queue
      BY <2>1 DEF Leaving, SessionType
    <2>3. out = "killed" => run[t].killed \/ t \in struck'
      BY <1>2, <2>1 DEF ClaudeInv, MarksAreOwn, At
    <2>4. out \in Ends /\ open \ {n} \subseteq Turns
      BY <1>1 DEF Ends
    <2>5. Finish(t, out, z, open \ {n})
      BY <1>2
    <2> HIDE DEF out, z, t
    <2> QED BY <2>1, <2>2, <2>3, <2>4, <2>5, FinishKeeps
  <1>3. ASSUME sess' = [sess EXCEPT ![r] = x], open' = open \ {n}, UNCHANGED <<run, changed>>
        PROVE  ClaudeInv'
    <2>1. /\ sess' \in [Sessions -> SessionType] /\ sess'[r] = x
          /\ \A p \in Sessions : p # r => sess'[p] = sess[p]
      BY <1>1, <1>3
    <2>2. ClaudeTypeOK'
      BY <1>1, <1>3, <2>1 DEF ClaudeTypeOK, RunType, SessionType, Phases
    <2>3. OneAtWork'
      <3>1. \A p \in Sessions : sess'[p].active = sess[p].active /\ sess'[p].queue = sess[p].queue
        BY <2>1
      <3> QED BY <1>3, <3>1, TurnHasSession DEF ClaudeInv, OneAtWork
    <2>4. MarksAreOwn'
      <3>1. \A p \in Sessions : sess'[p].active = sess[p].active /\ sess'[p].intr = sess[p].intr
        BY <2>1
      <3>2. ASSUME NEW u \in Turns, run[u].ph = "pushed", sess'[SessionOf[u]].aborted
            PROVE  run[u].killed \/ u \in struck'
        <4>1. sess[SessionOf[u]].active = u /\ SessionOf[u] \in Sessions
          BY <3>2, TurnHasSession DEF ClaudeInv, OneAtWork, AtWork
        <4>2. CASE SessionOf[u] = r
          BY <3>2, <4>1, <4>2, <2>1
        <4>3. CASE SessionOf[u] # r
          BY <3>2, <4>1, <4>3, <2>1 DEF ClaudeInv, MarksAreOwn
        <4> QED BY <4>2, <4>3
      <3> QED BY <1>3, <3>1, <3>2 DEF ClaudeInv, MarksAreOwn
    <2> QED BY <2>2, <2>3, <2>4 DEF ClaudeInv
  <1> QED BY <1>2, <1>3 DEF Shut

(* What changes no turn, and no session at work.                             *)
LEMMA RestKeeps ==
    ASSUME ClaudeInv, UNCHANGED <<run, struck>>,
           sess' \in [Sessions -> SessionType],
           \A r \in Sessions : /\ sess'[r].active = sess[r].active
                               /\ sess'[r].queue = sess[r].queue /\ sess'[r].intr = sess[r].intr
                               /\ sess[r].active # NoTurn => sess'[r].aborted = sess[r].aborted,
           open' \subseteq Turns, changes' \in 0..MaxGen, changed' \in BOOLEAN,
           asked' \in [Turns -> Turns \cup {NoTurn}],
           \A u \in Turns : asked'[u] # NoTurn => asked[u] # NoTurn
    PROVE  ClaudeInv'
  <1>1. ClaudeTypeOK'
    BY TypesAgree DEF ClaudeInv, ClaudeTypeOK, RunType, SessionType, Phases
  <1>2. OneAtWork'
    BY TurnHasSession DEF ClaudeInv, OneAtWork
  <1>3. MarksAreOwn'
    <2>1. ASSUME NEW u \in Turns, run[u].ph = "pushed", sess'[SessionOf[u]].aborted
          PROVE  run[u].killed \/ u \in struck
      BY <2>1, TurnHasSession, ClaudeAssumption DEF ClaudeInv, OneAtWork, MarksAreOwn, AtWork
    <2> QED BY <2>1 DEF ClaudeInv, MarksAreOwn
  <1> QED BY <1>1, <1>2, <1>3 DEF ClaudeInv

(* The turn at work goes on.                                                 *)
LEMMA MoveKeeps ==
    ASSUME ClaudeInv, NEW t \in Turns, run[t].ph \in AtWork,
           NEW ph \in AtWork, NEW n \in Turns \cup {NoTurn},
           run' = [run EXCEPT ![t].ph = ph, ![t].on = n],
           sess' \in [Sessions -> SessionType],
           \A r \in Sessions : /\ sess'[r].active = sess[r].active
                               /\ sess'[r].queue = sess[r].queue /\ sess'[r].intr = sess[r].intr
                               /\ r # SessionOf[t] => sess'[r] = sess[r],
           ph = "pushed" /\ sess'[SessionOf[t]].aborted => run[t].killed \/ t \in struck',
           open' \subseteq Turns, struck \subseteq struck' /\ struck' \subseteq Turns,
           UNCHANGED <<asked, changes, changed>>
    PROVE  ClaudeInv'
  <1>1. run \in [Turns -> RunType] /\ ClaudeTypeOK
    BY TypesAgree DEF ClaudeInv
  <1>2. run' \in [Turns -> RunType]
    <2>1. run[t] \in RunType /\ ph \in Phases
      BY <1>1 DEF Phases, AtWork
    <2>2. [run[t] EXCEPT !.ph = ph, !.on = n] \in RunType
      BY <2>1 DEF RunType
    <2>3. run' = [run EXCEPT ![t] = [run[t] EXCEPT !.ph = ph, !.on = n]]
      BY <1>1
    <2> QED BY <1>1, <2>2, <2>3
  <1>3. /\ run'[t].ph = ph /\ run'[t].killed = run[t].killed /\ run'[t].out = run[t].out
        /\ run'[t].timer = run[t].timer
        /\ \A u \in Turns : u # t => run'[u] = run[u]
    BY <1>1 DEF RunType
  <1>4. ClaudeTypeOK'
    BY <1>1, <1>2 DEF ClaudeTypeOK, RunType, SessionType, Phases
  <1>5. sess[SessionOf[t]].active = t /\ SessionOf[t] \in Sessions
    BY TurnHasSession DEF ClaudeInv, OneAtWork
  <1>6. OneAtWork'
    <2>1. \A u \in Turns : run'[u].ph \in AtWork <=> sess'[SessionOf[u]].active = u
      <3> SUFFICES ASSUME NEW u \in Turns
                   PROVE  run'[u].ph \in AtWork <=> sess'[SessionOf[u]].active = u
        OBVIOUS
      <3>1. /\ sess'[SessionOf[u]].active = sess[SessionOf[u]].active
            /\ run[u].ph \in AtWork <=> sess[SessionOf[u]].active = u
        BY TurnHasSession DEF ClaudeInv, OneAtWork
      <3> QED BY <3>1, <1>3, <1>5
    <2>2. \A u \in Turns : run[u].ph = "queued" => run'[u].ph = "queued"
      BY <1>3 DEF AtWork
    <2>3. ASSUME NEW r \in Sessions, NEW i \in 1..Len(sess'[r].queue)
          PROVE  /\ run'[sess'[r].queue[i]].ph = "queued" /\ SessionOf[sess'[r].queue[i]] = r
                 /\ \A j \in 1..Len(sess'[r].queue) :
                       sess'[r].queue[i] = sess'[r].queue[j] => i = j
      <3>1. sess'[r].queue = sess[r].queue /\ sess[r].queue \in Seq(Turns)
        BY <1>1, TypesAgree DEF SessionType
      <3>2. sess[r].queue[i] \in Turns
        BY <3>1, <2>3
      <3>3. /\ run[sess[r].queue[i]].ph = "queued" /\ SessionOf[sess[r].queue[i]] = r
            /\ \A j \in 1..Len(sess[r].queue) : sess[r].queue[i] = sess[r].queue[j] => i = j
        BY <2>3, <3>1 DEF ClaudeInv, OneAtWork
      <3> QED BY <2>2, <3>1, <3>2, <3>3
    <2>4. \A r \in Sessions : sess'[r].active # NoTurn => SessionOf[sess'[r].active] = r
      BY DEF ClaudeInv, OneAtWork
    <2> QED BY <2>1, <2>3, <2>4 DEF OneAtWork
  <1>7. MarksAreOwn'
    <2>1. \A u \in Turns : run'[u].killed = run[u].killed /\ run'[u].out = run[u].out
                           /\ run'[u].timer = run[u].timer
      BY <1>3
    <2>2. ASSUME NEW u \in Turns, run'[u].ph = "pushed", sess'[SessionOf[u]].aborted
          PROVE  run[u].killed \/ u \in struck'
      <3>1. CASE u = t
        BY <2>2, <3>1, <1>3
      <3>2. CASE u # t
        <4>1. run[u].ph = "pushed" /\ SessionOf[u] \in Sessions
          BY <2>2, <3>2, <1>3, TurnHasSession
        <4>2. SessionOf[u] # SessionOf[t]
          BY <3>2, <4>1, <1>5 DEF ClaudeInv, OneAtWork, AtWork
        <4> QED BY <2>2, <4>1, <4>2 DEF ClaudeInv, MarksAreOwn
      <3> QED BY <3>1, <3>2
    <2>3. ASSUME NEW r \in Sessions, sess'[r].intr
          PROVE  sess'[r].active # NoTurn /\ run'[sess'[r].active].killed
      <3>1. sess[r].intr /\ sess[r].active \in Turns \cup {NoTurn}
        BY <2>3, <1>1, TypesAgree DEF SessionType
      <3>2. sess[r].active # NoTurn /\ run[sess[r].active].killed
        BY <3>1 DEF ClaudeInv, MarksAreOwn
      <3>3. sess'[r].active = sess[r].active
        BY <2>3, <3>1, <3>2
      <3>4. sess[r].active \in Turns
        BY <3>1, <3>2
      <3>5. run'[sess[r].active].killed
        BY <2>1, <3>2, <3>4
      <3>6. sess'[r].active # NoTurn
        BY <3>2, <3>3
      <3>7. run'[sess'[r].active].killed
        BY <3>3, <3>5, Zenon
      <3> QED BY <3>6, <3>7
    <2>4. \A u \in Turns : asked'[u] # NoTurn \/ run'[u].timer # NoTurn => run'[u].killed
      BY <2>1 DEF ClaudeInv, MarksAreOwn
    <2>5. \A u \in Turns : run'[u].out = "killed" => run'[u].killed \/ u \in struck'
      BY <2>1 DEF ClaudeInv, MarksAreOwn
    <2>6. \A u \in Turns : run'[u].ph = "pushed" /\ sess'[SessionOf[u]].aborted
                              => run'[u].killed \/ u \in struck'
      BY <2>1, <2>2
    <2> QED BY <2>3, <2>4, <2>5, <2>6 DEF MarksAreOwn
  <1> QED BY <1>4, <1>6, <1>7 DEF ClaudeInv

LEMMA StartRunKeeps == ASSUME ClaudeInv, NEW t \in Turns, StartRun(t) PROVE ClaudeInv'
  <1> DEFINE s == SessionOf[t]
  <1>1. /\ run \in [Turns -> RunType] /\ sess \in [Sessions -> SessionType] /\ s \in Sessions
        /\ ClaudeTypeOK /\ run[t].ph = "new" /\ UNCHANGED <<open, asked, changes, changed, struck>>
        /\ sess[s] \in SessionType
    BY TypesAgree, TurnHasSession DEF ClaudeInv, StartRun, At
  <1>2. \A r \in Sessions : /\ sess[r].queue \in Seq(Turns)
                            /\ sess[r].active # t
                            /\ \A i \in 1..Len(sess[r].queue) : sess[r].queue[i] # t
    BY <1>1, ClaudeAssumption DEF ClaudeInv, OneAtWork, SessionType, AtWork
  <1>3. ASSUME NEW ph \in {"loading", "queued"}, run' = [run EXCEPT ![t].ph = ph]
        PROVE  /\ run' \in [Turns -> RunType]
               /\ run'[t].ph = ph
               /\ \A u \in Turns : /\ run'[u].killed = run[u].killed /\ run'[u].out = run[u].out
                                   /\ run'[u].timer = run[u].timer
                                   /\ u # t => run'[u] = run[u]
    BY <1>1, <1>3 DEF RunType, Phases
  <1>4. CASE /\ sess[s].active = NoTurn /\ run' = [run EXCEPT ![t].ph = "loading"]
             /\ sess' = [sess EXCEPT ![s].active = t]
    <2>1. /\ run' \in [Turns -> RunType] /\ run'[t].ph = "loading"
          /\ \A u \in Turns : /\ run'[u].killed = run[u].killed /\ run'[u].out = run[u].out
                              /\ run'[u].timer = run[u].timer
                              /\ u # t => run'[u] = run[u]
      BY <1>3, <1>4
    <2>2. /\ sess' \in [Sessions -> SessionType] /\ sess'[s].active = t
          /\ \A r \in Sessions : /\ sess'[r].queue = sess[r].queue /\ sess'[r].intr = sess[r].intr
                                 /\ sess'[r].aborted = sess[r].aborted
                                 /\ r # s => sess'[r].active = sess[r].active
      BY <1>1, <1>4 DEF SessionType
    <2>3. ClaudeTypeOK'
      BY <1>1, <2>1, <2>2 DEF ClaudeTypeOK, RunType, SessionType, Phases
    <2>4. \A u \in Turns : run'[u].ph \in AtWork <=> sess'[SessionOf[u]].active = u
      BY <1>1, <1>2, <1>4, <2>1, <2>2, TurnHasSession, ClaudeAssumption DEF ClaudeInv, OneAtWork, AtWork
    <2>5. \A r \in Sessions : sess'[r].active # NoTurn => SessionOf[sess'[r].active] = r
      BY <2>2 DEF ClaudeInv, OneAtWork
    <2>6. \A r \in Sessions : \A i \in 1..Len(sess[r].queue) : run'[sess[r].queue[i]] = run[sess[r].queue[i]]
      BY <1>2, <2>1
    <2>7. OneAtWork'
      BY <2>2, <2>4, <2>5, <2>6 DEF ClaudeInv, OneAtWork
    <2>8. \A r \in Sessions : sess'[r].intr => sess'[r].active # NoTurn /\ run'[sess'[r].active].killed
      <3> SUFFICES ASSUME NEW r \in Sessions, sess'[r].intr
                   PROVE  sess'[r].active # NoTurn /\ run'[sess'[r].active].killed
        OBVIOUS
      <3>1. sess[r].active # NoTurn /\ run[sess[r].active].killed /\ sess[r].active \in Turns
        BY <1>1, <2>2 DEF ClaudeInv, MarksAreOwn, SessionType
      <3> QED BY <3>1, <1>4, <2>1, <2>2
    <2>9. MarksAreOwn'
      BY <1>1, <2>1, <2>2, <2>8, TurnHasSession DEF ClaudeInv, MarksAreOwn
    <2> QED BY <2>3, <2>7, <2>9 DEF ClaudeInv
  <1>5. CASE /\ sess[s].active # NoTurn /\ run' = [run EXCEPT ![t].ph = "queued"]
             /\ sess' = [sess EXCEPT ![s].queue = Append(@, t)]
    <2>1. /\ run' \in [Turns -> RunType] /\ run'[t].ph = "queued"
          /\ \A u \in Turns : /\ run'[u].killed = run[u].killed /\ run'[u].out = run[u].out
                              /\ run'[u].timer = run[u].timer
                              /\ u # t => run'[u] = run[u]
      BY <1>3, <1>5
    <2>2. /\ sess' \in [Sessions -> SessionType] /\ sess'[s].queue = Append(sess[s].queue, t)
          /\ \A r \in Sessions : /\ sess'[r].active = sess[r].active /\ sess'[r].intr = sess[r].intr
                                 /\ sess'[r].aborted = sess[r].aborted
                                 /\ r # s => sess'[r].queue = sess[r].queue
      <3>1. Append(sess[s].queue, t) \in Seq(Turns)
        BY <1>1, <1>2
      <3>2. [sess[s] EXCEPT !.queue = Append(sess[s].queue, t)] \in SessionType
        BY <1>1, <3>1 DEF SessionType
      <3>3. sess' = [sess EXCEPT ![s] = [sess[s] EXCEPT !.queue = Append(sess[s].queue, t)]]
        BY <1>5
      <3> QED BY <1>1, <3>2, <3>3 DEF SessionType
    <2>3. ClaudeTypeOK'
      BY <1>1, <2>1, <2>2 DEF ClaudeTypeOK, RunType, SessionType, Phases
    <2>4. \A u \in Turns : run'[u].ph \in AtWork <=> sess'[SessionOf[u]].active = u
      BY <1>1, <1>2, <2>1, <2>2, TurnHasSession DEF ClaudeInv, OneAtWork, AtWork
    <2>5. ASSUME NEW r \in Sessions, NEW i \in 1..Len(sess'[r].queue)
          PROVE  /\ run'[sess'[r].queue[i]].ph = "queued" /\ SessionOf[sess'[r].queue[i]] = r
                 /\ \A j \in 1..Len(sess'[r].queue) :
                       sess'[r].queue[i] = sess'[r].queue[j] => i = j
      <3> DEFINE q == sess[r].queue
      <3>1. \A j \in 1..Len(q) : /\ q[j] # t /\ q[j] \in Turns /\ run'[q[j]].ph = "queued"
                                 /\ SessionOf[q[j]] = r
                                 /\ \A k \in 1..Len(q) : q[j] = q[k] => j = k
        BY <1>2, <2>1 DEF ClaudeInv, OneAtWork
      <3>2. CASE r # s
        BY <2>2, <2>5, <3>1, <3>2
      <3>3. CASE r = s
        <4>1. /\ q \in Seq(Turns) /\ Len(sess'[r].queue) = Len(q) + 1 /\ Len(q) \in Nat
              /\ sess'[r].queue[Len(q) + 1] = t
              /\ \A j \in 1..Len(q) : sess'[r].queue[j] = q[j]
          BY <1>2, <2>2, <3>3
        <4> HIDE DEF q
        <4> QED BY <2>1, <2>5, <3>1, <3>3, <4>1
      <3> QED BY <3>2, <3>3
    <2>6. OneAtWork'
      BY <2>2, <2>4, <2>5 DEF ClaudeInv, OneAtWork
    <2>7. \A r \in Sessions : sess'[r].intr => sess'[r].active # NoTurn /\ run'[sess'[r].active].killed
      <3> SUFFICES ASSUME NEW r \in Sessions, sess'[r].intr
                   PROVE  sess'[r].active # NoTurn /\ run'[sess'[r].active].killed
        OBVIOUS
      <3>1. sess[r].active # NoTurn /\ run[sess[r].active].killed /\ sess[r].active \in Turns
        BY <1>1, <2>2 DEF ClaudeInv, MarksAreOwn, SessionType
      <3> QED BY <3>1, <2>1, <2>2
    <2>8. MarksAreOwn'
      BY <1>1, <2>1, <2>2, <2>7, TurnHasSession DEF ClaudeInv, MarksAreOwn
    <2> QED BY <2>3, <2>6, <2>8 DEF ClaudeInv
  <1> QED BY <1>4, <1>5 DEF StartRun

LEMMA LoadKeeps == ASSUME ClaudeInv, NEW t \in Turns, Load(t) PROVE ClaudeInv'
  <1> DEFINE x == sess[SessionOf[t]]
  <1>1. /\ run[t].ph \in AtWork /\ x.active = t /\ x \in SessionType /\ open \subseteq Turns
        /\ sess \in [Sessions -> SessionType] /\ struck \subseteq Turns
        /\ asked \in [Turns -> Turns \cup {NoTurn}]
        /\ UNCHANGED <<asked, changes>> /\ run[t].ph = "loading"
    BY TypesAgree, TurnHasSession DEF ClaudeInv, OneAtWork, Load, At, AtWork
  <1>2. CASE /\ Finish(t, IF run[t].killed THEN "killed" ELSE "error", x, open)
             /\ UNCHANGED struck
    <2> DEFINE out == IF run[t].killed THEN "killed" ELSE "error"
    <2>1. out \in Ends /\ (out = "killed" => run[t].killed)
      BY DEF Ends
    <2>2. Finish(t, out, x, open)
      BY <1>2
    <2> HIDE DEF out
    <2> QED BY <1>1, <1>2, <2>1, <2>2, FinishKeeps
  <1>3. CASE /\ UNCHANGED sess
             /\ IF x.live \in open THEN Move(t, "pushed", x.live) ELSE Move(t, "resolving", NoTurn)
             /\ struck' = IF x.live \in open /\ x.aborted THEN struck \cup {t} ELSE struck
    <2> DEFINE ph == IF x.live \in open THEN "pushed" ELSE "resolving"
               n  == IF x.live \in open THEN x.live ELSE NoTurn
    <2>1. ph \in AtWork /\ n \in Turns \cup {NoTurn} /\ (ph = "pushed" => x.live \in open)
      BY <1>1 DEF AtWork, SessionType
    <2>2. run' = [run EXCEPT ![t].ph = ph, ![t].on = n] /\ UNCHANGED <<open, changed>>
      BY <1>3 DEF Move
    <2>3. struck \subseteq struck' /\ struck' \subseteq Turns
          /\ (ph = "pushed" /\ x.aborted => t \in struck')
      BY <1>1, <1>3, <2>1
    <2> HIDE DEF ph, n
    <2> QED BY <1>1, <1>3, <2>1, <2>2, <2>3, MoveKeeps
  <1> QED BY <1>2, <1>3 DEF Load

LEMMA BuildKeeps == ASSUME ClaudeInv, NEW t \in Turns, Build(t) PROVE ClaudeInv'
  <1> DEFINE s == SessionOf[t]
             x == [sess[s] EXCEPT !.live = t, !.aborted = FALSE]
             out == IF run[t].killed THEN "killed" ELSE "error"
  <1>1. /\ run[t].ph \in AtWork /\ sess[s].active = t /\ sess[s] \in SessionType /\ open \subseteq Turns
        /\ sess \in [Sessions -> SessionType] /\ struck \subseteq Turns /\ s \in Sessions
        /\ asked \in [Turns -> Turns \cup {NoTurn}]
        /\ UNCHANGED <<asked, changes, struck>> /\ run[t].ph = "resolving"
    BY TypesAgree, TurnHasSession DEF ClaudeInv, OneAtWork, Build, At, AtWork
  <1>2. /\ x \in SessionType /\ x.active = t /\ x.queue = sess[s].queue /\ x.intr = sess[s].intr
        /\ ~x.aborted
    BY <1>1 DEF SessionType
  <1>3. Closed(x) \in SessionType /\ Closed(x).queue = sess[s].queue
    BY <1>2 DEF Closed, SessionType
  <1>4. out \in Ends /\ "killed" \in Ends /\ (out = "killed" => run[t].killed)
    BY DEF Ends
  <1> HIDE DEF x, out
  <1>5. CASE Finish(t, out, sess[s], open)
    BY <1>1, <1>4, <1>5, FinishKeeps
  <1>6. CASE run[t].killed /\ Finish(t, "killed", Closed(x), open)
    BY <1>1, <1>3, <1>4, <1>6, FinishKeeps
  <1>7. CASE /\ sess' = [sess EXCEPT ![s] = x] /\ open' = open \cup {t}
             /\ run' = [run EXCEPT ![t].ph = "pushed", ![t].on = t] /\ UNCHANGED changed
    <2>1. "pushed" \in AtWork /\ sess' \in [Sessions -> SessionType] /\ open' \subseteq Turns
      BY <1>1, <1>2, <1>7 DEF AtWork
    <2>2. /\ \A r \in Sessions : /\ sess'[r].active = sess[r].active
                                 /\ sess'[r].queue = sess[r].queue /\ sess'[r].intr = sess[r].intr
                                 /\ r # s => sess'[r] = sess[r]
          /\ ~sess'[s].aborted
      BY <1>1, <1>2, <1>7
    <2> QED BY <1>1, <1>7, <2>1, <2>2, MoveKeeps
  <1> QED BY <1>5, <1>6, <1>7 DEF Build, x, out

LEMMA SettledKeeps == ASSUME ClaudeInv, NEW t \in Turns, Settled(t) PROVE ClaudeInv'
  <1> DEFINE x == sess[SessionOf[t]]
             y == IF run[t].on \in open THEN x ELSE Leaving(x, run[t].on)
  <1>1. /\ x.active = t /\ x \in SessionType /\ open \subseteq Turns /\ struck \subseteq Turns
        /\ asked \in [Turns -> Turns \cup {NoTurn}] /\ SessionOf[t] \in Sessions
        /\ UNCHANGED <<asked, changes, struck>>
    BY TypesAgree, TurnHasSession DEF ClaudeInv, OneAtWork, Settled, At, AtWork
  <1>2. y \in SessionType /\ y.queue = x.queue
    BY <1>1 DEF Leaving, SessionType
  <1>3. PICK out \in (IF x.intr THEN {"killed"} ELSE {"done", "error"}) : Finish(t, out, y, open)
    BY DEF Settled
  <1>4. out \in Ends /\ (out = "killed" => x.intr)
    BY <1>3 DEF Ends
  <1>5. out = "killed" => run[t].killed
    BY <1>1, <1>4 DEF ClaudeInv, MarksAreOwn
  <1> HIDE DEF y
  <1> QED BY <1>1, <1>2, <1>3, <1>4, <1>5, FinishKeeps

(* A kill marks the turn it is asked for, and its session only if that turn  *)
(* is the one at work.                                                       *)
LEMMA KillKeeps == ASSUME ClaudeInv, NEW t \in Turns, Kill(t) PROVE ClaudeInv'
  <1> DEFINE s == SessionOf[t]
             n == sess[s].live
             timer == Armed(sess[s].active = t /\ n # NoTurn, n)
  <1>1. /\ run \in [Turns -> RunType] /\ sess \in [Sessions -> SessionType] /\ s \in Sessions
        /\ ClaudeTypeOK /\ UNCHANGED <<open, changes, changed, struck>>
    BY TypesAgree, TurnHasSession DEF ClaudeInv, Kill
  <1>2. run' = [run EXCEPT ![t].killed = TRUE, ![t].timer = timer] /\ timer \in Turns \cup {NoTurn}
    BY <1>1 DEF Kill, Armed, SessionType
  <1> HIDE DEF timer
  <1>3. run' \in [Turns -> RunType]
    <2>1. [run[t] EXCEPT !.killed = TRUE, !.timer = timer] \in RunType
      BY <1>1, <1>2 DEF RunType
    <2>2. run' = [run EXCEPT ![t] = [run[t] EXCEPT !.killed = TRUE, !.timer = timer]]
      BY <1>2
    <2> QED BY <1>1, <2>1, <2>2
  <1>4. /\ run'[t].killed
        /\ \A u \in Turns : /\ run'[u].ph = run[u].ph /\ run'[u].out = run[u].out
                            /\ run[u].killed => run'[u].killed
                            /\ u # t => run'[u] = run[u]
    BY <1>1, <1>2 DEF RunType
  <1>5. /\ sess' \in [Sessions -> SessionType]
        /\ \A r \in Sessions : /\ sess'[r].active = sess[r].active /\ sess'[r].queue = sess[r].queue
                               /\ sess'[r] = sess[r] \/ (r = s /\ sess[s].active = t)
    <2>1. CASE sess' = sess
      BY <1>1, <2>1
    <2>2. CASE /\ sess[s].active = t
               /\ sess' = [sess EXCEPT ![s].intr = TRUE,
                             ![s].aborted = @ \/ (sess[s].active = t /\ n # NoTurn /\ n \notin open)]
      <3> DEFINE ab == sess[s].aborted \/ (sess[s].active = t /\ n # NoTurn /\ n \notin open)
      <3>1. ab \in BOOLEAN
        BY <1>1 DEF SessionType
      <3>2. sess' = [sess EXCEPT ![s] = [sess[s] EXCEPT !.intr = TRUE, !.aborted = ab]]
        BY <2>2
      <3> HIDE DEF ab
      <3>3. LET z == [sess[s] EXCEPT !.intr = TRUE, !.aborted = ab] IN
              z \in SessionType /\ z.active = sess[s].active /\ z.queue = sess[s].queue
        BY <1>1, <3>1 DEF SessionType
      <3> QED BY <1>1, <2>2, <3>2, <3>3
    <2> QED BY <2>1, <2>2 DEF Kill
  <1>6. /\ asked' \in [Turns -> Turns \cup {NoTurn}]
        /\ \A u \in Turns : asked'[u] # NoTurn => asked[u] # NoTurn \/ u = t
    <2>1. asked' = asked \/ (asked' = [asked EXCEPT ![t] = n] /\ n \in open)
      BY DEF Kill
    <2>2. asked \in [Turns -> Turns \cup {NoTurn}] /\ open \subseteq Turns
      BY <1>1 DEF ClaudeTypeOK
    <2> QED BY <2>1, <2>2
  <1>7. ClaudeTypeOK'
    BY <1>1, <1>3, <1>5, <1>6 DEF ClaudeTypeOK, RunType, SessionType, Phases
  <1>8. OneAtWork'
    <2>1. \A r \in Sessions : \A i \in 1..Len(sess[r].queue) : sess[r].queue[i] \in Turns
      BY <1>1 DEF SessionType
    <2> QED BY <1>4, <1>5, <2>1, TurnHasSession DEF ClaudeInv, OneAtWork
  <1>9. MarksAreOwn'
    <2>1. \A u \in Turns : asked'[u] # NoTurn \/ run'[u].timer # NoTurn => run'[u].killed
      BY <1>4, <1>6 DEF ClaudeInv, MarksAreOwn
    <2>2. ASSUME NEW r \in Sessions, sess'[r].intr
          PROVE  sess'[r].active # NoTurn /\ run'[sess'[r].active].killed
      <3>1. CASE r = s /\ sess[s].active = t
        BY <3>1, <1>4, <1>5, ClaudeAssumption
      <3>2. CASE sess'[r] = sess[r]
        BY <2>2, <3>2, <1>1, <1>4 DEF ClaudeInv, MarksAreOwn, SessionType
      <3> QED BY <3>1, <3>2, <1>5
    <2>3. ASSUME NEW u \in Turns, run'[u].ph = "pushed", sess'[SessionOf[u]].aborted
          PROVE  run'[u].killed \/ u \in struck
      <3>1. sess[SessionOf[u]].active = u /\ SessionOf[u] \in Sessions
        BY <2>3, <1>4, TurnHasSession DEF ClaudeInv, OneAtWork, AtWork
      <3>2. CASE sess'[SessionOf[u]] = sess[SessionOf[u]]
        BY <2>3, <3>2, <1>4 DEF ClaudeInv, MarksAreOwn
      <3>3. CASE u = t
        BY <3>3, <1>4
      <3> QED BY <3>1, <3>2, <3>3, <1>5
    <2>4. \A u \in Turns : run'[u].out = "killed" => run'[u].killed \/ u \in struck
      BY <1>4 DEF ClaudeInv, MarksAreOwn
    <2> QED BY <1>1, <2>1, <2>2, <2>3, <2>4 DEF MarksAreOwn
  <1> QED BY <1>7, <1>8, <1>9 DEF ClaudeInv

(* The refusal of the interrupt of t strikes whoever has sent a message.     *)
LEMMA StrikeKeeps ==
    ASSUME ClaudeInv, NEW t \in Turns, NEW n, run[t].killed, Strike(t, n),
           asked' \in [Turns -> Turns \cup {NoTurn}],
           \A u \in Turns : asked'[u] # NoTurn => asked[u] # NoTurn,
           UNCHANGED changes
    PROVE  ClaudeInv'
  <1> DEFINE s == SessionOf[t]
             x == [sess[s] EXCEPT !.aborted = TRUE]
  <1>1. s \in Sessions /\ sess[s] \in SessionType /\ struck \subseteq Turns
    BY TypesAgree, TurnHasSession DEF ClaudeInv
  <1>2. /\ x \in SessionType /\ x.active = sess[s].active /\ x.queue = sess[s].queue
        /\ x.intr = sess[s].intr
    BY <1>1 DEF SessionType
  <1>3. struck' = struck \cup {u \in Turns \ {t} : u = sess[s].active /\ At(u, "pushed")}
        /\ Shut(s, n, x)
    BY DEF Strike
  <1>4. struck \subseteq struck' /\ struck' \subseteq Turns
    BY <1>1, <1>3
  <1>5. \A u \in Turns : x.active = u /\ run[u].ph = "pushed" /\ x.aborted
                           => run[u].killed \/ u \in struck'
    BY <1>2, <1>3 DEF At
  <1> HIDE DEF x
  <1> QED BY <1>1, <1>2, <1>3, <1>4, <1>5, ShutKeeps

LEMMA ClosedKeeps ==
    ASSUME NEW x \in SessionType
    PROVE  /\ Closed(x) \in SessionType /\ Closed(x).active = x.active
           /\ Closed(x).queue = x.queue /\ Closed(x).intr = x.intr
  BY DEF Closed, SessionType

LEMMA ClaudeStep == ClaudeInv /\ [ClaudeNext]_claudeVars => ClaudeInv'
  <1> SUFFICES ASSUME ClaudeInv, [ClaudeNext]_claudeVars PROVE ClaudeInv'
    OBVIOUS
  <1>1. /\ run \in [Turns -> RunType] /\ sess \in [Sessions -> SessionType]
        /\ open \subseteq Turns /\ asked \in [Turns -> Turns \cup {NoTurn}]
        /\ changes \in 0..MaxGen /\ changed \in BOOLEAN /\ struck \subseteq Turns
    BY TypesAgree DEF ClaudeInv
  <1>2. ASSUME NEW t \in Turns, Result(t) PROVE ClaudeInv'
    <2>1. /\ run[t].ph \in AtWork /\ "resulted" \in AtWork /\ run[t].on \in Turns \cup {NoTurn}
          /\ run' = [run EXCEPT ![t].ph = "resulted", ![t].on = run[t].on]
          /\ UNCHANGED <<sess, open, asked, changes, changed, struck>>
      BY <1>1, <1>2 DEF Result, Move, At, AtWork, RunType
    <2>2. /\ sess' \in [Sessions -> SessionType] /\ open' \subseteq Turns
          /\ struck \subseteq struck' /\ struck' \subseteq Turns /\ "resulted" # "pushed"
          /\ \A r \in Sessions : /\ sess'[r].active = sess[r].active
                                 /\ sess'[r].queue = sess[r].queue /\ sess'[r].intr = sess[r].intr
                                 /\ r # SessionOf[t] => sess'[r] = sess[r]
      BY <1>1, <2>1
    <2>3. UNCHANGED <<asked, changes, changed>>
      BY <2>1
    <2> DEFINE ph == "resulted"
               n  == run[t].on
    <2>4. /\ run[t].ph \in AtWork /\ ph \in AtWork /\ n \in Turns \cup {NoTurn}
          /\ run' = [run EXCEPT ![t].ph = ph, ![t].on = n] /\ ph # "pushed"
      BY <2>1
    <2> HIDE DEF ph, n
    <2> QED BY <2>2, <2>3, <2>4, MoveKeeps
  <1>3. ASSUME NEW n \in Turns, QueryDies(n) PROVE ClaudeInv'
    <2> DEFINE s == SessionOf[n]
    <2>1. s \in Sessions /\ sess[s] \in SessionType /\ Shut(s, n, sess[s])
          /\ UNCHANGED <<asked, changes, struck>>
      BY <1>1, <1>3, TurnHasSession DEF QueryDies
    <2>2. \A t \in Turns : sess[s].active = t /\ run[t].ph = "pushed" /\ sess[s].aborted
                             => run[t].killed \/ t \in struck
      BY <2>1, ClaudeAssumption DEF ClaudeInv, OneAtWork, MarksAreOwn
    <2> QED BY <1>1, <2>1, <2>2, ShutKeeps
  <1>4. ASSUME NEW t \in Turns, InterruptFails(t) PROVE ClaudeInv'
    <2>1. run[t].killed
      BY <1>4 DEF InterruptFails, ClaudeInv, MarksAreOwn
    <2>2. /\ asked' \in [Turns -> Turns \cup {NoTurn}]
          /\ \A u \in Turns : asked'[u] # NoTurn => asked[u] # NoTurn
      BY <1>1, <1>4 DEF InterruptFails
    <2> QED BY <1>4, <2>1, <2>2, StrikeKeeps DEF InterruptFails
  <1>5. ASSUME NEW t \in Turns, InterruptAccepted(t) PROVE ClaudeInv'
    <2>1. /\ asked' \in [Turns -> Turns \cup {NoTurn}]
          /\ \A u \in Turns : asked'[u] # NoTurn => asked[u] # NoTurn
      BY <1>1, <1>5 DEF InterruptAccepted
    <2> QED BY <1>1, <1>5, <2>1, RestKeeps DEF InterruptAccepted
  <1>6. ASSUME NEW t \in Turns, Fallback(t) PROVE ClaudeInv'
    <2>1. run[t].killed
      BY <1>6 DEF Fallback, ClaudeInv, MarksAreOwn
    <2> QED BY <1>1, <1>6, <2>1, StrikeKeeps DEF Fallback
  <1>7. ASSUME NEW s \in Sessions, ReapSession(s) PROVE ClaudeInv'
    <2>1. sess[s] \in SessionType /\ sess[s].active = NoTurn
      BY <1>1, <1>7 DEF ReapSession
    <2>2. sess' = [sess EXCEPT ![s] = Closed(sess[s])]
      BY <1>7 DEF ReapSession
    <2>3. /\ sess' \in [Sessions -> SessionType]
          /\ \A r \in Sessions : /\ sess'[r].active = sess[r].active
                                 /\ sess'[r].queue = sess[r].queue /\ sess'[r].intr = sess[r].intr
                                 /\ sess[r].active # NoTurn => sess'[r].aborted = sess[r].aborted
      BY <1>1, <2>1, <2>2, ClosedKeeps
    <2> QED BY <1>1, <1>7, <2>3, RestKeeps DEF ReapSession
  <1>8. CASE RuntimeChange
    <2> DEFINE idle == {s \in Sessions : sess[s].active = NoTurn}
    <2>1. sess' = [s \in Sessions |-> IF s \in idle THEN Closed(sess[s]) ELSE sess[s]]
      BY <1>8 DEF RuntimeChange
    <2>2. /\ sess' \in [Sessions -> SessionType]
          /\ \A r \in Sessions : /\ sess'[r].active = sess[r].active
                                 /\ sess'[r].queue = sess[r].queue /\ sess'[r].intr = sess[r].intr
                                 /\ sess[r].active # NoTurn => sess'[r].aborted = sess[r].aborted
      BY <1>1, <2>1, ClosedKeeps
    <2>3. changes' \in 0..MaxGen
      BY <1>1, <1>8, ClaudeAssumption DEF RuntimeChange
    <2>4. open' \subseteq Turns /\ UNCHANGED <<run, asked, struck>>
      BY <1>1, <1>8 DEF RuntimeChange
    <2>5. changed' \in BOOLEAN
      BY <1>8 DEF RuntimeChange
    <2> HIDE DEF idle
    <2> QED BY <1>1, <2>2, <2>3, <2>4, <2>5, RestKeeps
  <1>9. CASE UNCHANGED claudeVars
    BY <1>1, <1>9, RestKeeps DEF claudeVars
  <1> QED
    BY <1>2, <1>3, <1>4, <1>5, <1>6, <1>7, <1>8, <1>9, StartRunKeeps, LoadKeeps, BuildKeeps,
       SettledKeeps, KillKeeps DEF ClaudeNext

(* Only a turn that was killed, or whose session an interrupt of an earlier  *)
(* turn had aborted when its prompt was pushed, ends as killed, for any      *)
(* number of sessions and of turns in each (abort, finish, runtimeChange).   *)
THEOREM OnlyKilledTurnsEndKilled == ClaudeSpec => []OnlyKilledEndKilled
  <1>1. ClaudeInv => OnlyKilledEndKilled
    BY DEF ClaudeInv, MarksAreOwn, OnlyKilledEndKilled
  <1> QED BY ClaudeInitInv, ClaudeStep, <1>1, PTL DEF ClaudeSpec
=============================================================================
