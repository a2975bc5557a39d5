---------------------------- MODULE ServiceProofs ----------------------------
(***************************************************************************)
(* For every number of workers and sessions and every ranking a search may *)
(* give: what an attempt may ask, what it may answer, what the pool knows  *)
(* of downloads, and that waiting attempts never wait for each other.  For *)
(* every library and any number of requests, audits and downloads: no      *)
(* recording is lost by a repair, and nothing waits for what is over.      *)
(*                                                                         *)
(* An attempt asks one provider after the other and forgets nothing of     *)
(* those behind it: each was exhausted, or left out for a reason that its  *)
(* answer has to tell (Through).  Eligible and Places are what Through     *)
(* needs to know of the plan and of where an attempt is.                   *)
(***************************************************************************)
EXTENDS MediaResolution, LibraryRepair, FiniteSetTheorems, TLAPS

Active(a)    == a.pc \in {"lease", "another", "start", "asked", "next", "rank"}
Passed(a, j) == j < a.at \/ (j = a.at /\ a.pc = "next")

(* Why an attempt is past provider p. *)
Dealt(a, p) ==
  \/ p \in a.exhausted
  \/ FamilyOf(p) = "youtube" /\ a.youtube # "eligible" /\ (a.deferred \/ a.youtube = "unusable")
  \/ FamilyOf(p) = "soundcloud" /\ (a.deferred \/ Substitute(a))

Eligible(a) == Active(a) => a.youtube = "eligible" \/ a.origin = "manual" \/ FamilyOf(a.pref) = "soundcloud"
Through(a)  == Active(a) => \A j \in 1..3 : Passed(a, j) => Dealt(a, Chain(a.pref)[j])

NoneLeft(a) == \A p \in ToSet(Registry) :
                 p \in a.exhausted \/ (FamilyOf(p) = "youtube" /\ a.youtube = "unusable")
GivenUp(a)  == a.pc = "leaving" /\ a.answer = "gone" => NoneLeft(a)

Places(a) == /\ a.pc = "another" => a.at = 0 /\ a.lease = None
             /\ a.pc = "rank" => a.at > 0
             /\ Active(a) \/ a.pc = "idle" => a.from = None

Good(a)  == a \in AttemptShape /\ Eligible(a) /\ Through(a) /\ GivenUp(a) /\ Places(a)
AllGood  == attempt \in [Worker -> AttemptShape] /\ \A w \in Worker : Good(attempt[w])

-----------------------------------------------------------------------------
(* The registry and the chain of a preferred provider. *)

LEMMA RegistryValues ==
  /\ Len(Registry) = 3
  /\ Registry[1] = "ytmusic" /\ Registry[2] = "youtube" /\ Registry[3] = "soundcloud"
  /\ ToSet(Registry) = {"ytmusic", "youtube", "soundcloud"}
<1>1. DOMAIN Registry = 1..3
  BY DEF Registry
<1> QED BY <1>1 DEF Registry, ToSet

LEMMA ChainAt ==
  ASSUME NEW k \in 1..3, NEW i \in 1..3
  PROVE  Chain(Registry[k])[i] = IF i = 1 THEN Registry[k]
                                 ELSE IF i <= k THEN Registry[i - 1] ELSE Registry[i]
<1>1. k = CHOOSE n \in 1..Len(Registry) : Registry[n] = Registry[k]
  <2>1. \A n \in 1..3 : Registry[n] = Registry[k] => n = k
    BY RegistryValues
  <2> QED BY <2>1, RegistryValues
<1> QED BY <1>1, RegistryValues DEF Chain

LEMMA ChainValues ==
  /\ Chain("ytmusic")[1] = "ytmusic" /\ Chain("ytmusic")[2] = "youtube"
  /\ Chain("ytmusic")[3] = "soundcloud"
  /\ Chain("youtube")[1] = "youtube" /\ Chain("youtube")[2] = "ytmusic"
  /\ Chain("youtube")[3] = "soundcloud"
  /\ Chain("soundcloud")[1] = "soundcloud" /\ Chain("soundcloud")[2] = "ytmusic"
  /\ Chain("soundcloud")[3] = "youtube"
<1>1. \A i \in 1..3 : Chain("ytmusic")[i] = IF i = 1 THEN Registry[1]
                        ELSE IF i <= 1 THEN Registry[i - 1] ELSE Registry[i]
  BY ChainAt, RegistryValues
<1>2. \A i \in 1..3 : Chain("youtube")[i] = IF i = 1 THEN Registry[2]
                        ELSE IF i <= 2 THEN Registry[i - 1] ELSE Registry[i]
  BY ChainAt, RegistryValues
<1>3. \A i \in 1..3 : Chain("soundcloud")[i] = IF i = 1 THEN Registry[3]
                        ELSE IF i <= 3 THEN Registry[i - 1] ELSE Registry[i]
  BY ChainAt, RegistryValues
<1> QED BY <1>1, <1>2, <1>3, RegistryValues

LEMMA ChainCovers ==
  ASSUME NEW pref \in ToSet(Registry)
  PROVE  /\ \A j \in 1..3 : Chain(pref)[j] \in ToSet(Registry)
         /\ \A p \in ToSet(Registry) : \E j \in 1..3 : Chain(pref)[j] = p
  BY ChainValues, RegistryValues

-----------------------------------------------------------------------------
(* What an attempt may become. *)

LEMMA SetGood ==
  ASSUME AllGood, NEW w \in Worker, NEW a, Good(a), Set(w, a) PROVE AllGood'
  BY DEF AllGood, Good, Set

LEMMA IdleGood == Good(Idle)
<1>1. <<>> \in Seq(STRING) /\ 0 \in 0..3 /\ {} \in SUBSET STRING
  OBVIOUS
<1>2. Idle \in AttemptShape
  BY <1>1, RegistryValues DEF Idle, AttemptShape, Origins, Answers
<1> QED BY <1>2 DEF Good, Idle, Eligible, Through, GivenUp, Places, Active

LEMMA LeavingGood ==
  ASSUME NEW a \in AttemptShape, NEW r \in Answers, r = "gone" => NoneLeft(a)
  PROVE  /\ Good(Leaving(a, r))
         /\ Leaving(a, r).pc = "leaving" /\ Leaving(a, r).answer = r
<1> DEFINE b == Leaving(a, r)
<1>1. a \in AttemptShape /\ Idle \in AttemptShape
  BY IdleGood DEF Good
<1>2. b \in AttemptShape
  BY <1>1 DEF AttemptShape, Leaving
<1>3. /\ b.pc = "leaving" /\ b.answer = r /\ b.youtube = a.youtube /\ b.exhausted = a.exhausted
      /\ b.from = None
  BY <1>1 DEF AttemptShape, Leaving, Idle
<1> HIDE DEF b
<1>4. GivenUp(b)
  BY <1>3 DEF GivenUp, NoneLeft
<1>5. Eligible(b) /\ Through(b) /\ Places(b)
  BY <1>3 DEF Eligible, Through, Places, Active
<1>6. Good(b)
  BY <1>2, <1>4, <1>5 DEF Good
<1> QED BY <1>3, <1>6 DEF b

(* An attempt that goes on at the same provider, or is done with it. *)
LEMMA Onward ==
  ASSUME NEW a, Good(a), Active(a), NEW b \in AttemptShape, Active(b),
         b.origin = a.origin, b.pref = a.pref, b.youtube = a.youtube, b.at = a.at,
         b.from = a.from, a.exhausted \subseteq b.exhausted, a.deferred => b.deferred,
         b.pc = "another" => b.at = 0 /\ b.lease = None,
         b.pc = "rank" => b.at > 0,
         b.pc = "next" => a.pc = "next" \/ a.at = 0 \/ Dealt(b, At(b))
  PROVE  Good(b)
<1>1. \A p \in ToSet(Registry) : Dealt(a, p) => Dealt(b, p)
  BY DEF Dealt, Substitute
<1>2. Through(b)
  <2> SUFFICES ASSUME NEW j \in 1..3, Passed(b, j) PROVE Dealt(b, Chain(b.pref)[j])
    BY DEF Through
  <2>1. a \in AttemptShape /\ Chain(b.pref)[j] \in ToSet(Registry)
    BY ChainCovers DEF Good, AttemptShape
  <2>2. CASE Passed(a, j)
    BY <1>1, <2>1, <2>2 DEF Good, Through
  <2>3. CASE ~Passed(a, j)
    BY <2>3 DEF Passed, At
  <2> QED BY <2>2, <2>3
<1> QED BY <1>2 DEF Good, Eligible, GivenUp, Places, Active

(* The next provider of the chain: asked, or passed for a reason. *)
LEMMA Advanced ==
  ASSUME NEW a, Good(a), a.pc = "next", a.at # 3, NEW b \in AttemptShape,
         b.pc \in {"lease", "start", "next"},
         b.origin = a.origin, b.pref = a.pref, b.youtube = a.youtube, b.at = a.at + 1,
         b.from = a.from, b.exhausted = a.exhausted, a.deferred => b.deferred,
         b.pc = "next" => Dealt(b, At(b))
  PROVE  Good(b)
<1>1. \A p \in ToSet(Registry) : Dealt(a, p) => Dealt(b, p)
  BY DEF Dealt, Substitute
<1>2. Through(b)
  <2> SUFFICES ASSUME NEW j \in 1..3, Passed(b, j) PROVE Dealt(b, Chain(b.pref)[j])
    BY DEF Through
  <2>1. a \in AttemptShape /\ a.at \in 0..3 /\ Chain(b.pref)[j] \in ToSet(Registry)
    BY ChainCovers, RegistryValues DEF Good, AttemptShape
  <2>2. CASE j <= a.at
    BY <1>1, <2>1, <2>2 DEF Good, Through, Passed, Active
  <2>3. CASE j > a.at
    <3>1. j = b.at /\ b.pc = "next"
      BY <2>1, <2>3 DEF Passed
    <3> QED BY <3>1 DEF At
  <2> QED BY <2>1, <2>2, <2>3
<1> QED BY <1>2 DEF Good, Eligible, GivenUp, Places, Active

-----------------------------------------------------------------------------
(* Step by step.  Each names what the attempt of w becomes. *)

LEMMA LeavingStep ==
  ASSUME AllGood, NEW w \in Worker, NEW r \in Answers \ {"gone"},
         Set(w, Leaving(attempt[w], r))
  PROVE  AllGood'
  BY LeavingGood, SetGood DEF AllGood

LEMMA StoppedStep ==
  ASSUME AllGood, NEW w \in Worker, NEW r, Stopped(w, r)
  PROVE  AllGood'
  BY LeavingStep DEF Stopped, Stops, OfFamily, OfSession, Answers

LEMMA ResolvedStep ==
  ASSUME AllGood, NEW w \in Worker, Resolved(w)
  PROVE  AllGood'
<1> DEFINE a == attempt[w]
           s == IF Family(a) = "youtube" THEN a.lease ELSE None
           l == Leaving(a, "source")
           b == [l EXCEPT !.from = s]
<1>1. Good(a) /\ l \in AttemptShape /\ l.pc = "leaving" /\ l.answer = "source"
  BY LeavingGood DEF AllGood, Answers, Good
<1>2. s \in Session \cup {None}
  BY <1>1 DEF Good, AttemptShape
<1> HIDE DEF l
<1>3. b \in AttemptShape /\ b.pc = "leaving" /\ b.answer = "source"
  BY <1>1, <1>2 DEF AttemptShape
<1> HIDE DEF b
<1>4. Good(b)
  BY <1>3 DEF Good, Eligible, Through, GivenUp, Places, Active
<1>5. Set(w, b)
  BY DEF Resolved, b, l
<1> QED BY <1>4, <1>5, SetGood

LEMMA BeginStep ==
  ASSUME AllGood, cooldown \in [Families -> BOOLEAN],
         NEW w \in Worker, NEW o \in Origins, NEW p \in Preferred, NEW d \in BOOLEAN,
         Begin(w, o, p, d)
  PROVE  AllGood'
<1> DEFINE a == Planned(o, p, d)
<1>1. p \in ToSet(Registry) /\ YouTubePlan \in {"eligible", "cooling", "unusable"}
  BY MediaResolutionAssumption DEF MediaResolutionAssumption, YouTubePlan, Availability
<1>2. a \in AttemptShape /\ a.pc = "idle" /\ a.at = 0 /\ a.from = None /\ a.pref = p /\ a.origin = o
  <2> DEFINE Fresh(x) == x \in AttemptShape /\ x.pc = "idle" /\ x.at = 0 /\ x.from = None
  <2>1. Fresh(Idle)
    BY IdleGood DEF Good, Idle
  <2>2. ASSUME NEW x, Fresh(x)
        PROVE  LET y == [x EXCEPT !.origin = o, !.pref = p]
               IN  Fresh(y) /\ y.pref = p /\ y.origin = o
    BY <1>1, <2>2 DEF AttemptShape
  <2>3. ASSUME NEW x, Fresh(x), x.pref = p, x.origin = o,
               NEW y \in {"eligible", "cooling", "unusable"}, NEW c \in BOOLEAN
        PROVE  LET z == [x EXCEPT !.direct = d, !.youtube = y, !.soundcloud = c]
               IN  Fresh(z) /\ z.pref = p /\ z.origin = o
    <3> DEFINE u == [x EXCEPT !.direct = d]
               v == [u EXCEPT !.youtube = y]
               z == [v EXCEPT !.soundcloud = c]
    <3>1. Fresh(u) /\ u.pref = p /\ u.origin = o
      BY <2>3 DEF AttemptShape
    <3>2. z = [x EXCEPT !.direct = d, !.youtube = y, !.soundcloud = c]
      OBVIOUS
    <3> HIDE DEF u
    <3>3. Fresh(v) /\ v.pref = p /\ v.origin = o
      BY <3>1 DEF AttemptShape
    <3> HIDE DEF v
    <3>4. Fresh(z) /\ z.pref = p /\ z.origin = o
      BY <3>3 DEF AttemptShape
    <3> QED BY <3>2, <3>4
  <2> DEFINE u == [Idle EXCEPT !.origin = o, !.pref = p]
             c == ~cooldown["soundcloud"]
  <2>4. a = [u EXCEPT !.direct = d, !.youtube = YouTubePlan, !.soundcloud = c]
    BY DEF Planned
  <2>5. c \in BOOLEAN
    BY DEF Families
  <2> HIDE DEF a, Fresh, c
  <2>6. Fresh(u) /\ u.pref = p /\ u.origin = o
    BY <2>1, <2>2
  <2> HIDE DEF u
  <2>7. Fresh(a) /\ a.pref = p /\ a.origin = o
    BY <1>1, <2>3, <2>4, <2>5, <2>6
  <2> QED BY <2>7 DEF Fresh
<1> HIDE DEF a
<1>4. ASSUME NEW r \in Refusal(a), Set(w, [a EXCEPT !.pc = "answered", !.answer = r]) PROVE AllGood'
  <2> DEFINE b == [a EXCEPT !.pc = "answered", !.answer = r]
  <2>1. r \in Answers
    BY <1>4 DEF Refusal, Answers
  <2>2. b \in AttemptShape /\ b.pc = "answered"
    BY <1>2, <2>1 DEF AttemptShape
  <2>3. Good(b)
    BY <2>2 DEF Good, Eligible, Through, GivenUp, Places, Active
  <2> QED BY <1>4, <2>3, SetGood
<1>5. ASSUME Refusal(a) = {}, NEW x \in {"lease", "next"}, Set(w, [a EXCEPT !.pc = x]) PROVE AllGood'
  <2> DEFINE b == [a EXCEPT !.pc = x]
  <2>1. /\ b \in AttemptShape /\ b.pc = x /\ b.at = 0 /\ b.from = None
        /\ b.origin = a.origin /\ b.youtube = a.youtube /\ b.pref = a.pref
    BY <1>2 DEF AttemptShape
  <2> HIDE DEF b
  <2>2. Eligible(b)
    BY <1>5, <2>1 DEF Eligible, Refusal, FamilyOf, AttemptShape, Origins
  <2>3. Through(b) /\ GivenUp(b) /\ Places(b)
    BY <2>1 DEF Through, Passed, GivenUp, Places, Active
  <2>4. Good(b)
    BY <2>1, <2>2, <2>3 DEF Good
  <2> QED BY <1>5, <2>4, SetGood DEF b
<1> QED BY <1>4, <1>5 DEF Begin, a

(* The steps of an attempt that goes on with the provider it is at. *)
LEMMA OnwardStep ==
  ASSUME AllGood, NEW w \in Worker, Active(attempt[w]), NEW b \in AttemptShape, Set(w, b), Active(b),
         b.origin = attempt[w].origin, b.pref = attempt[w].pref, b.youtube = attempt[w].youtube,
         b.at = attempt[w].at, b.from = attempt[w].from,
         attempt[w].exhausted \subseteq b.exhausted, attempt[w].deferred => b.deferred,
         b.pc = "another" => b.at = 0 /\ b.lease = None,
         b.pc = "rank" => b.at > 0,
         b.pc = "next" => attempt[w].pc = "next" \/ attempt[w].at = 0 \/ Dealt(b, At(b))
  PROVE  AllGood'
  BY Onward, SetGood DEF AllGood

LEMMA LeaseStep ==
  ASSUME AllGood, NEW w \in Worker, Lease(w) PROVE AllGood'
<1>1. attempt[w] \in AttemptShape /\ Active(attempt[w])
  BY DEF AllGood, Lease, Active
<1>2. CASE Set(w, Leaving(attempt[w], "wait"))
  BY <1>2, LeavingStep DEF Answers
<1>3. ASSUME NEW s \in Session \cup {None}, Set(w, [attempt[w] EXCEPT !.pc = "start", !.lease = s])
      PROVE  AllGood'
  <2> DEFINE b == [attempt[w] EXCEPT !.pc = "start", !.lease = s]
  <2>1. b \in AttemptShape /\ b.pc = "start"
    BY <1>1 DEF AttemptShape
  <2> QED BY <1>1, <1>3, <2>1, OnwardStep DEF Active, AttemptShape
<1>4. CASE Set(w, [attempt[w] EXCEPT !.pc = "start"])
  <2>1. [attempt[w] EXCEPT !.pc = "start"] = [attempt[w] EXCEPT !.pc = "start", !.lease = attempt[w].lease]
    BY <1>1 DEF AttemptShape
  <2>2. attempt[w].lease \in Session \cup {None}
    BY <1>1 DEF AttemptShape
  <2> QED BY <1>3, <1>4, <2>1, <2>2
<1> QED BY <1>2, <1>3, <1>4 DEF Lease, Ready

LEMMA FallbackStep ==
  ASSUME AllGood, NEW w \in Worker, Active(attempt[w]), attempt[w].at = 0, NEW x \in SUBSET STRING,
         Set(w, Fallback([attempt[w] EXCEPT !.tried = x]))
  PROVE  AllGood'
<1> DEFINE b == Fallback([attempt[w] EXCEPT !.tried = x])
<1>1. attempt[w] \in AttemptShape
  BY DEF AllGood
<1>2. b \in AttemptShape /\ b.pc = "next"
  BY <1>1 DEF AttemptShape, Fallback
<1>3. /\ b.origin = attempt[w].origin /\ b.pref = attempt[w].pref /\ b.youtube = attempt[w].youtube
      /\ b.at = attempt[w].at /\ b.from = attempt[w].from
      /\ attempt[w].exhausted = b.exhausted /\ attempt[w].deferred = b.deferred
  BY <1>1 DEF AttemptShape, Fallback
<1>4. Set(w, b)
  OBVIOUS
<1> HIDE DEF b
<1> QED BY <1>1, <1>2, <1>3, <1>4, OnwardStep DEF Active

LEMMA AlternateStep ==
  ASSUME AllGood, NEW w \in Worker, Alternate(w) PROVE AllGood'
<1>1. attempt[w] \in AttemptShape /\ Active(attempt[w]) /\ attempt[w].at = 0
  BY DEF AllGood, Good, Places, Alternate, Active
<1>2. CASE Set(w, Leaving(attempt[w], "wait"))
  BY <1>2, LeavingStep DEF Answers
<1>3. ASSUME NEW s \in Session, Set(w, [attempt[w] EXCEPT !.pc = "start", !.lease = s]) PROVE AllGood'
  <2> DEFINE b == [attempt[w] EXCEPT !.pc = "start", !.lease = s]
  <2>1. b \in AttemptShape /\ b.pc = "start"
    BY <1>1 DEF AttemptShape
  <2> QED BY <1>1, <1>3, <2>1, OnwardStep DEF Active, AttemptShape
<1>4. CASE Set(w, Fallback(attempt[w]))
  <2>1. attempt[w] = [attempt[w] EXCEPT !.tried = attempt[w].tried] /\ attempt[w].tried \in SUBSET STRING
    BY <1>1 DEF AttemptShape
  <2> QED BY <1>1, <1>4, <2>1, FallbackStep
<1> QED BY <1>2, <1>3, <1>4 DEF Alternate, Ready

LEMMA StartStep ==
  ASSUME AllGood, NEW w \in Worker, Start(w) PROVE AllGood'
<1>1. attempt[w] \in AttemptShape /\ Active(attempt[w])
  BY DEF AllGood, Start, Active
<1>2. CASE Set(w, Leaving(attempt[w], "wait"))
  BY <1>2, LeavingStep DEF Answers
<1>3. CASE Set(w, [attempt[w] EXCEPT !.pc = "asked"])
  <2> DEFINE b == [attempt[w] EXCEPT !.pc = "asked"]
  <2>1. b \in AttemptShape /\ b.pc = "asked"
    BY <1>1 DEF AttemptShape
  <2> QED BY <1>1, <1>3, <2>1, OnwardStep DEF Active, AttemptShape
<1> QED BY <1>2, <1>3 DEF Start

LEMMA ExhaustedStep ==
  ASSUME AllGood, NEW w \in Worker, Active(attempt[w]), attempt[w].at > 0,
         Set(w, Exhausted(attempt[w]))
  PROVE  AllGood'
<1> DEFINE a == attempt[w]
           b == Exhausted(a)
<1>1. a \in AttemptShape /\ a.at \in 1..3
  BY RegistryValues DEF AllGood, AttemptShape
<1>2. At(a) \in ToSet(Registry)
  BY <1>1, ChainCovers DEF At, AttemptShape
<1>3. b \in AttemptShape /\ b.pc = "next" /\ b.exhausted = a.exhausted \cup {At(a)}
  BY <1>1, <1>2 DEF AttemptShape, Exhausted
<1>4. /\ b.origin = a.origin /\ b.pref = a.pref /\ b.youtube = a.youtube
      /\ b.at = a.at /\ b.from = a.from /\ b.deferred = a.deferred
  BY <1>1 DEF AttemptShape, Exhausted
<1>5. Set(w, b)
  OBVIOUS
<1> HIDE DEF b
<1>6. Dealt(b, At(b))
  BY <1>3, <1>4 DEF Dealt, At
<1> QED BY <1>1, <1>3, <1>4, <1>5, <1>6, OnwardStep DEF Active

LEMMA DirectStep ==
  ASSUME AllGood, NEW w \in Worker, attempt[w].pc = "asked", DirectAnswered(w) PROVE AllGood'
<1> DEFINE x == attempt[w].tried \cup {DirectId}
           a == [attempt[w] EXCEPT !.tried = x]
<1>1. attempt[w] \in AttemptShape /\ Active(attempt[w]) /\ attempt[w].at = 0 /\ x \in SUBSET STRING
  BY MediaResolutionAssumption
     DEF AllGood, DirectAnswered, Active, MediaResolutionAssumption, AttemptShape
<1>2. CASE \E r \in Stops : Stopped(w, r)
  BY <1>2, StoppedStep
<1>3. CASE Resolved(w)
  BY <1>3, ResolvedStep
<1>4. CASE Set(w, Fallback(a))
  <2> HIDE DEF x
  <2> QED BY <1>1, <1>4, FallbackStep
<1>5. CASE Set(w, Fallback(attempt[w]))
  <2>1. attempt[w] = [attempt[w] EXCEPT !.tried = attempt[w].tried] /\ attempt[w].tried \in SUBSET STRING
    BY <1>1 DEF AttemptShape
  <2> QED BY <1>1, <1>5, <2>1, FallbackStep
<1>6. CASE a.lease # None /\ Set(w, [a EXCEPT !.pc = "another", !.checked = @ \cup {a.lease}, !.lease = None])
  <2> DEFINE b == [a EXCEPT !.pc = "another", !.checked = @ \cup {a.lease}, !.lease = None]
  <2>1. a \in AttemptShape /\ a.lease = attempt[w].lease
    BY <1>1 DEF AttemptShape
  <2>2. /\ a.origin = attempt[w].origin /\ a.pref = attempt[w].pref /\ a.youtube = attempt[w].youtube
        /\ a.at = attempt[w].at /\ a.from = attempt[w].from
        /\ attempt[w].exhausted = a.exhausted /\ attempt[w].deferred = a.deferred
    BY <1>1 DEF AttemptShape
  <2> HIDE DEF a
  <2>3. b \in AttemptShape /\ b.pc = "another" /\ b.lease = None
    BY <1>6, <2>1 DEF AttemptShape
  <2>4. /\ a.origin = b.origin /\ a.pref = b.pref /\ a.youtube = b.youtube
        /\ a.at = b.at /\ a.from = b.from /\ b.exhausted = a.exhausted /\ b.deferred = a.deferred
    BY <2>1 DEF AttemptShape
  <2>5. Set(w, b)
    BY <1>6
  <2> HIDE DEF b
  <2> QED BY <1>1, <2>2, <2>3, <2>4, <2>5, OnwardStep DEF Active
<1> QED BY <1>2, <1>3, <1>4, <1>5, <1>6 DEF DirectAnswered

LEMMA SearchStep ==
  ASSUME AllGood, NEW w \in Worker, attempt[w].pc = "asked", SearchAnswered(w) PROVE AllGood'
<1>1. attempt[w] \in AttemptShape /\ Active(attempt[w]) /\ attempt[w].at > 0
  BY DEF AllGood, SearchAnswered, Active
<1>2. CASE \E r \in Stops : Stopped(w, r)
  BY <1>2, StoppedStep
<1>3. CASE Set(w, Exhausted(attempt[w]))
  BY <1>1, <1>3, ExhaustedStep
<1>4. ASSUME NEW l \in Ranked[Family(attempt[w])], Set(w, [attempt[w] EXCEPT !.pc = "rank", !.list = l])
      PROVE  AllGood'
  <2> DEFINE b == [attempt[w] EXCEPT !.pc = "rank", !.list = l]
  <2>1. l \in Seq(STRING)
    BY MediaResolutionAssumption DEF MediaResolutionAssumption, Family, FamilyOf, Families
  <2>2. b \in AttemptShape /\ b.pc = "rank"
    BY <1>1, <2>1 DEF AttemptShape
  <2>3. /\ b.origin = attempt[w].origin /\ b.pref = attempt[w].pref /\ b.youtube = attempt[w].youtube
        /\ b.at = attempt[w].at /\ b.from = attempt[w].from
        /\ attempt[w].exhausted = b.exhausted /\ attempt[w].deferred = b.deferred
    BY <1>1 DEF AttemptShape
  <2>4. Set(w, b)
    BY <1>4
  <2> HIDE DEF b
  <2> QED BY <1>1, <2>2, <2>3, <2>4, OnwardStep DEF Active
<1> QED BY <1>2, <1>3, <1>4 DEF SearchAnswered

LEMMA ResolveStep ==
  ASSUME AllGood, NEW w \in Worker, attempt[w].pc = "asked", ResolveAnswered(w) PROVE AllGood'
<1> DEFINE a == attempt[w]
           b == [a EXCEPT !.pc = "rank", !.asking = None, !.tried = @ \cup {a.asking}]
<1>1. a \in AttemptShape /\ Active(a) /\ a.at > 0 /\ a.asking # None
  BY DEF AllGood, ResolveAnswered, Active
<1>2. CASE \E r \in Stops : Stopped(w, r)
  BY <1>2, StoppedStep
<1>3. CASE Resolved(w)
  BY <1>3, ResolvedStep
<1>4. CASE Set(w, b)
  <2>1. a.tried \cup {a.asking} \in SUBSET STRING
    BY <1>1 DEF AttemptShape
  <2>2. b \in AttemptShape /\ b.pc = "rank"
    BY <1>1, <2>1 DEF AttemptShape
  <2>3. /\ b.origin = a.origin /\ b.pref = a.pref /\ b.youtube = a.youtube
        /\ b.at = a.at /\ b.from = a.from
        /\ a.exhausted = b.exhausted /\ a.deferred = b.deferred
    BY <1>1 DEF AttemptShape
  <2> HIDE DEF b
  <2> QED BY <1>1, <1>4, <2>2, <2>3, OnwardStep DEF Active
<1> QED BY <1>2, <1>3, <1>4 DEF ResolveAnswered

(* ResolveMedia is cancelled, releases its lease, and returns. *)
LEMMA CancelStep ==
  ASSUME AllGood, NEW w \in Worker, Cancel(w) PROVE AllGood'
  BY LeavingStep DEF Cancel, Answers

(* An attempt that is out of the loops keeps only its answer and download. *)
LEMMA OutGood ==
  ASSUME NEW b \in AttemptShape, b.pc \in {"answered", "download"} PROVE Good(b)
  BY DEF Good, Eligible, Through, GivenUp, Places, Active

LEMMA LeaveStep ==
  ASSUME AllGood, NEW w \in Worker, Leave(w) PROVE AllGood'
<1> DEFINE b == [attempt[w] EXCEPT !.pc = "answered", !.lease = None,
                                   !.youtube = "eligible", !.exhausted = {}]
<1>1. attempt[w] \in AttemptShape
  BY DEF AllGood
<1>2. b \in AttemptShape /\ b.pc = "answered"
  BY <1>1 DEF AttemptShape
<1>3. Set(w, b)
  BY DEF Leave
<1> HIDE DEF b
<1> QED BY <1>2, <1>3, OutGood, SetGood

LEMMA ReturnStep ==
  ASSUME AllGood, NEW w \in Worker, Return(w) PROVE AllGood'
<1>1. CASE Set(w, Idle)
  BY <1>1, IdleGood, SetGood
<1>2. CASE Set(w, [attempt[w] EXCEPT !.pc = "download"])
  <2> DEFINE b == [attempt[w] EXCEPT !.pc = "download"]
  <2>1. attempt[w] \in AttemptShape
    BY DEF AllGood
  <2>2. b \in AttemptShape /\ b.pc = "download"
    BY <2>1 DEF AttemptShape
  <2> HIDE DEF b
  <2> QED BY <1>2, <2>2, OutGood, SetGood DEF b
<1> QED BY <1>1, <1>2 DEF Return

LEMMA DownloadStep ==
  ASSUME AllGood, NEW w \in Worker, NEW r, DownloadEnds(w, r) PROVE AllGood'
  BY IdleGood, SetGood DEF DownloadEnds

LEMMA ListParts ==
  ASSUME NEW l \in Seq(STRING), l # <<>> PROVE Head(l) \in STRING /\ Tail(l) \in Seq(STRING)
  OBVIOUS

LEMMA CandidateStep ==
  ASSUME AllGood, NEW w \in Worker, NextCandidate(w) PROVE AllGood'
<1> DEFINE a == attempt[w]
<1>1. a \in AttemptShape /\ Active(a) /\ a.at > 0 /\ a.pc = "rank" /\ a.list \in Seq(STRING)
  BY DEF AllGood, Good, Places, NextCandidate, Active, AttemptShape
<1> HIDE DEF a
<1>2. CASE Set(w, Exhausted(a))
  BY <1>1, <1>2, ExhaustedStep DEF a
<1>3. CASE Set(w, Leaving(a, "wait"))
  BY <1>3, LeavingStep DEF Answers, a
<1>4. CASE a.list # <<>> /\ Set(w, [a EXCEPT !.list = Tail(@)])
  <2> DEFINE b == [a EXCEPT !.list = Tail(@)]
  <2>1. Tail(a.list) \in Seq(STRING)
    BY <1>1, <1>4, ListParts
  <2>2. b \in AttemptShape /\ b.pc = "rank"
    BY <1>1, <2>1 DEF AttemptShape
  <2>3. /\ b.origin = a.origin /\ b.pref = a.pref /\ b.youtube = a.youtube
        /\ b.at = a.at /\ b.from = a.from /\ a.exhausted = b.exhausted /\ a.deferred = b.deferred
    BY <1>1 DEF AttemptShape
  <2> HIDE DEF b
  <2> QED BY <1>1, <1>4, <2>2, <2>3, OnwardStep DEF Active, a, b
<1>5. CASE /\ a.list # <<>>
           /\ Set(w, [a EXCEPT !.pc = "start", !.list = Tail(@), !.asking = Head(a.list)])
  <2> DEFINE b == [a EXCEPT !.pc = "start", !.list = Tail(@), !.asking = Head(a.list)]
  <2>1. Tail(a.list) \in Seq(STRING) /\ Head(a.list) \in STRING
    BY <1>1, <1>5, ListParts
  <2>2. b \in AttemptShape /\ b.pc = "start"
    BY <1>1, <2>1 DEF AttemptShape
  <2>3. /\ b.origin = a.origin /\ b.pref = a.pref /\ b.youtube = a.youtube
        /\ b.at = a.at /\ b.from = a.from /\ a.exhausted = b.exhausted /\ a.deferred = b.deferred
    BY <1>1 DEF AttemptShape
  <2> HIDE DEF b
  <2> QED BY <1>1, <1>5, <2>2, <2>3, OnwardStep DEF Active, a, b
<1>6. CASE /\ Family(a) # "youtube"
           /\ Set(w, [a EXCEPT !.pc = "next", !.list = <<>>, !.deferred = TRUE])
  <2> DEFINE b == [a EXCEPT !.pc = "next", !.list = <<>>, !.deferred = TRUE]
  <2>1. <<>> \in Seq(STRING)
    OBVIOUS
  <2>2. b \in AttemptShape /\ b.pc = "next" /\ b.deferred
    BY <1>1, <2>1 DEF AttemptShape
  <2>3. /\ b.origin = a.origin /\ b.pref = a.pref /\ b.youtube = a.youtube
        /\ b.at = a.at /\ b.from = a.from /\ a.exhausted = b.exhausted
    BY <1>1 DEF AttemptShape
  <2> HIDE DEF b
  <2>4. FamilyOf(At(b)) = "soundcloud"
    BY <1>1, <1>6, <2>3 DEF Family, FamilyOf, At
  <2>5. Dealt(b, At(b))
    BY <2>2, <2>4 DEF Dealt
  <2> QED BY <1>1, <1>6, <2>2, <2>3, <2>5, OnwardStep DEF Active, a, b
<1> QED BY <1>2, <1>3, <1>4, <1>5, <1>6 DEF NextCandidate, a

(* With no provider left every provider has been dealt with. *)
LEMMA FinalGood ==
  ASSUME NEW a, Good(a), a.pc = "next", a.at = 3
  PROVE  FinalAnswer(a) \in Answers /\ (FinalAnswer(a) = "gone" => NoneLeft(a))
<1>1. FinalAnswer(a) \in Answers
  BY DEF FinalAnswer, Answers
<1>2. ASSUME FinalAnswer(a) = "gone", NEW p \in ToSet(Registry)
      PROVE  p \in a.exhausted \/ (FamilyOf(p) = "youtube" /\ a.youtube = "unusable")
  <2>1. a.pref \in ToSet(Registry) /\ Active(a) /\ a.origin \in Origins
    BY DEF Good, AttemptShape, Active
  <2>2. PICK j \in 1..3 : Chain(a.pref)[j] = p
    BY <2>1, ChainCovers
  <2>3. Dealt(a, p)
    BY <2>1, <2>2 DEF Good, Through, Passed
  <2>4. ~a.deferred /\ ~(a.youtube # "eligible" /\ FamilyOf(a.pref) = "youtube")
    BY <1>2 DEF FinalAnswer
  <2> QED BY <2>3, <2>4 DEF Dealt, Substitute
<1> QED BY <1>1, <1>2 DEF NoneLeft

LEMMA ProviderStep ==
  ASSUME AllGood, NEW w \in Worker, NextProvider(w) PROVE AllGood'
<1> DEFINE a == attempt[w]
<1>1. a \in AttemptShape /\ Good(a) /\ a.pc = "next" /\ Len(Registry) = 3 /\ a.at \in 0..3
  BY RegistryValues DEF AllGood, NextProvider, AttemptShape
<1> HIDE DEF a
<1>2. CASE a.at = 3
  <2>1. Set(w, Leaving(a, FinalAnswer(a)))
    BY <1>1, <1>2 DEF NextProvider, a
  <2> QED BY <1>1, <1>2, <2>1, FinalGood, LeavingGood, SetGood
<1>3. CASE a.at # 3
  <2> DEFINE n == [a EXCEPT !.at = @ + 1]
             m == PastYouTube(n)
  <2>1. /\ n \in AttemptShape /\ n.pc = "next" /\ n.at = a.at + 1 /\ n.origin = a.origin
        /\ n.pref = a.pref /\ n.youtube = a.youtube /\ n.from = a.from
        /\ n.exhausted = a.exhausted /\ n.deferred = a.deferred
    BY <1>1, <1>3 DEF AttemptShape
  <2> HIDE DEF n
  <2> DEFINE Same(x) == /\ x \in AttemptShape /\ x.at = a.at + 1 /\ x.origin = a.origin
                        /\ x.pref = a.pref /\ x.youtube = a.youtube /\ x.from = a.from
                        /\ x.exhausted = a.exhausted
  <2>2. Same(m) /\ m.pc = "next" /\ m.deferred = a.deferred
    BY <2>1 DEF PastYouTube, AttemptShape
  <2> HIDE DEF m
  <2>3. Family(m) = FamilyOf(At(m)) /\ Family(m) \in {"youtube", "soundcloud"}
        /\ m.youtube \in {"eligible", "cooling", "unusable"}
    BY <1>1, <2>2 DEF Family, FamilyOf, AttemptShape
  <2>4. ASSUME NEW d \in BOOLEAN, a.deferred => d
        PROVE  LET b == [m EXCEPT !.deferred = d]
               IN  Same(b) /\ b.pc = "next" /\ b.deferred = d
    BY <2>2 DEF AttemptShape
  <2>5. ASSUME NEW x \in {"lease", "start"}
        PROVE  LET b == [m EXCEPT !.pc = x]
               IN  Same(b) /\ b.pc = x /\ b.deferred = a.deferred
    BY <2>2 DEF AttemptShape
  <2>6. ASSUME NEW b, Same(b), b.pc \in {"lease", "start", "next"}, a.deferred => b.deferred,
               b.pc = "next" => Dealt(b, At(b)), Set(w, b)
        PROVE  AllGood'
    <3>1. Good(b)
      BY <1>1, <1>3, <2>6, Advanced
    <3> QED BY <2>6, <3>1, SetGood
  <2>7. ASSUME NEW x \in {"lease", "start"}, Set(w, [m EXCEPT !.pc = x]) PROVE AllGood'
    BY <2>5, <2>6, <2>7
  <2>8. ASSUME NEW d \in BOOLEAN, a.deferred => d, Set(w, [m EXCEPT !.deferred = d]),
               \/ Family(m) = "soundcloud" /\ d
               \/ Family(m) = "youtube" /\ m.youtube # "eligible" /\ (d \/ m.youtube = "unusable")
        PROVE  AllGood'
    <3> DEFINE b == [m EXCEPT !.deferred = d]
    <3>1. Same(b) /\ b.pc = "next" /\ b.deferred = d
      BY <2>4, <2>8
    <3> HIDE DEF b
    <3>2. At(b) = At(m)
      BY <2>2, <3>1 DEF At
    <3>3. Dealt(b, At(b))
      BY <2>2, <2>3, <2>8, <3>1, <3>2 DEF Dealt
    <3>4. Set(w, b)
      BY <2>8 DEF b
    <3> QED BY <2>6, <2>8, <3>1, <3>3, <3>4
  <2>9. CASE Set(w, m) /\ Family(m) = "soundcloud" /\ Substitute(m)
    <3>1. Dealt(m, At(m))
      BY <2>3, <2>9 DEF Dealt
    <3> QED BY <2>2, <2>6, <2>9, <3>1
  <2>10. CASE Set(w, Leaving(m, "wait"))
    BY <2>2, <2>10, LeavingGood, SetGood DEF Answers
  <2>11. CASE /\ Set(w, [m EXCEPT !.deferred = @ \/ m.youtube = "cooling"])
              /\ Family(m) = "youtube" /\ m.youtube # "eligible"
    <3> DEFINE d == m.deferred \/ m.youtube = "cooling"
    <3>1. d \in BOOLEAN /\ (a.deferred => d)
      BY <2>2 DEF AttemptShape
    <3>2. d \/ m.youtube = "unusable"
      BY <2>3, <2>11
    <3>3. Set(w, [m EXCEPT !.deferred = d])
      BY <2>11
    <3> HIDE DEF d
    <3> QED BY <2>8, <2>11, <3>1, <3>2, <3>3
  <2>12. Set(w,
           IF Family(m) = "youtube"
           THEN IF m.youtube # "eligible" THEN [m EXCEPT !.deferred = @ \/ m.youtube = "cooling"]
                ELSE IF cooldown["youtube"] THEN Leaving(m, "wait")
                ELSE [m EXCEPT !.pc = "lease"]
           ELSE IF ~m.soundcloud THEN [m EXCEPT !.deferred = TRUE]
                ELSE IF Substitute(m) THEN m
                ELSE IF cooldown["soundcloud"] THEN [m EXCEPT !.deferred = TRUE]
                ELSE [m EXCEPT !.pc = "start"])
    BY <1>1, <1>3 DEF NextProvider, a, n, m
  <2>13. CASE Set(w, [m EXCEPT !.deferred = TRUE]) /\ Family(m) = "soundcloud"
    BY <2>8, <2>13
  <2> QED BY <2>3, <2>7, <2>9, <2>10, <2>11, <2>12, <2>13
<1> QED BY <1>2, <1>3

-----------------------------------------------------------------------------
(* The world around the attempts: cooldowns, the pool, what is left to do. *)

World ==
  /\ cooldown \in [Families -> BOOLEAN]
  /\ paused \in BOOLEAN
  /\ health \in [Session -> {"none", "ok", "cooling", "auth_failed"}]
  /\ refs \in [Session -> Nat]
  /\ budget \in [{"attempt", "block", "fault"} -> Nat]

LEMMA SpendType ==
  ASSUME World, NEW what \in {"attempt", "block", "fault"}, Spend(what)
  PROVE  budget' \in [{"attempt", "block", "fault"} -> Nat]
  BY DEF World, Spend

LEMMA TriggerType ==
  ASSUME World, NEW fs, Trigger(fs) PROVE cooldown' \in [Families -> BOOLEAN]
<1> SUFFICES ASSUME NEW f \in Families PROVE (cooldown[f] \/ f \in fs) \in BOOLEAN
  BY DEF Trigger
<1> QED OBVIOUS

LEMMA AttributeType ==
  ASSUME World, NEW s \in Session \cup {None}, NEW r, Attribute(s, r)
  PROVE  /\ health' \in [Session -> {"none", "ok", "cooling", "auth_failed"}]
         /\ paused' \in BOOLEAN
<1>1. r \in DOMAIN HealthOf => HealthOf[r] \in {"ok", "cooling", "auth_failed"}
  BY DEF HealthOf
<1>2. s # None => s \in Session
  OBVIOUS
<1> QED BY <1>1, <1>2 DEF World, Attribute

LEMMA StoppedWorld ==
  ASSUME World, NEW w \in Worker, NEW r, Stopped(w, r), UNCHANGED <<paused, health>>
  PROVE  World'
  BY SpendType, TriggerType DEF Stopped, World

LEMMA ResolvedWorld ==
  ASSUME World, AllGood, NEW w \in Worker, Resolved(w), UNCHANGED <<paused, health>>
  PROVE  World'
<1>1. attempt[w].lease \in Session \cup {None}
  BY DEF AllGood, AttemptShape
<1>2. refs' \in [Session -> Nat]
  BY <1>1 DEF Resolved, World
<1> QED BY <1>2 DEF Resolved, World

LEMMA AnsweredWorld ==
  ASSUME World, AllGood, NEW w \in Worker, Answered(w) PROVE World'
<1>1. CASE \E r \in Stops : Stopped(w, r)
  BY <1>1, StoppedWorld DEF Answered
<1>2. CASE Resolved(w)
  BY <1>2, ResolvedWorld DEF Answered
<1>3. CASE UNCHANGED <<cooldown, refs, budget>>
  BY <1>3 DEF Answered, World
<1> QED BY <1>1, <1>2, <1>3 DEF Answered, DirectAnswered, SearchAnswered, ResolveAnswered

LEMMA LeaveWorld ==
  ASSUME World, AllGood, NEW w \in Worker, Leave(w) PROVE World'
<1>1. attempt[w].lease \in Session \cup {None}
  BY DEF AllGood, AttemptShape
<1>2. PICK r : Attribute(attempt[w].lease, r)
  BY DEF Leave
<1> QED BY <1>1, <1>2, AttributeType DEF Leave, World

LEMMA ReturnWorld ==
  ASSUME World, AllGood, NEW w \in Worker, Return(w) PROVE World'
<1>1. cooldown' \in [Families -> BOOLEAN]
  BY TriggerType DEF Return, World
<1>2. budget' \in [{"attempt", "block", "fault"} -> Nat]
  BY SpendType DEF Return, World
<1> QED BY <1>1, <1>2 DEF Return, World

LEMMA DownloadWorld ==
  ASSUME World, AllGood, NEW w \in Worker, NEW r, DownloadEnds(w, r) PROVE World'
<1> DEFINE s == attempt[w].from
<1>1. s \in Session \cup {None}
  BY DEF AllGood, AttemptShape
<1>2. cooldown' \in [Families -> BOOLEAN]
  BY TriggerType DEF DownloadEnds
<1>3. budget' \in [{"attempt", "block", "fault"} -> Nat]
  BY SpendType DEF DownloadEnds, World
<1>4. refs' \in [Session -> Nat]
  <2>1. refs' = IF s # None /\ refs[s] > 0 THEN [refs EXCEPT ![s] = @ - 1] ELSE refs
    BY DEF DownloadEnds
  <2> HIDE DEF s
  <2>2. CASE s \in Session /\ refs[s] > 0
    BY <2>1, <2>2 DEF World
  <2>3. CASE ~(s \in Session /\ refs[s] > 0)
    BY <1>1, <2>1, <2>3 DEF World
  <2> QED BY <2>2, <2>3
<1>5. Attribute(s, r)
  BY DEF DownloadEnds
<1> QED BY <1>1, <1>2, <1>3, <1>4, <1>5, AttributeType DEF World

LEMMA WorldStep ==
  ASSUME World, AllGood, [Next]_vars PROVE World'
<1>1. ASSUME NEW w \in Worker, Step(w) PROVE World'
  <2>1. CASE Lease(w) \/ Alternate(w) \/ Start(w) \/ NextProvider(w) \/ NextCandidate(w)
    BY <2>1 DEF Lease, Alternate, Start, NextProvider, NextCandidate, World
  <2>2. CASE Answered(w)
    BY <2>2, AnsweredWorld
  <2>3. CASE Leave(w)
    BY <2>3, LeaveWorld
  <2>4. CASE Return(w)
    BY <2>4, ReturnWorld
  <2>5. ASSUME NEW r, DownloadEnds(w, r) PROVE World'
    BY <2>5, DownloadWorld
  <2> QED BY <1>1, <2>1, <2>2, <2>3, <2>4, <2>5 DEF Step
<1>2. ASSUME NEW w \in Worker, Cancel(w) PROVE World'
  BY <1>2, SpendType DEF Cancel, World
<1>3. ASSUME NEW w \in Worker, NEW o \in Origins, NEW p \in Preferred, NEW d \in BOOLEAN,
             Begin(w, o, p, d)
      PROVE  World'
  BY <1>3, SpendType DEF Begin, World
<1>4. ASSUME NEW f \in Families, CooldownEnds(f) PROVE World'
  BY <1>4 DEF CooldownEnds, World
<1>5. ASSUME NEW s \in Session, SessionRecovers(s) PROVE World'
  BY <1>5 DEF SessionRecovers, World
<1>6. CASE PauseEnds
  BY <1>6 DEF PauseEnds, World
<1>7. CASE UNCHANGED vars
  BY <1>7 DEF vars, World
<1> QED BY <1>1, <1>2, <1>3, <1>4, <1>5, <1>6, <1>7 DEF Next

LEMMA GoodStep ==
  ASSUME World, AllGood, [Next]_vars PROVE AllGood'
<1>1. ASSUME NEW w \in Worker, Step(w) PROVE AllGood'
  <2>1. CASE Answered(w)
    BY <2>1, DirectStep, SearchStep, ResolveStep DEF Answered
  <2>2. ASSUME NEW r, DownloadEnds(w, r) PROVE AllGood'
    BY <2>2, DownloadStep
  <2> QED BY <1>1, <2>1, <2>2, LeaseStep, AlternateStep, StartStep, ProviderStep, CandidateStep,
             LeaveStep, ReturnStep DEF Step
<1>2. ASSUME NEW w \in Worker, Cancel(w) PROVE AllGood'
  BY <1>2, CancelStep
<1>3. ASSUME NEW w \in Worker, NEW o \in Origins, NEW p \in Preferred, NEW d \in BOOLEAN,
             Begin(w, o, p, d)
      PROVE  AllGood'
  BY <1>3, BeginStep DEF World
<1>4. CASE UNCHANGED attempt
  BY <1>4 DEF AllGood
<1> QED BY <1>1, <1>2, <1>3, <1>4 DEF Next, CooldownEnds, SessionRecovers, PauseEnds, vars

-----------------------------------------------------------------------------
(* The references of a session and the downloads that use its cookies. *)

Uses(s) == {w \in Worker : attempt[w].from = s}
Counted == DownloadsProtected

LEMMA UsesFinite ==
  ASSUME NEW s PROVE IsFiniteSet(Uses(s)) /\ Cardinality(Uses(s)) \in Nat
  BY MediaResolutionAssumption, FS_Subset, FS_CardinalityType DEF MediaResolutionAssumption, Uses

(* No reference is given back and no use begins. *)
LEMMA FewerUses ==
  ASSUME World, AllGood, AllGood', Counted, UNCHANGED refs,
         \A w \in Worker : attempt'[w].from \in {attempt[w].from, None}
  PROVE  Counted'
<1> SUFFICES ASSUME NEW s \in Session
             PROVE  Cardinality(Uses(s)') <= refs[s]
  BY DEF Counted, DownloadsProtected, Uses
<1>1. Uses(s)' \subseteq Uses(s)
  BY MediaResolutionAssumption DEF Uses, MediaResolutionAssumption
<1>2. Cardinality(Uses(s)') <= Cardinality(Uses(s)) /\ Cardinality(Uses(s)') \in Nat
  BY <1>1, UsesFinite, FS_Subset, FS_CardinalityType
<1>3. Cardinality(Uses(s)) <= refs[s] /\ refs[s] \in Nat
  BY DEF Counted, DownloadsProtected, Uses, World
<1> QED BY <1>2, <1>3, UsesFinite

(* The attempt of w becomes b; every other attempt stays. *)
LEMMA BecomesFrom ==
  ASSUME AllGood, NEW w \in Worker, NEW b, Set(w, b), b.from \in {attempt[w].from, None}
  PROVE  \A v \in Worker : attempt'[v].from \in {attempt[v].from, None}
  BY DEF AllGood, Set

LEMMA LeavingFrom ==
  ASSUME NEW a \in AttemptShape, NEW r PROVE Leaving(a, r).from = None
  BY IdleGood DEF Leaving, Idle

(* Until it is resolved an attempt uses no session beyond its lease. *)
LEMMA ActiveFrom ==
  ASSUME AllGood, AllGood', NEW w \in Worker, NEW b, Set(w, b),
         Active(b) \/ b.pc = "idle" \/ (\E a \in AttemptShape, r \in Answers : b = Leaving(a, r))
  PROVE  \A v \in Worker : attempt'[v].from \in {attempt[v].from, None}
<1>1. attempt'[w] = b
  BY DEF AllGood, Set
<1>2. CASE Active(b) \/ b.pc = "idle"
  <2>1. Good(attempt[w])'
    BY DEF AllGood
  <2>2. attempt'[w].from = None
    BY <1>1, <1>2, <2>1 DEF Good, Places, Active
  <2> QED BY <1>1, <2>2, BecomesFrom
<1>3. CASE \E a \in AttemptShape, r \in Answers : b = Leaving(a, r)
  BY <1>3, LeavingFrom, BecomesFrom
<1> QED BY <1>2, <1>3

LEMMA StillFrom ==
  ASSUME AllGood, AllGood', NEW w \in Worker,
         \/ Lease(w) \/ Alternate(w) \/ Start(w) \/ NextProvider(w) \/ NextCandidate(w) \/ Cancel(w)
  PROVE  \A v \in Worker : attempt'[v].from \in {attempt[v].from, None}
<1> DEFINE a == attempt[w]
<1>1. a \in AttemptShape /\ a.at \in 0..3 /\ Len(Registry) = 3
  BY RegistryValues DEF AllGood, AttemptShape
<1>2. ASSUME NEW x \in AttemptShape, NEW r \in Answers, Set(w, Leaving(x, r))
      PROVE  \A v \in Worker : attempt'[v].from \in {attempt[v].from, None}
  BY <1>2, ActiveFrom
<1>3. ASSUME NEW b, Set(w, b), Active(b)
      PROVE  \A v \in Worker : attempt'[v].from \in {attempt[v].from, None}
  BY <1>3, ActiveFrom
<1>4. {"wait", "cancelled", "no_session", "gone"} \subseteq Answers
  BY DEF Answers
<1> HIDE DEF a
<1>5. CASE Lease(w)
  <2>1. ASSUME NEW s PROVE Active([a EXCEPT !.pc = "start", !.lease = s]) /\ Active([a EXCEPT !.pc = "start"])
    BY <1>1 DEF AttemptShape, Active
  <2> QED BY <1>1, <1>2, <1>3, <1>4, <1>5, <2>1 DEF Lease, a
<1>6. CASE Alternate(w)
  <2>1. ASSUME NEW s PROVE Active([a EXCEPT !.pc = "start", !.lease = s]) /\ Active(Fallback(a))
    BY <1>1 DEF AttemptShape, Active, Fallback
  <2> QED BY <1>1, <1>2, <1>3, <1>4, <1>6, <2>1 DEF Alternate, a
<1>7. CASE Start(w)
  <2>1. Active([a EXCEPT !.pc = "asked"])
    BY <1>1 DEF AttemptShape, Active
  <2> QED BY <1>1, <1>2, <1>3, <1>4, <1>7, <2>1 DEF Start, a
<1>8. CASE NextCandidate(w)
  <2>1. /\ Active(Exhausted(a))
        /\ a.pc = "rank" => Active([a EXCEPT !.list = Tail(@)])
        /\ Active([a EXCEPT !.pc = "next", !.list = <<>>, !.deferred = TRUE])
        /\ Active([a EXCEPT !.pc = "start", !.list = Tail(@), !.asking = Head(a.list)])
    BY <1>1 DEF AttemptShape, Active, Exhausted
  <2> QED BY <1>1, <1>2, <1>3, <1>4, <1>8, <2>1 DEF NextCandidate, a
<1>9. CASE Cancel(w)
  BY <1>1, <1>2, <1>4, <1>9 DEF Cancel, a
<1>10. CASE NextProvider(w) /\ a.at = 3
  <2>1. FinalAnswer(a) \in Answers
    BY <1>4 DEF FinalAnswer
  <2> QED BY <1>1, <1>2, <1>10, <2>1 DEF NextProvider, a
<1>11. CASE NextProvider(w) /\ a.at # 3
  <2> DEFINE n == [a EXCEPT !.at = @ + 1]
             m == PastYouTube(n)
  <2>1. n \in AttemptShape /\ n.pc = "next"
    BY <1>1, <1>11 DEF AttemptShape, NextProvider, a
  <2> HIDE DEF n
  <2>2. m \in AttemptShape /\ m.pc = "next"
    BY <2>1 DEF PastYouTube, AttemptShape
  <2>3. Set(w,
          IF Family(m) = "youtube"
          THEN IF m.youtube # "eligible" THEN [m EXCEPT !.deferred = @ \/ m.youtube = "cooling"]
               ELSE IF cooldown["youtube"] THEN Leaving(m, "wait")
               ELSE [m EXCEPT !.pc = "lease"]
          ELSE IF ~m.soundcloud THEN [m EXCEPT !.deferred = TRUE]
               ELSE IF Substitute(m) THEN m
               ELSE IF cooldown["soundcloud"] THEN [m EXCEPT !.deferred = TRUE]
               ELSE [m EXCEPT !.pc = "start"])
    BY <1>1, <1>11 DEF NextProvider, a, n
  <2> HIDE DEF m
  <2>4. ASSUME NEW d, NEW x \in {"lease", "start"}
        PROVE  Active(m) /\ Active([m EXCEPT !.deferred = d]) /\ Active([m EXCEPT !.pc = x])
    BY <2>2 DEF AttemptShape, Active
  <2>5. CASE Set(w, Leaving(m, "wait"))
    BY <1>2, <1>4, <2>2, <2>5
  <2>6. CASE Set(w, m)
    BY <1>3, <2>4, <2>6
  <2>7. ASSUME NEW d, Set(w, [m EXCEPT !.deferred = d])
        PROVE  \A v \in Worker : attempt'[v].from \in {attempt[v].from, None}
    BY <1>3, <2>4, <2>7
  <2>8. ASSUME NEW x \in {"lease", "start"}, Set(w, [m EXCEPT !.pc = x])
        PROVE  \A v \in Worker : attempt'[v].from \in {attempt[v].from, None}
    BY <1>3, <2>4, <2>8
  <2> QED BY <2>3, <2>5, <2>6, <2>7, <2>8
<1> QED BY <1>5, <1>6, <1>7, <1>8, <1>9, <1>10, <1>11

LEMMA BeginFrom ==
  ASSUME AllGood, AllGood', NEW w \in Worker, NEW o, NEW p, NEW d, Begin(w, o, p, d)
  PROVE  \A v \in Worker : attempt'[v].from \in {attempt[v].from, None}
<1> DEFINE a == Planned(o, p, d)
<1>1. Idle \in AttemptShape /\ Idle.from = None
  BY IdleGood DEF Good, Idle
<1>2. ASSUME NEW x PROVE [a EXCEPT !.pc = x].from = None
  BY <1>1 DEF Planned, Idle
<1>3. ASSUME NEW x, NEW r PROVE [a EXCEPT !.pc = x, !.answer = r].from = None
  BY <1>1 DEF Planned, Idle
<1> HIDE DEF a
<1>4. ASSUME NEW b, Set(w, b), b.from = None
      PROVE  \A v \in Worker : attempt'[v].from \in {attempt[v].from, None}
  BY <1>4, BecomesFrom
<1>5. ASSUME NEW r, Set(w, [a EXCEPT !.pc = "answered", !.answer = r])
      PROVE  \A v \in Worker : attempt'[v].from \in {attempt[v].from, None}
  BY <1>3, <1>4, <1>5
<1>6. ASSUME NEW x, Set(w, [a EXCEPT !.pc = x])
      PROVE  \A v \in Worker : attempt'[v].from \in {attempt[v].from, None}
  BY <1>2, <1>4, <1>6
<1> QED BY <1>5, <1>6 DEF Begin, a

(* An answer that does not resolve the item. *)
LEMMA AnsweredFrom ==
  ASSUME AllGood, AllGood', NEW w \in Worker, Answered(w), ~Resolved(w)
  PROVE  \A v \in Worker : attempt'[v].from \in {attempt[v].from, None}
<1> DEFINE a == attempt[w]
           t == [a EXCEPT !.tried = @ \cup {DirectId}]
<1>1. a \in AttemptShape /\ t \in AttemptShape
  <2>1. a \in AttemptShape /\ a.tried \cup {DirectId} \in SUBSET STRING
    BY MediaResolutionAssumption DEF AllGood, AttemptShape, MediaResolutionAssumption
  <2> HIDE DEF a
  <2> QED BY <2>1 DEF AttemptShape
<1>2. ASSUME NEW b, Set(w, b), Active(b)
      PROVE  \A v \in Worker : attempt'[v].from \in {attempt[v].from, None}
  BY <1>2, ActiveFrom
<1>3. ASSUME NEW r \in Stops, Stopped(w, r)
      PROVE  \A v \in Worker : attempt'[v].from \in {attempt[v].from, None}
  <2>1. r \in Answers /\ Set(w, Leaving(a, r))
    BY <1>3 DEF Stopped, Answers
  <2> QED BY <1>1, <2>1, ActiveFrom
<1> HIDE DEF a
<1>4. CASE DirectAnswered(w)
  <2>1. Active(Fallback(t)) /\ Active(Fallback(a))
        /\ Active([t EXCEPT !.pc = "another", !.checked = @ \cup {t.lease}, !.lease = None])
    <3> HIDE DEF t
    <3> QED BY <1>1 DEF AttemptShape, Active, Fallback
  <2>2. \/ \E r \in Stops : Stopped(w, r)
        \/ Set(w, Fallback(t)) \/ Set(w, Fallback(a))
        \/ Set(w, [t EXCEPT !.pc = "another", !.checked = @ \cup {t.lease}, !.lease = None])
    BY <1>4 DEF DirectAnswered, a
  <2> HIDE DEF t
  <2> QED BY <1>2, <1>3, <2>1, <2>2
<1>5. CASE SearchAnswered(w)
  <2>1. ASSUME NEW l PROVE Active([a EXCEPT !.pc = "rank", !.list = l]) /\ Active(Exhausted(a))
    BY <1>1 DEF AttemptShape, Active, Exhausted
  <2>2. \/ \E r \in Stops : Stopped(w, r)
        \/ Set(w, Exhausted(a)) \/ \E l \in Ranked[Family(a)] : Set(w, [a EXCEPT !.pc = "rank", !.list = l])
    BY <1>5 DEF SearchAnswered, a
  <2> QED BY <1>2, <1>3, <2>1, <2>2
<1>6. CASE ResolveAnswered(w)
  <2>1. Active([a EXCEPT !.pc = "rank", !.asking = None, !.tried = @ \cup {a.asking}])
    BY <1>1 DEF AttemptShape, Active
  <2>2. \/ \E r \in Stops : Stopped(w, r)
        \/ Set(w, [a EXCEPT !.pc = "rank", !.asking = None, !.tried = @ \cup {a.asking}])
    BY <1>6 DEF ResolveAnswered, a
  <2> QED BY <1>2, <1>3, <2>1, <2>2
<1> QED BY <1>4, <1>5, <1>6 DEF Answered

LEMMA OutFrom ==
  ASSUME AllGood, NEW w \in Worker, Leave(w) \/ Return(w)
  PROVE  \A v \in Worker : attempt'[v].from \in {attempt[v].from, None}
<1> DEFINE a == attempt[w]
<1>1. a \in AttemptShape
  BY DEF AllGood
<1> HIDE DEF a
<1>2. /\ Idle.from = None /\ [a EXCEPT !.pc = "download"].from = a.from
      /\ [a EXCEPT !.pc = "answered", !.lease = None,
                   !.youtube = "eligible", !.exhausted = {}].from = a.from
  BY <1>1 DEF AttemptShape, Idle
<1>3. \/ Set(w, Idle) \/ Set(w, [a EXCEPT !.pc = "download"])
      \/ Set(w, [a EXCEPT !.pc = "answered", !.lease = None,
                          !.youtube = "eligible", !.exhausted = {}])
  BY DEF Leave, Return, a
<1> QED BY <1>2, <1>3, BecomesFrom DEF a

(* A resolved item: one reference more, and one download more. *)
LEMMA ResolvedCounted ==
  ASSUME World, AllGood, AllGood', Counted, NEW w \in Worker, attempt[w].pc = "asked", Resolved(w)
  PROVE  Counted'
<1> DEFINE a == attempt[w]
           u == IF Family(a) = "youtube" THEN a.lease ELSE None
           l == Leaving(a, "source")
<1>1. a \in AttemptShape /\ l \in AttemptShape /\ u \in Session \cup {None} /\ a.from = None
  BY LeavingGood DEF AllGood, Answers, Good, AttemptShape, Places, Active
<1>2. Set(w, [l EXCEPT !.from = u]) /\ refs' = IF u = None THEN refs ELSE [refs EXCEPT ![u] = @ + 1]
  BY DEF Resolved
<1> HIDE DEF u, l
<1>3. [l EXCEPT !.from = u].from = u
  BY <1>1 DEF AttemptShape
<1>4. attempt'[w].from = u /\ \A v \in Worker \ {w} : attempt'[v] = attempt[v]
  BY <1>2, <1>3 DEF AllGood, Set
<1> SUFFICES ASSUME NEW s \in Session
             PROVE  Cardinality(Uses(s)') <= refs'[s]
  BY DEF Counted, DownloadsProtected, Uses
<1>5. Cardinality(Uses(s)) <= refs[s] /\ refs[s] \in Nat /\ None \notin Session
  BY MediaResolutionAssumption DEF Counted, DownloadsProtected, Uses, World, MediaResolutionAssumption
<1>6. CASE s = u
  <2>1. Uses(s)' = Uses(s) \cup {w} /\ w \notin Uses(s)
    BY <1>1, <1>4, <1>5, <1>6 DEF Uses
  <2>2. Cardinality(Uses(s)') = Cardinality(Uses(s)) + 1
    BY <2>1, UsesFinite, FS_AddElement
  <2>3. refs'[s] = refs[s] + 1
    BY <1>2, <1>5, <1>6 DEF World
  <2> QED BY <1>5, <2>2, <2>3, UsesFinite
<1>7. CASE s # u
  <2>1. Uses(s)' = Uses(s)
    BY <1>1, <1>4, <1>5, <1>7 DEF Uses
  <2>2. refs'[s] = refs[s]
    BY <1>1, <1>2, <1>7 DEF World
  <2> QED BY <1>5, <2>1, <2>2
<1> QED BY <1>6, <1>7

(* A download that ended: both are one less. *)
LEMMA DownloadCounted ==
  ASSUME World, AllGood, AllGood', Counted, NEW w \in Worker, NEW r, DownloadEnds(w, r)
  PROVE  Counted'
<1> DEFINE u == attempt[w].from
<1>1. u \in Session \cup {None}
  BY DEF AllGood, AttemptShape
<1>2. Set(w, Idle) /\ refs' = IF u # None /\ refs[u] > 0 THEN [refs EXCEPT ![u] = @ - 1] ELSE refs
  BY DEF DownloadEnds
<1>3. attempt'[w].from = None /\ \A v \in Worker \ {w} : attempt'[v] = attempt[v]
  BY <1>2 DEF AllGood, Set, Idle
<1> SUFFICES ASSUME NEW s \in Session
             PROVE  Cardinality(Uses(s)') <= refs'[s]
  BY DEF Counted, DownloadsProtected, Uses
<1>4. Cardinality(Uses(s)) <= refs[s] /\ refs[s] \in Nat /\ None \notin Session
  BY MediaResolutionAssumption DEF Counted, DownloadsProtected, Uses, World, MediaResolutionAssumption
<1>5. CASE s = u
  <2>1. Uses(s)' = Uses(s) \ {w} /\ w \in Uses(s)
    BY <1>3, <1>4, <1>5 DEF Uses
  <2>2. Cardinality(Uses(s)') = Cardinality(Uses(s)) - 1
    BY <2>1, UsesFinite, FS_RemoveElement
  <2>3. Cardinality(Uses(s)') \in Nat
    BY <2>1, UsesFinite, FS_Subset, FS_CardinalityType
  <2>4. refs[s] > 0
    BY <1>4, <2>2, <2>3, UsesFinite
  <2>5. refs'[s] = refs[s] - 1
    BY <1>2, <1>4, <1>5, <2>4 DEF World
  <2> QED BY <1>4, <2>2, <2>5, UsesFinite
<1>6. CASE s # u
  <2>1. Uses(s)' \subseteq Uses(s)
    BY <1>3, <1>4 DEF Uses
  <2>2. Cardinality(Uses(s)') <= Cardinality(Uses(s)) /\ Cardinality(Uses(s)') \in Nat
    BY <2>1, UsesFinite, FS_Subset, FS_CardinalityType
  <2>3. refs'[s] = refs[s]
    BY <1>1, <1>2, <1>6 DEF World
  <2> QED BY <1>4, <2>2, <2>3, UsesFinite
<1> QED BY <1>5, <1>6

LEMMA CountedStep ==
  ASSUME World, AllGood, AllGood', Counted, [Next]_vars PROVE Counted'
<1>1. ASSUME NEW w \in Worker, Step(w) PROVE Counted'
  <2>1. CASE Lease(w) \/ Alternate(w) \/ Start(w) \/ NextProvider(w) \/ NextCandidate(w)
    <3>1. UNCHANGED refs
      BY <2>1 DEF Lease, Alternate, Start, NextProvider, NextCandidate
    <3> QED BY <2>1, <3>1, StillFrom, FewerUses
  <2>2. CASE Answered(w) /\ Resolved(w)
    BY <2>2, ResolvedCounted DEF Answered
  <2>3. CASE Answered(w) /\ ~Resolved(w)
    <3>1. UNCHANGED refs
      BY <2>3 DEF Answered, DirectAnswered, SearchAnswered, ResolveAnswered, Stopped
    <3> QED BY <2>3, <3>1, AnsweredFrom, FewerUses
  <2>4. CASE Leave(w) \/ Return(w)
    <3>1. UNCHANGED refs
      BY <2>4 DEF Leave, Return
    <3> QED BY <2>4, <3>1, OutFrom, FewerUses
  <2>5. ASSUME NEW r, DownloadEnds(w, r) PROVE Counted'
    BY <2>5, DownloadCounted
  <2> QED BY <1>1, <2>1, <2>2, <2>3, <2>4, <2>5 DEF Step
<1>2. ASSUME NEW w \in Worker, Cancel(w) PROVE Counted'
  <2>1. UNCHANGED refs
    BY <1>2 DEF Cancel
  <2> QED BY <1>2, <2>1, StillFrom, FewerUses
<1>3. ASSUME NEW w \in Worker, NEW o \in Origins, NEW p \in Preferred, NEW d \in BOOLEAN,
             Begin(w, o, p, d)
      PROVE  Counted'
  <2>1. UNCHANGED refs
    BY <1>3 DEF Begin
  <2> QED BY <1>3, <2>1, BeginFrom, FewerUses
<1>4. CASE UNCHANGED <<attempt, refs>>
  BY <1>4, FewerUses
<1> QED BY <1>1, <1>2, <1>3, <1>4 DEF Next, CooldownEnds, SessionRecovers, PauseEnds, vars

-----------------------------------------------------------------------------
(* The theorems. *)

ResolutionInv == World /\ AllGood /\ Counted

LEMMA Invariance == Spec => []ResolutionInv
<1>1. Init => ResolutionInv
  <2> SUFFICES ASSUME Init PROVE ResolutionInv
    OBVIOUS
  <2>1. World
    <3>1. \A h \in {"none", "ok", "auth_failed"} :
            [s \in Session |-> h] \in [Session -> {"none", "ok", "cooling", "auth_failed"}]
      OBVIOUS
    <3> QED BY <3>1, MediaResolutionAssumption DEF Init, World, MediaResolutionAssumption
  <2>2. AllGood
    BY IdleGood DEF Init, AllGood, Good
  <2>3. Counted
    <3> SUFFICES ASSUME NEW s \in Session PROVE Cardinality(Uses(s)) <= refs[s]
      BY DEF Counted, DownloadsProtected, Uses
    <3>1. Uses(s) = {}
      BY MediaResolutionAssumption DEF Init, Idle, Uses, MediaResolutionAssumption
    <3> QED BY <3>1, FS_EmptySet DEF Init
  <2> QED BY <2>1, <2>2, <2>3 DEF ResolutionInv
<1>2. ResolutionInv /\ [Next]_vars => ResolutionInv'
  BY WorldStep, GoodStep, CountedStep DEF ResolutionInv
<1> QED BY <1>1, <1>2, PTL DEF Spec

(* Every variable keeps its shape (orchestrator.go, the local state of     *)
(* ResolveMedia, and pool.go).                                             *)
THEOREM Types == Spec => []TypeOK
<1>1. ResolutionInv => TypeOK
  BY DEF ResolutionInv, World, AllGood, TypeOK
<1> QED BY <1>1, Invariance, PTL

(* Background work asks SoundCloud only when every provider of the         *)
(* preferred family has answered in this attempt, for every number of      *)
(* workers and sessions and every ranking (planAttempt, ResolveMedia).     *)
THEOREM NeverSubstituted == Spec => []NoSilentSubstitute
<1>1. ResolutionInv => NoSilentSubstitute
  <2> SUFFICES ASSUME ResolutionInv, NEW w \in Worker,
                      Asks(w), attempt[w].origin = "subscription",
                      FamilyOf(attempt[w].pref) = "youtube", Family(attempt[w]) = "soundcloud"
               PROVE  {"ytmusic", "youtube"} \subseteq attempt[w].exhausted
    BY DEF NoSilentSubstitute
  <2> DEFINE a == attempt[w]
  <2>1. Good(a) /\ a.pref \in {"ytmusic", "youtube"} /\ a.at \in 0..3
    BY RegistryValues DEF ResolutionInv, AllGood, AttemptShape, FamilyOf, Good
  <2>2. Active(a) /\ a.youtube = "eligible"
    BY <2>1 DEF Asks, Active, Good, Eligible
  <2>3. a.at = 3
    BY <2>1, ChainValues DEF Family, FamilyOf, At
  <2>4. Dealt(a, Chain(a.pref)[1]) /\ Dealt(a, Chain(a.pref)[2])
    BY <2>1, <2>2, <2>3 DEF Good, Through, Passed
  <2>5. \A p \in {"ytmusic", "youtube"} : Dealt(a, p) => p \in a.exhausted
    BY <2>2 DEF Dealt, FamilyOf
  <2> QED BY <2>1, <2>4, <2>5, ChainValues
<1> QED BY <1>1, Invariance, PTL

(* Not found is said only when every provider failed in this attempt, or   *)
(* is YouTube without a usable session (ResolveMedia, its final answers).  *)
THEOREM GivenUpHonestly == Spec => []SkippedMeansWait
<1>1. ResolutionInv => SkippedMeansWait
  BY DEF ResolutionInv, AllGood, Good, GivenUp, NoneLeft, SkippedMeansWait
<1> QED BY <1>1, Invariance, PTL

(* The pool counts every download that uses the cookies of a session, for  *)
(* every number of workers (RetainDataPlane, RecordDownloadOutcome).       *)
THEOREM DownloadsCounted == Spec => []DownloadsProtected
<1>1. ResolutionInv => DownloadsProtected
  BY DEF ResolutionInv, Counted
<1> QED BY <1>1, Invariance, PTL

(* Waiting attempts never wait for each other: the one that holds the      *)
(* session goes on (ResolveMedia, the direct path).                        *)
THEOREM WaitsEnd == Spec => []NoMutualWait
<1>1. ResolutionInv => NoMutualWait
  <2> SUFFICES ASSUME ResolutionInv, NEW w \in Worker, Blocked(w)
               PROVE  \E v \in Worker : attempt[v].lease # None /\ ~Blocked(v)
    BY DEF NoMutualWait
  <2>1. PICK s \in Session : Leased(s)
    BY DEF Blocked, Waits, Occupied
  <2>2. PICK v \in Worker : attempt[v].lease = s
    BY <2>1 DEF Leased
  <2>3. attempt[v].lease # None
    BY <2>2, MediaResolutionAssumption DEF MediaResolutionAssumption
  <2>4. ~Blocked(v)
    BY <2>3 DEF Blocked, ResolutionInv, AllGood, Good, Places
  <2> QED BY <2>3, <2>4
<1> QED BY <1>1, Invariance, PTL

-----------------------------------------------------------------------------
(* Audit and repair: what every variable holds.                            *)

Endings  == {"running", "completed", "failed", "cancelled"}
Findings == {"none", "missing", "path", "tags", "duplicate", "untracked"}
PathOrNo == Place \cup {Nothing}
SongOrNo == Song \cup {Nothing}
Errands  == [run : Nat, code : Findings, path : PathOrNo, track : SongOrNo,
             expected : PathOrNo, hash : Contents \cup {Nothing}]
Located  == {f \in Errands : f.path \in Place}
Moving   == {"link", "unlink", "back", "lookup", "drop", "put"}
Requests == [pc : {"idle", "fetch", "source", "target", "track", "act", "adopt", "resolve",
                   "files", "tag", "remove", "forget"} \cup Moving,
             kind : Actions \cup {"none", "retag", "delete", "reorganize"},
             work : Errands, held : SUBSET ({"path", "track"} \X (PathOrNo \cup SongOrNo)),
             row : SongOrNo, kept : BOOLEAN, files : SUBSET Place]
Audits   == [pc : {"idle", "walk", "read", "inspect", "check", "store", "complete", "leave"},
             run : Nat, deep : BOOLEAN, cancelled : BOOLEAN, walk : SUBSET Place,
             rows : UNION {[P -> SongOrNo] : P \in SUBSET Place},
             tracks : SUBSET Song, new : SUBSET Located]
Jobs     == [pc : {"none", "ready", "placed"}, track : BOOLEAN]

(* A finding and a planned move name a place; what is moved or tagged is of *)
(* a track; a deletion is what removes files.                              *)
Aimed(q) ==
  /\ q.kind \in Actions \cup {"reorganize"} => q.work.path \in Place
  /\ q.kind = "reorganize" \/ q.pc = "tag" => q.work.track \in Song
  /\ q.pc \in Moving => q.kind \in {"move", "reorganize", "quarantine"}
  /\ q.pc \in Moving /\ q.kind # "quarantine" => q.work.track \in Song
  /\ q.pc \in Moving \ {"link", "unlink"} => q.kind # "quarantine"
  /\ q.pc \in {"adopt"} => q.kind = "adopt"
  /\ q.pc \in {"remove", "forget"} => q.kind = "delete"
  /\ q.pc \in {"fetch", "source", "target"} => q.kind \in Actions
  /\ q.pc \in {"forget"} => q.work.path \in Place

LibraryOK  == /\ From(Place, Contents, disk) /\ quarantine \in [DOMAIN quarantine -> Contents]
              /\ From(Place, SongOrNo, filed) /\ catalogue \subseteq Song
PlansOK    == findings \subseteq Located /\ layout \subseteq {f \in Located : f.track \in Song}
RunsOK     == /\ From(Nat, Endings, run) /\ IsFiniteSet(DOMAIN run)
              /\ audit \in Audits /\ unrecorded \subseteq Nat
RequestsOK == request \in [Caller -> Requests] /\ \A r \in Caller : Aimed(request[r])
JobsOK     == download \in [Song -> Jobs]

(* Files, rows, findings, runs, requests and downloads have their shape.   *)
RepairTypeOK == LibraryOK /\ PlansOK /\ RunsOK /\ RequestsOK /\ JobsOK

LEMMA WithKeeps ==
  ASSUME NEW S, NEW T, NEW f, From(S, T, f), NEW x \in S, NEW v \in T
  PROVE  From(S, T, With(f, x, v))
BY DEF From, With

LEMMA LackingKeeps ==
  ASSUME NEW S, NEW T, NEW f, From(S, T, f), NEW x
  PROVE  From(S, T, Lacking(f, x))
BY DEF From, Lacking

LEMMA SimpleRequests ==
  /\ NoRequest \in Requests /\ Aimed(NoRequest)
  /\ NoWork \in Errands
BY DEF NoRequest, NoWork, Requests, Errands, Aimed, PathOrNo, SongOrNo, Findings, Actions, Moving

LEMMA RestingShaped == Resting \in Audits
<1>1. << >> \in [{} -> SongOrNo] /\ {} \in SUBSET Place
  OBVIOUS
<1> QED BY <1>1 DEF Resting, Audits

LEMMA EndsShaped ==
  ASSUME RequestsOK, NEW r \in Caller, EndRequest(r)
  PROVE  RequestsOK'
BY SimpleRequests DEF RequestsOK, EndRequest

LEMMA SucceedShaped ==
  ASSUME RequestsOK, NEW r \in Caller, Succeed(r)
  PROVE  RequestsOK'
<1>1. CASE request[r].kind \in Actions
  <2> DEFINE q == [request[r] EXCEPT !.held = {}, !.pc = "resolve"]
  <2>1. request' = [request EXCEPT ![r] = q]
    BY <1>1 DEF Succeed
  <2>2. /\ request[r] \in Requests /\ Aimed(request[r])
        /\ q.kind = request[r].kind /\ q.work = request[r].work /\ q.pc = "resolve"
    BY DEF RequestsOK, Requests
  <2>3. q \in Requests
    BY <2>2 DEF Requests
  <2>4. Aimed(q)
    BY <2>2, <1>1 DEF Aimed, Moving, Actions
  <2> HIDE DEF q
  <2> QED BY <2>1, <2>3, <2>4 DEF RequestsOK
<1>2. CASE ~(request[r].kind \in Actions)
  BY <1>2, EndsShaped DEF Succeed
<1> QED BY <1>1, <1>2

(* A step changes one request: what that one becomes is enough.            *)
LEMMA OneShaped ==
  ASSUME RequestsOK, NEW r \in Caller, NEW q \in Requests, Aimed(q),
         request' = [request EXCEPT ![r] = q]
  PROVE  RequestsOK'
BY DEF RequestsOK

Stages == {"idle", "fetch", "source", "target", "track", "act", "adopt", "resolve",
           "files", "tag", "remove", "forget"} \cup Moving

LEMMA GoOnShaped ==
  ASSUME RequestsOK, NEW r \in Caller, NEW pc \in Stages, GoOn(r, pc),
         Aimed([request[r] EXCEPT !.pc = pc])
  PROVE  RequestsOK'
<1> DEFINE q == [request[r] EXCEPT !.pc = pc]
<1>1. request' = [request EXCEPT ![r] = q]
  BY DEF GoOn
<1>2. q \in Requests /\ Aimed(q)
  BY DEF RequestsOK, Requests, Stages
<1> HIDE DEF q
<1> QED BY <1>1, <1>2, OneShaped

(* A request takes up a call, locks, and decides.                          *)
LEMMA UndertakeShaped ==
  ASSUME RequestsOK, NEW r \in Caller, NEW kind, NEW pc, NEW w \in Errands,
         Undertake(r, kind, pc, w),
         \/ kind \in Actions /\ pc = "fetch" /\ w \in Located
         \/ kind \in {"retag", "delete"} /\ pc = "track"
         \/ kind = "reorganize" /\ pc = "track" /\ w \in Located /\ w.track \in Song
  PROVE  RequestsOK'
<1> DEFINE q == [NoRequest EXCEPT !.kind = kind, !.pc = pc, !.work = w]
<1>1. request' = [request EXCEPT ![r] = q]
  BY DEF Undertake
<1>2. q.kind = kind /\ q.pc = pc /\ q.work = w
  BY DEF NoRequest
<1>3. q \in Requests
  <2>1. [NoRequest EXCEPT !.kind = kind] \in Requests
    BY SimpleRequests DEF Requests
  <2>2. [[NoRequest EXCEPT !.kind = kind] EXCEPT !.pc = pc] \in Requests
    BY <2>1 DEF Requests
  <2> QED BY <2>2 DEF Requests
<1>4. Aimed(q)
  <2> HIDE DEF q
  <2> QED BY <1>2 DEF Aimed, Moving, Actions, Located
<1> HIDE DEF q
<1> QED BY <1>1, <1>3, <1>4, OneShaped

LEMMA LockShaped ==
  ASSUME RequestsOK, NEW r \in Caller, LockKey(r)
  PROVE  RequestsOK'
<1> DEFINE h == request[r].held \cup {Wants(r)}
           p == AfterLock(r)
           q == [request[r] EXCEPT !.held = h, !.pc = p]
<1>1. request' = [request EXCEPT ![r] = q]
  BY DEF LockKey
<1>2. request[r] \in Requests /\ Aimed(request[r]) /\ request[r].work \in Errands
      /\ request[r].pc \in {"source", "target", "track"}
  BY DEF RequestsOK, Requests, LockKey, Waiting
<1>3. h \in SUBSET ({"path", "track"} \X (PathOrNo \cup SongOrNo))
  <2>1. Wants(r) \in {"path", "track"} \X (PathOrNo \cup SongOrNo)
    BY <1>2 DEF Wants, Source, Expected, Subject, Errands
  <2> QED BY <2>1, <1>2 DEF Requests
<1>4. p \in {"target", "track", "act"} /\ (p = "target" => request[r].pc = "source")
  BY <1>2 DEF AfterLock
<1>5. /\ q.kind = request[r].kind /\ q.work = request[r].work /\ q.pc = p
      /\ q \in Requests
  <2> HIDE DEF h, p
  <2>1. [request[r] EXCEPT !.held = h] \in Requests
    BY <1>2, <1>3 DEF Requests
  <2> QED BY <1>2, <1>3, <1>4 DEF Requests
<1>6. Aimed(q)
  <2> HIDE DEF p, q
  <2> QED BY <1>5, <1>4, <1>2 DEF Aimed, Moving
<1> HIDE DEF q
<1> QED BY <1>1, <1>5, <1>6, OneShaped

LEMMA DecideShaped ==
  ASSUME RequestsOK, NEW r \in Caller, NEW kind, NEW ready \in BOOLEAN, NEW next \in Stages,
         Decide(r, kind, ready, next),
         ready => /\ next \in {"link", "lookup"} => /\ kind \in {"move", "reorganize"}
                                                    /\ Subject(r) \in Song
                  /\ next \in {"link", "lookup", "files"}
  PROVE  RequestsOK'
<1>1. CASE ~ready
  BY <1>1, EndsShaped DEF Decide
<1>2. CASE ready
  <2> DEFINE q == [request[r] EXCEPT !.pc = next]
  <2>1. GoOn(r, next)
    BY <1>2 DEF Decide
  <2>2. request[r] \in Requests /\ Aimed(request[r]) /\ request[r].kind = kind
    BY DEF RequestsOK, Decide
  <2>3. q.kind = kind /\ q.work = request[r].work /\ q.pc = next
    BY <2>2 DEF Requests
  <2>4. Aimed(q)
    <3> HIDE DEF q
    <3> QED BY <2>2, <2>3, <1>2 DEF Aimed, Moving, Subject
  <2> QED BY <2>1, <2>4, GoOnShaped
<1> QED BY <1>1, <1>2

LEMMA RequestOnly ==
  ASSUME RepairTypeOK, RequestsOK',
         UNCHANGED <<disk, quarantine, filed, catalogue, findings, auditVars, layout, download>>
  PROVE  RepairTypeOK'
BY DEF RepairTypeOK, LibraryOK, PlansOK, RunsOK, JobsOK, auditVars, From

(* The decisions.                                                          *)
LEMMA ActsShaped ==
  ASSUME RepairTypeOK, NEW r \in Caller,
         \/ ActMove(r) \/ ActReorganize(r) \/ ActRestore(r) \/ ActFiles(r)
         \/ ActAdopt(r) \/ ActQuarantine(r)
  PROVE  RepairTypeOK'
<1>. USE DEF RepairTypeOK
<1>1. /\ request[r] \in Requests /\ Aimed(request[r]) /\ catalogue \subseteq Song
      /\ {"link", "lookup", "files"} \subseteq Stages
  BY DEF RequestsOK, LibraryOK, Stages, Moving
<1>2. CASE ActMove(r)
  <2> DEFINE ready == /\ Subject(r) \in catalogue
                      /\ Source(r) \in DOMAIN disk /\ ~Changed(r)
                      /\ Target(r) \notin DOMAIN disk
  <2>1. CASE Subject(r) \in catalogue /\ Decide(r, "move", TRUE, "lookup")
    <3>1. RequestsOK'
      BY <2>1, <1>1, DecideShaped
    <3> QED BY <3>1, <2>1, RequestOnly DEF Decide
  <2>2. CASE Decide(r, "move", ready, "link")
    <3>1. ready \in BOOLEAN /\ (ready => Subject(r) \in Song)
      BY <1>1
    <3> HIDE DEF ready
    <3>2. RequestsOK'
      BY <2>2, <3>1, <1>1, DecideShaped
    <3> QED BY <3>2, <2>2, RequestOnly DEF Decide
  <2> QED BY <1>2, <2>1, <2>2 DEF ActMove
<1>3. CASE ActReorganize(r)
  <2> DEFINE ready == ~Busy(Subject(r)) /\ Target(r) \notin DOMAIN disk
  <2>1. Decide(r, "reorganize", ready, "link") /\ ready \in BOOLEAN /\ Subject(r) \in Song
    BY <1>3, <1>1 DEF ActReorganize, Aimed, Subject, Decide
  <2> HIDE DEF ready
  <2>2. RequestsOK'
    BY <2>1, <1>1, DecideShaped
  <2> QED BY <2>1, <2>2, RequestOnly DEF Decide
<1>4. CASE ActRestore(r)
  <2> DEFINE ready == Source(r) \in DOMAIN disk /\ ~Changed(r)
  <2>1. Decide(r, "restore", ready, "files") /\ ready \in BOOLEAN
    BY <1>4 DEF ActRestore
  <2> HIDE DEF ready
  <2>2. RequestsOK'
    BY <2>1, <1>1, DecideShaped
  <2> QED BY <2>1, <2>2, RequestOnly DEF Decide
<1>5. CASE ActFiles(r)
  <2>1. PICK kind \in {"retag", "delete"} : Decide(r, kind, TRUE, "files")
    BY <1>5 DEF ActFiles
  <2>2. RequestsOK'
    BY <2>1, <1>1, DecideShaped
  <2> QED BY <2>1, <2>2, RequestOnly DEF Decide
<1>6. CASE ActAdopt(r)
  <2>1. CASE GoOn(r, "adopt")
    <3>1. Aimed([request[r] EXCEPT !.pc = "adopt"]) /\ "adopt" \in Stages
      BY <1>1, <1>6 DEF ActAdopt, Aimed, Moving, Requests, Stages
    <3> QED BY <3>1, <2>1, <1>6, GoOnShaped, RequestOnly DEF ActAdopt
  <2>2. CASE EndRequest(r) \/ Succeed(r)
    BY <2>2, <1>6, EndsShaped, SucceedShaped, RequestOnly DEF ActAdopt
  <2> QED BY <1>6, <2>1, <2>2 DEF ActAdopt
<1>7. CASE ActQuarantine(r)
  <2>1. CASE GoOn(r, "link")
    <3>1. Aimed([request[r] EXCEPT !.pc = "link"]) /\ "link" \in Stages
      BY <1>1, <1>7 DEF ActQuarantine, Aimed, Moving, Requests, Stages
    <3> QED BY <3>1, <2>1, <1>7, GoOnShaped, RequestOnly DEF ActQuarantine
  <2>2. CASE EndRequest(r) \/ Succeed(r)
    BY <2>2, <1>7, EndsShaped, SucceedShaped, RequestOnly DEF ActQuarantine
  <2> QED BY <1>7, <2>1, <2>2 DEF ActQuarantine
<1> QED BY <1>2, <1>3, <1>4, <1>5, <1>6, <1>7

(* The steps of a move.                                                    *)
LEMMA MovesShaped ==
  ASSUME RepairTypeOK, NEW r \in Caller, Link(r) \/ Unlink(r) \/ MoveBack(r)
  PROVE  RepairTypeOK'
<1>. USE DEF RepairTypeOK
<1>1. /\ request[r] \in Requests /\ Aimed(request[r]) /\ request[r].pc \in Moving
      /\ Source(r) \in Place /\ (request[r].kind # "quarantine" => Target(r) \in Place)
      /\ From(Place, Contents, disk) /\ quarantine \in [DOMAIN quarantine -> Contents]
  BY RepairAssumption
     DEF RequestsOK, LibraryOK, Link, LinkTo, Unlink, MoveBack, Moving, Aimed, Source, Target,
         Subject, Actions
<1>2. CASE Link(r)
  <2>1. CASE EndRequest(r) /\ UNCHANGED <<disk, quarantine>>
    BY <2>1, <1>2, EndsShaped, RequestOnly DEF Link, LinkTo
  <2>2. CASE GoOn(r, "unlink")
    <3>1. Aimed([request[r] EXCEPT !.pc = "unlink"]) /\ "unlink" \in Stages
      BY <1>1, <1>2 DEF Link, LinkTo, Aimed, Moving, Requests, Stages
    <3>2. RequestsOK'
      BY <3>1, <2>2, GoOnShaped
    <3>3. disk' = disk \/ (/\ Source(r) \in DOMAIN disk /\ request[r].kind # "quarantine"
                           /\ disk' = With(disk, Target(r), disk[Source(r)]))
      BY <1>2, <2>2, <1>1 DEF Link, LinkTo
    <3>4. From(Place, Contents, disk')
      <4>1. CASE disk' = disk
        BY <4>1, <1>1
      <4>2. CASE /\ Source(r) \in DOMAIN disk /\ request[r].kind # "quarantine"
                 /\ disk' = With(disk, Target(r), disk[Source(r)])
        <5>1. disk[Source(r)] \in Contents /\ Target(r) \in Place
          BY <4>2, <1>1 DEF From
        <5>2. From(Place, Contents, With(disk, Target(r), disk[Source(r)]))
          BY <5>1, <1>1, WithKeeps
        <5> QED BY <5>2, <4>2
      <4> QED BY <3>3, <4>1, <4>2
    <3>5. /\ quarantine' = quarantine
             \/ \E x : /\ Source(r) \in DOMAIN disk
                       /\ quarantine' = With(quarantine, x, disk[Source(r)])
          /\ UNCHANGED <<filed, catalogue, findings, auditVars, layout, download>>
      BY <1>2, <2>2, <1>1 DEF Link, LinkTo
    <3>6. quarantine' \in [DOMAIN quarantine' -> Contents]
      BY <3>5, <1>1 DEF From, With
    <3> QED BY <3>2, <3>4, <3>5, <3>6
            DEF LibraryOK, PlansOK, RunsOK, JobsOK, auditVars, From
  <2> QED BY <1>2, <2>1, <2>2 DEF Link, LinkTo
<1>3. CASE Unlink(r)
  <2>1. From(Place, Contents, disk')
    BY <1>3, <1>1, LackingKeeps DEF Unlink
  <2>2. RequestsOK'
    <3>1. CASE GoOn(r, "back") \/ GoOn(r, "lookup")
      <4>1. PICK pc \in {"back", "lookup"} : GoOn(r, pc)
        BY <3>1
      <4>2. request[r].kind # "quarantine" \/ EndRequest(r) \/ Succeed(r)
        BY <1>3 DEF Unlink
      <4>3. CASE request[r].kind # "quarantine"
        <5>1. Aimed([request[r] EXCEPT !.pc = pc]) /\ pc \in Stages
          BY <1>1, <4>3 DEF Aimed, Moving, Requests, Stages
        <5> QED BY <5>1, <4>1, GoOnShaped
      <4> QED BY <4>2, <4>3, EndsShaped, SucceedShaped
    <3>2. CASE EndRequest(r) \/ Succeed(r)
      BY <3>2, EndsShaped, SucceedShaped
    <3> QED BY <1>3, <3>1, <3>2 DEF Unlink
  <2> QED BY <2>1, <2>2, <1>3
          DEF Unlink, LibraryOK, PlansOK, RunsOK, JobsOK, auditVars, From
<1>4. CASE MoveBack(r)
  <2>1. From(Place, Contents, disk')
    <3>1. CASE Target(r) \in DOMAIN disk
      <4>1. From(Place, Contents, With(disk, Source(r), disk[Target(r)]))
        BY <3>1, <1>1, WithKeeps DEF From
      <4> QED BY <4>1, <3>1, <1>4, LackingKeeps DEF MoveBack
    <3> QED BY <3>1, <1>1, <1>4 DEF MoveBack
  <2>2. RequestsOK'
    BY <1>4, EndsShaped DEF MoveBack
  <2> QED BY <2>1, <2>2, <1>4
          DEF MoveBack, LibraryOK, PlansOK, RunsOK, JobsOK, auditVars, From
<1> QED BY <1>2, <1>3, <1>4

(* The steps of the rows.                                                  *)
LEMMA RowsShaped ==
  ASSUME RepairTypeOK, NEW r \in Caller,
         FindRow(r) \/ DropRow(r) \/ PutRow(r) \/ Adopt(r) \/ Resolve(r) \/ Fetch(r) \/ LockKey(r)
  PROVE  RepairTypeOK'
<1>. USE DEF RepairTypeOK
<1>1. /\ request[r] \in Requests /\ Aimed(request[r]) /\ request[r].work \in Errands
      /\ request[r].row \in SongOrNo
      /\ From(Place, SongOrNo, filed)
  BY DEF RequestsOK, LibraryOK, Requests
<1>2. CASE FindRow(r)
  <2>1. CASE GiveUp(r) \/ Succeed(r)
    BY <2>1, <1>2, EndsShaped, SucceedShaped, RequestOnly DEF GiveUp, FindRow
  <2>2. CASE /\ Source(r) \in DOMAIN filed
             /\ request' = [request EXCEPT ![r].row = filed[Source(r)], ![r].pc = "drop"]
    <3> DEFINE v == filed[Source(r)]
               q == [request[r] EXCEPT !.row = v, !.pc = "drop"]
    <3>1. request' = [request EXCEPT ![r] = q] /\ v \in SongOrNo
      BY <2>2, <1>1 DEF From
    <3> HIDE DEF v
    <3>2. [request[r] EXCEPT !.row = v] \in Requests
      BY <3>1, <1>1 DEF Requests
    <3>3. /\ q \in Requests /\ q.kind = request[r].kind /\ q.work = request[r].work
          /\ q.pc = "drop" /\ request[r].pc = "lookup"
      BY <3>2, <1>1, <1>2 DEF Requests, Moving, FindRow
    <3> HIDE DEF q
    <3>4. Aimed(q)
      BY <3>3, <1>1 DEF Aimed, Moving
    <3> QED BY <3>1, <3>3, <3>4, <1>2, OneShaped, RequestOnly DEF FindRow
  <2> QED BY <1>2, <2>1, <2>2 DEF FindRow
<1>3. CASE DropRow(r)
  <2>1. PICK ok \in BOOLEAN :
          /\ filed' = IF ok THEN Lacking(filed, Source(r)) ELSE filed
          /\ request' = [request EXCEPT ![r].kept = ~ok, ![r].pc = "put"]
    BY <1>3 DEF DropRow
  <2>2. From(Place, SongOrNo, filed')
    BY <2>1, <1>1, LackingKeeps
  <2> DEFINE b == ~ok
             q == [request[r] EXCEPT !.kept = b, !.pc = "put"]
  <2>3. request' = [request EXCEPT ![r] = q] /\ b \in BOOLEAN
    BY <2>1
  <2> HIDE DEF b
  <2>4. [request[r] EXCEPT !.kept = b] \in Requests
    BY <2>3, <1>1 DEF Requests
  <2>5. /\ q \in Requests /\ q.kind = request[r].kind /\ q.work = request[r].work
        /\ q.pc = "put" /\ request[r].pc = "drop"
    BY <2>4, <1>1, <1>3 DEF Requests, Moving, DropRow
  <2> HIDE DEF q
  <2>6. Aimed(q)
    BY <2>5, <1>1 DEF Aimed, Moving
  <2>7. RequestsOK'
    BY <2>3, <2>5, <2>6, OneShaped
  <2> QED BY <2>2, <2>7, <1>3 DEF DropRow, LibraryOK, PlansOK, RunsOK, JobsOK, auditVars, From
<1>4. CASE PutRow(r) \/ Adopt(r)
  <2>1. RequestsOK'
    BY <1>4, EndsShaped, SucceedShaped DEF PutRow, Adopt, GiveUp
  <2>2. filed' = filed \/ \E p \in Place, t \in SongOrNo : filed' = Upserted(p, t)
    <3>1. CASE PutRow(r)
      <4>1. Target(r) \in Place
        BY <3>1, <1>1, RepairAssumption DEF PutRow, Aimed, Moving, Target, Subject
      <4> QED BY <4>1, <3>1, <1>1 DEF PutRow
    <3>2. CASE Adopt(r)
      <4>1. Source(r) \in Place
        BY <3>2, <1>1 DEF Adopt, Aimed, Source, Actions
      <4>2. Subject(r) \in SongOrNo
        BY <1>1 DEF Subject, Errands
      <4> QED BY <4>1, <4>2, <3>2 DEF Adopt
    <3> QED BY <1>4, <3>1, <3>2
  <2>3. From(Place, SongOrNo, filed')
    <3>1. ASSUME NEW p \in Place, NEW t \in SongOrNo PROVE From(Place, SongOrNo, Upserted(p, t))
      <4>1. (IF t = Nothing /\ p \in DOMAIN filed THEN filed[p] ELSE t) \in SongOrNo
        BY <1>1 DEF From
      <4> QED BY <4>1, <1>1, WithKeeps DEF Upserted
    <3> QED BY <3>1, <2>2, <1>1
  <2> QED BY <2>1, <2>3, <1>4 DEF PutRow, Adopt, LibraryOK, PlansOK, RunsOK, JobsOK, auditVars, From
<1>5. CASE Resolve(r)
  <2>1. RequestsOK'
    BY <1>5, EndsShaped DEF Resolve
  <2>2. findings' \subseteq Located
    BY <1>5 DEF Resolve, PlansOK
  <2> QED BY <2>1, <2>2, <1>5 DEF Resolve, LibraryOK, PlansOK, RunsOK, JobsOK, auditVars, From
<1>6. CASE Fetch(r)
  <2>1. CASE EndRequest(r)
    BY <2>1, <1>6, EndsShaped, RequestOnly DEF Fetch
  <2>2. ASSUME NEW f \in findings, request' = [request EXCEPT ![r].work = f, ![r].pc = "source"]
        PROVE  RepairTypeOK'
    <3> DEFINE q == [request[r] EXCEPT !.work = f, !.pc = "source"]
    <3>1. request' = [request EXCEPT ![r] = q] /\ f \in Errands /\ f \in Located
      BY <2>2 DEF PlansOK, Located
    <3>2. [request[r] EXCEPT !.work = f] \in Requests
      BY <3>1, <1>1 DEF Requests
    <3>3. /\ q \in Requests /\ q.kind = request[r].kind /\ q.work = f
          /\ q.pc = "source" /\ request[r].pc = "fetch"
      BY <3>2, <1>1, <1>6 DEF Requests, Fetch
    <3> HIDE DEF q
    <3>4. Aimed(q)
      BY <3>1, <3>3, <1>1 DEF Aimed, Moving, Located, Actions
    <3> QED BY <3>1, <3>3, <3>4, <1>6, OneShaped, RequestOnly DEF Fetch
  <2> QED BY <1>6, <2>1, <2>2 DEF Fetch
<1>7. CASE LockKey(r)
  BY <1>7, LockShaped, RequestOnly DEF LockKey
<1> QED BY <1>2, <1>3, <1>4, <1>5, <1>6, <1>7

(* Retagging and deletion.                                                 *)
LEMMA FilesShaped ==
  ASSUME RepairTypeOK, NEW r \in Caller,
         \/ ListFiles(r) \/ ForgetFile(r) \/ ForgetTrack(r)
         \/ \E p \in Place : Tag(r, p) \/ RemoveFile(r, p)
  PROVE  RepairTypeOK'
<1>. USE DEF RepairTypeOK
<1>1. /\ request[r] \in Requests /\ Aimed(request[r]) /\ request[r].work \in Errands
      /\ request[r].files \subseteq Place
      /\ From(Place, SongOrNo, filed) /\ From(Place, Contents, disk) /\ catalogue \subseteq Song
  BY DEF RequestsOK, LibraryOK, Requests
<1>2. CASE ListFiles(r)
  <2>1. CASE EndRequest(r)
    BY <2>1, <1>2, EndsShaped, RequestOnly DEF ListFiles
  <2>2. CASE ~EndRequest(r)
    <3> DEFINE v == FilesOf(Subject(r))
               pc == IF request[r].kind = "delete" THEN "remove" ELSE "tag"
               q == [request[r] EXCEPT !.files = v, !.pc = pc]
    <3>1. request' = [request EXCEPT ![r] = q]
          /\ (request[r].kind = "delete" \/ Subject(r) \in Song)
      BY <2>2, <1>2, <1>1 DEF ListFiles
    <3>2. v \in SUBSET Place
      BY <1>1 DEF FilesOf, From
    <3>3. \/ pc = "remove" /\ request[r].kind = "delete"
          \/ pc = "tag" /\ request[r].kind # "delete"
      OBVIOUS
    <3> HIDE DEF v, pc
    <3>4. [request[r] EXCEPT !.files = v] \in Requests
      BY <3>2, <1>1 DEF Requests
    <3>5. q \in Requests /\ q.kind = request[r].kind /\ q.work = request[r].work /\ q.pc = pc
      BY <3>3, <3>4, <1>1 DEF Requests
    <3> HIDE DEF q
    <3>6. Aimed(q)
      BY <3>1, <3>3, <3>5, <1>1 DEF Aimed, Moving, Subject
    <3> QED BY <3>1, <3>5, <3>6, <1>2, OneShaped, RequestOnly DEF ListFiles
  <2> QED BY <2>1, <2>2
<1>3. CASE ForgetFile(r)
  <2>1. RequestsOK'
    <3>1. Aimed([request[r] EXCEPT !.pc = "remove"]) /\ "remove" \in Stages
      BY <1>1, <1>3 DEF ForgetFile, Aimed, Moving, Requests, Stages
    <3> QED BY <3>1, <1>3, GoOnShaped DEF ForgetFile
  <2>2. From(Place, SongOrNo, filed')
    BY <1>1, <1>3, LackingKeeps DEF ForgetFile
  <2> QED BY <2>1, <2>2, <1>3 DEF ForgetFile, LibraryOK, PlansOK, RunsOK, JobsOK, auditVars, From
<1>4. CASE ForgetTrack(r)
  <2>1. RequestsOK'
    BY <1>4, EndsShaped DEF ForgetTrack
  <2>2. CASE UNCHANGED <<filed, catalogue, findings>>
    BY <2>1, <2>2, <1>4, RequestOnly DEF ForgetTrack
  <2>3. CASE /\ catalogue' = catalogue \ {Subject(r)}
             /\ filed' = [p \in DOMAIN filed |-> IF filed[p] = Subject(r) THEN Nothing ELSE filed[p]]
             /\ findings' = {[f EXCEPT !.track = IF @ = Subject(r) THEN Nothing ELSE @] : f \in findings}
    <3>1. From(Place, SongOrNo, filed') /\ catalogue' \subseteq Song
      BY <2>3, <1>1 DEF From, SongOrNo
    <3>2. ASSUME NEW f \in findings
          PROVE  [f EXCEPT !.track = IF @ = Subject(r) THEN Nothing ELSE @] \in Located
      <4>1. f \in Errands /\ f.path \in Place
        BY DEF PlansOK, Located
      <4> DEFINE v == IF f.track = Subject(r) THEN Nothing ELSE f.track
      <4>2. v \in SongOrNo
        BY <4>1 DEF SongOrNo, Errands
      <4> HIDE DEF v
      <4>3. [f EXCEPT !.track = v] \in Errands /\ [f EXCEPT !.track = v].path = f.path
        BY <4>1, <4>2 DEF Errands
      <4>4. [f EXCEPT !.track = IF @ = Subject(r) THEN Nothing ELSE @] = [f EXCEPT !.track = v]
        BY DEF v
      <4> QED BY <4>1, <4>3, <4>4 DEF Located
    <3>3. findings' \subseteq Located
      BY <3>2, <2>3
    <3> QED BY <3>1, <3>3, <2>1, <1>4
            DEF ForgetTrack, LibraryOK, PlansOK, RunsOK, JobsOK, auditVars, From
  <2> QED BY <2>2, <2>3, <1>4 DEF ForgetTrack
<1>5. ASSUME NEW p \in Place, Tag(r, p) PROVE RepairTypeOK'
  <2>1. Subject(r) \in Song
    BY <1>5, <1>1 DEF Tag, Aimed, Subject
  <2>2. RequestsOK'
    <3>1. CASE EndRequest(r) \/ Succeed(r)
      BY <3>1, EndsShaped, SucceedShaped
    <3>2. CASE request' = [request EXCEPT ![r].files = @ \ {p}]
      <4> DEFINE v == request[r].files \ {p}
                 q == [request[r] EXCEPT !.files = v]
      <4>1. request' = [request EXCEPT ![r] = q] /\ v \in SUBSET Place
        BY <3>2, <1>1
      <4> HIDE DEF v
      <4>2. /\ q \in Requests /\ q.kind = request[r].kind /\ q.work = request[r].work
            /\ q.pc = request[r].pc
        BY <4>1, <1>1 DEF Requests
      <4> HIDE DEF q
      <4>3. Aimed(q)
        BY <4>2, <1>1 DEF Aimed
      <4> QED BY <4>1, <4>2, <4>3, OneShaped
    <3> QED BY <3>1, <3>2, <1>5 DEF Tag
  <2>3. From(Place, Contents, disk')
    <3>1. CASE disk' = disk
      BY <3>1, <1>1
    <3>2. CASE p \in DOMAIN disk /\ disk' = [disk EXCEPT ![p].tags = Subject(r)]
      <4>1. disk[p] \in Contents
        BY <3>2, <1>1 DEF From
      <4>2. [disk[p] EXCEPT !.tags = Subject(r)] \in Contents
        BY <4>1, <2>1 DEF Contents
      <4> QED BY <4>2, <3>2, <1>1 DEF From
    <3> QED BY <3>1, <3>2, <1>5 DEF Tag
  <2>4. From(Place, SongOrNo, filed')
    <3>1. filed' = filed \/ filed' = Upserted(p, Subject(r))
      BY <1>5 DEF Tag
    <3>2. (IF Subject(r) = Nothing /\ p \in DOMAIN filed THEN filed[p] ELSE Subject(r)) \in SongOrNo
      BY <2>1, <1>1 DEF From, SongOrNo
    <3> QED BY <3>1, <3>2, <1>1, WithKeeps DEF Upserted
  <2> QED BY <2>2, <2>3, <2>4, <1>5 DEF Tag, LibraryOK, PlansOK, RunsOK, JobsOK, auditVars, From
<1>6. ASSUME NEW p \in Place, RemoveFile(r, p) PROVE RepairTypeOK'
  <2>1. From(Place, Contents, disk')
    BY <1>6, <1>1, LackingKeeps DEF RemoveFile
  <2> DEFINE w == [request[r].work EXCEPT !.path = p]
             v == request[r].files \ {p}
             q == [request[r] EXCEPT !.work = w, !.files = v, !.pc = "forget"]
  <2>2. request' = [request EXCEPT ![r] = q]
    BY <1>6 DEF RemoveFile
  <2>3. w \in Errands /\ w.path \in Place /\ w.track = request[r].work.track /\ v \in SUBSET Place
    BY <1>1 DEF Errands, PathOrNo
  <2> HIDE DEF w, v
  <2>4. [request[r] EXCEPT !.work = w] \in Requests
    BY <2>3, <1>1 DEF Requests
  <2>5. [[request[r] EXCEPT !.work = w] EXCEPT !.files = v] \in Requests
    BY <2>3, <2>4 DEF Requests
  <2>6. q \in Requests /\ q.kind = request[r].kind /\ q.work = w /\ q.pc = "forget"
        /\ request[r].pc = "remove"
    BY <2>5, <1>1, <1>6 DEF Requests, RemoveFile
  <2> HIDE DEF q
  <2>7. Aimed(q)
    BY <2>6, <2>3, <1>1 DEF Aimed, Moving
  <2>8. RequestsOK'
    BY <2>2, <2>6, <2>7, OneShaped
  <2> QED BY <2>1, <2>8, <1>6 DEF RemoveFile, LibraryOK, PlansOK, RunsOK, JobsOK, auditVars, From
<1> QED BY <1>2, <1>3, <1>4, <1>5, <1>6

(* What the client calls.                                                  *)
LEMMA CallsShaped ==
  ASSUME RepairTypeOK, Client
  PROVE  RepairTypeOK'
<1>. USE DEF RepairTypeOK
<1>1. /\ findings \subseteq Located /\ layout \subseteq {f \in Located : f.track \in Song}
      /\ catalogue \subseteq Song /\ From(Place, SongOrNo, filed) /\ From(Place, Contents, disk)
      /\ Located \subseteq Errands
  BY DEF PlansOK, LibraryOK, Located
<1>2. ASSUME NEW f \in findings, Preview(f) PROVE RepairTypeOK'
  <2>1. disk[f.path] \in Contents /\ f \in Errands /\ f.path \in Place
    BY <1>2, <1>1 DEF Preview, From, Located
  <2> DEFINE g == [f EXCEPT !.hash = disk[f.path]]
  <2>2. g \in Located
    BY <2>1 DEF Located, Errands
  <2> HIDE DEF g
  <2>3. findings' = (findings \ {f}) \cup {g}
    BY <1>2 DEF Preview, g
  <2>4. findings' \subseteq Located
    BY <2>2, <2>3, <1>1
  <2> QED BY <2>4, <1>2
          DEF Preview, LibraryOK, PlansOK, RunsOK, RequestsOK, JobsOK, auditVars, From
<1>3. CASE CheckLayout
  <2>1. ASSUME NEW p \in DOMAIN filed, filed[p] \in catalogue
        PROVE  /\ [NoWork EXCEPT !.path = p, !.track = filed[p], !.expected = Canonical[filed[p]]]
                    \in Located
               /\ [NoWork EXCEPT !.path = p, !.track = filed[p],
                                 !.expected = Canonical[filed[p]]].track \in Song
    <3> DEFINE t == filed[p]
               e == Canonical[filed[p]]
    <3>1. t \in Song /\ e \in Place /\ p \in Place
      BY <2>1, <1>1, RepairAssumption DEF From
    <3> HIDE DEF t, e
    <3>2. [NoWork EXCEPT !.path = p] \in Errands
      BY <3>1, SimpleRequests DEF Errands, PathOrNo
    <3>3. [[NoWork EXCEPT !.path = p] EXCEPT !.track = t] \in Errands
      BY <3>1, <3>2 DEF Errands, SongOrNo
    <3>4. /\ [NoWork EXCEPT !.path = p, !.track = t, !.expected = e] \in Errands
          /\ [NoWork EXCEPT !.path = p, !.track = t, !.expected = e].path = p
          /\ [NoWork EXCEPT !.path = p, !.track = t, !.expected = e].track = t
      BY <3>1, <3>3, SimpleRequests DEF Errands, PathOrNo
    <3> QED BY <3>1, <3>4 DEF Located, t, e
  <2>2. layout' \subseteq {f \in Located : f.track \in Song}
    BY <2>1, <1>3 DEF CheckLayout
  <2> QED BY <2>2, <1>3
          DEF CheckLayout, LibraryOK, PlansOK, RunsOK, RequestsOK, JobsOK, auditVars, From
<1>4. ASSUME NEW r \in Caller, NEW f \in findings, NEW action \in Actions, Apply(r, f, action)
      PROVE  RepairTypeOK'
  <2>1. f \in Errands /\ f \in Located
    BY <1>1
  <2>2. RequestsOK'
    BY <1>4, <2>1, UndertakeShaped DEF Apply
  <2> QED BY <2>2, <1>4, RequestOnly DEF Apply
<1>5. ASSUME NEW r \in Caller, NEW i \in layout, Reorganize(r, i)
      PROVE  RepairTypeOK'
  <2>1. i \in Errands /\ i \in Located /\ i.track \in Song
    BY <1>1
  <2>2. RequestsOK'
    BY <1>5, <2>1, UndertakeShaped DEF Reorganize
  <2> QED BY <2>2, <1>5, RequestOnly DEF Reorganize
<1>6. ASSUME NEW r \in Caller, NEW t \in catalogue, Retag(r, t) \/ Delete(r, t)
      PROVE  RepairTypeOK'
  <2>1. [NoWork EXCEPT !.track = t] \in Errands
    BY <1>1, SimpleRequests DEF Errands, SongOrNo
  <2>2. RequestsOK'
    BY <1>6, <2>1, UndertakeShaped DEF Retag, Delete
  <2> QED BY <2>2, <1>6, RequestOnly DEF Retag, Delete
<1>7. ASSUME NEW deep \in BOOLEAN, StartAudit(deep) PROVE RepairTypeOK'
  <2> DEFINE n == Cardinality(DOMAIN run) + 1
  <2>1. n \in Nat /\ IsFiniteSet(DOMAIN run) /\ From(Nat, Endings, run)
    BY FS_CardinalityType DEF RunsOK
  <2>2. run' = With(run, n, "running") /\ audit' = [Resting EXCEPT !.pc = "walk", !.run = n, !.deep = deep]
    BY <1>7 DEF StartAudit
  <2> HIDE DEF n
  <2>3. From(Nat, Endings, run')
    BY <2>1, <2>2, WithKeeps DEF Endings
  <2>4. DOMAIN run' = DOMAIN run \cup {n}
    BY <2>2 DEF With
  <2>5. IsFiniteSet(DOMAIN run')
    BY <2>1, <2>4, FS_AddElement
  <2>6. Resting \in Audits
    BY RestingShaped
  <2>7. audit' \in Audits
    <3>1. [Resting EXCEPT !.pc = "walk"] \in Audits
      BY <2>6 DEF Audits
    <3>2. [[Resting EXCEPT !.pc = "walk"] EXCEPT !.run = n] \in Audits
      BY <2>1, <3>1 DEF Audits
    <3> QED BY <2>2, <3>2 DEF Audits
  <2> QED BY <2>3, <2>5, <2>7, <1>7
          DEF StartAudit, LibraryOK, PlansOK, RunsOK, RequestsOK, JobsOK, From
<1>8. ASSUME NEW n \in DOMAIN run, CancelAudit(n) PROVE RepairTypeOK'
  <2>1. From(Nat, Endings, run) /\ IsFiniteSet(DOMAIN run) /\ audit \in Audits /\ unrecorded \subseteq Nat
    BY DEF RunsOK
  <2>2. audit' = audit \/ audit' = [audit EXCEPT !.cancelled = TRUE]
    BY <1>8 DEF CancelAudit
  <2>3. audit' \in Audits
    BY <2>1, <2>2 DEF Audits
  <2>4. /\ run' = run \/ run' = [run EXCEPT ![n] = "cancelled"]
        /\ unrecorded' = unrecorded \/ unrecorded' = unrecorded \cup {n}
    BY <1>8 DEF CancelAudit, Written
  <2>5. From(Nat, Endings, run') /\ DOMAIN run' = DOMAIN run /\ unrecorded' \subseteq Nat
    BY <2>1, <2>4 DEF From, Endings
  <2> QED BY <2>1, <2>3, <2>5, <1>8
          DEF CancelAudit, LibraryOK, PlansOK, RunsOK, RequestsOK, JobsOK, From
<1>9. ASSUME NEW t \in Song, NEW track \in BOOLEAN, StartDownload(t, track) PROVE RepairTypeOK'
  <2>1. download' \in [Song -> Jobs]
    BY <1>9 DEF StartDownload, JobsOK, Jobs
  <2> QED BY <2>1, <1>9
          DEF StartDownload, LibraryOK, PlansOK, RunsOK, RequestsOK, JobsOK, auditVars, From
<1> QED BY <1>2, <1>3, <1>4, <1>5, <1>6, <1>7, <1>8, <1>9 DEF Client

(* Downloads and the start after a crash.                                  *)
LEMMA OthersShaped ==
  ASSUME RepairTypeOK, Downloader \/ ServerRestarts
  PROVE  RepairTypeOK'
<1>. USE DEF RepairTypeOK
<1>1. /\ From(Place, SongOrNo, filed) /\ From(Place, Contents, disk) /\ catalogue \subseteq Song
      /\ download \in [Song -> Jobs] /\ NoJob \in Jobs
  BY DEF LibraryOK, JobsOK, NoJob, Jobs
<1>2. ASSUME NEW t \in Song, PlaceDownload(t) PROVE RepairTypeOK'
  <2>1. Canonical[t] \in Place /\ [of |-> t, tags |-> t] \in Contents
    BY RepairAssumption DEF Contents
  <2>2. disk' = disk \/ disk' = With(disk, Canonical[t], [of |-> t, tags |-> t])
    BY <1>2 DEF PlaceDownload
  <2>3. From(Place, Contents, disk')
    BY <2>1, <2>2, <1>1, WithKeeps
  <2>4. download' \in [Song -> Jobs]
    BY <1>2, <1>1 DEF PlaceDownload, Jobs
  <2> QED BY <2>3, <2>4, <1>2
          DEF PlaceDownload, LibraryOK, PlansOK, RunsOK, RequestsOK, JobsOK, auditVars, From
<1>3. ASSUME NEW t \in Song, StoreDownload(t) PROVE RepairTypeOK'
  <2>1. Canonical[t] \in Place /\ t \in SongOrNo
    BY RepairAssumption DEF SongOrNo
  <2>2. From(Place, SongOrNo, filed') /\ catalogue' \subseteq Song
    BY <2>1, <1>1, <1>3, WithKeeps DEF StoreDownload
  <2>3. download' \in [Song -> Jobs]
    BY <1>3, <1>1 DEF StoreDownload
  <2> QED BY <2>2, <2>3, <1>3
          DEF StoreDownload, LibraryOK, PlansOK, RunsOK, RequestsOK, JobsOK, auditVars, From
<1>4. CASE ServerRestarts
  <2>1. RequestsOK'
    BY <1>4, SimpleRequests DEF ServerRestarts, RequestsOK
  <2>2. RunsOK'
    <3>1. From(Nat, Endings, run) /\ IsFiniteSet(DOMAIN run) /\ unrecorded \subseteq Nat
      BY DEF RunsOK
    <3>2. Resting \in Audits
      BY RestingShaped
    <3>3. /\ \/ run' = run
             \/ run' = [n \in DOMAIN run |-> IF n \in {m \in DOMAIN run : run[m] = "running"}
                                             THEN "failed" ELSE run[n]]
          /\ \/ unrecorded' = unrecorded
             \/ unrecorded' = unrecorded \cup {m \in DOMAIN run : run[m] = "running"}
          /\ audit' = Resting
      BY <1>4 DEF ServerRestarts, RecoverRuns
    <3>4. From(Nat, Endings, run') /\ DOMAIN run' = DOMAIN run
      BY <3>1, <3>3 DEF From, Endings
    <3>5. unrecorded' \subseteq Nat
      BY <3>1, <3>3 DEF From
    <3> QED BY <3>1, <3>2, <3>3, <3>4, <3>5 DEF RunsOK
  <2>3. download' \in [Song -> Jobs] /\ layout' = {}
    BY <1>4, <1>1 DEF ServerRestarts
  <2> QED BY <2>1, <2>2, <2>3, <1>4
          DEF ServerRestarts, LibraryOK, PlansOK, JobsOK, From
<1> QED BY <1>2, <1>3, <1>4 DEF Downloader

(* The audit.                                                              *)
LEMMA AuditShaped ==
  ASSUME RepairTypeOK, Auditor
  PROVE  RepairTypeOK'
<1>. USE DEF RepairTypeOK
<1>1. /\ From(Nat, Endings, run) /\ IsFiniteSet(DOMAIN run) /\ audit \in Audits
      /\ unrecorded \subseteq Nat /\ audit.run \in Nat
      /\ From(Place, SongOrNo, filed) /\ From(Place, Contents, disk) /\ catalogue \subseteq Song
      /\ findings \subseteq Located
  BY DEF RunsOK, LibraryOK, PlansOK, Audits
<1>2. \/ Walk \/ ReadTables \/ InspectFiles \/ LastCheck \/ StoreFindings \/ Finish \/ LeaveAudit
      \/ AuditStops \/ AuditFails
  BY DEF Auditor
<1>3. UNCHANGED <<disk, quarantine, filed, catalogue, layout, request, download>>
  BY <1>2 DEF Walk, ReadTables, InspectFiles, LastCheck, StoreFindings, Finish, LeaveAudit,
              AuditStops, AuditFails
<1>4. Resting \in Audits
  BY RestingShaped
<1>5. ASSUME AuditLeaves PROVE audit' \in Audits
  <2>1. [Resting EXCEPT !.pc = "leave"] \in Audits
    BY <1>4 DEF Audits
  <2> QED BY <2>1, <1>1, <1>5 DEF AuditLeaves, Audits
<1>6. ASSUME NEW status \in Endings, Complete(audit.run, status)
      PROVE  From(Nat, Endings, run') /\ DOMAIN run' = DOMAIN run /\ unrecorded' \subseteq Nat
  <2>1. /\ run' = run \/ run' = [run EXCEPT ![audit.run] = status]
        /\ unrecorded' = unrecorded \/ unrecorded' = unrecorded \cup {audit.run}
    BY <1>6 DEF Complete, Written
  <2> QED BY <2>1, <1>1, <1>6 DEF From
<1>7. ASSUME NEW f \in audit.new PROVE f \in Located
  BY <1>1 DEF Audits
<1>8. CASE Walk \/ LastCheck
  <2>1. audit' \in Audits
    <3>1. CASE Walk
      <4>1. [audit EXCEPT !.walk = DOMAIN disk] \in Audits
        BY <1>1 DEF Audits, From
      <4> QED BY <4>1, <3>1 DEF Walk, Audits
    <3>2. CASE LastCheck
      BY <3>2, <1>1 DEF LastCheck, AuditGoto, Audits
    <3> QED BY <1>8, <3>1, <3>2
  <2> QED BY <2>1, <1>8, <1>3
          DEF Walk, LastCheck, LibraryOK, PlansOK, RunsOK, RequestsOK, JobsOK, From
<1>9. CASE ReadTables
  <2>1. filed \in UNION {[P -> SongOrNo] : P \in SUBSET Place}
    BY <1>1 DEF From
  <2>2. [audit EXCEPT !.rows = filed] \in Audits
    BY <2>1, <1>1 DEF Audits
  <2>3. [[audit EXCEPT !.rows = filed] EXCEPT !.tracks = catalogue] \in Audits
    BY <2>2, <1>1 DEF Audits
  <2>4. audit' \in Audits
    BY <2>3, <1>9 DEF ReadTables, Audits
  <2> QED BY <2>4, <1>9, <1>3
          DEF ReadTables, LibraryOK, PlansOK, RunsOK, RequestsOK, JobsOK, From
<1>10. CASE InspectFiles
  <2>1. NewFindings \subseteq Located
    <3>1. ASSUME NEW code \in Findings, NEW p \in Place, NEW t \in SongOrNo, NEW e \in PathOrNo
          PROVE  FindingOf(code, p, t, e) \in Located
      BY <1>1, <3>1 DEF FindingOf, Located, Errands, PathOrNo
    <3>2. /\ DOMAIN audit.rows \subseteq Place /\ audit.walk \subseteq Place /\ audit.tracks \subseteq Song
          /\ \A p \in DOMAIN audit.rows : audit.rows[p] \in SongOrNo
      BY <1>1 DEF Audits
    <3>3. \A p \in Place : TagsAt(p) \in SongOrNo
      BY <1>1 DEF TagsAt, SongOrNo, From, Contents
    <3>4. \A t \in audit.tracks : Canonical[t] \in PathOrNo
      BY <3>2, RepairAssumption DEF PathOrNo
    <3>5. Place \subseteq PathOrNo /\ Nothing \in PathOrNo /\ Nothing \in SongOrNo
          /\ {"missing", "path", "tags", "duplicate", "untracked"} \subseteq Findings
      BY DEF PathOrNo, SongOrNo, Findings
    <3> DEFINE listed    == DOMAIN audit.rows
               untracked == audit.walk \ listed
               known     == {p \in untracked : audit.deep /\ TagsAt(p) \in audit.tracks}
               copies    == {p \in known : HasOther(TagsAt(p), p)}
    <3>6. /\ listed \subseteq Place /\ untracked \subseteq Place /\ known \subseteq Place
          /\ copies \subseteq Place
      BY <3>2
    <3>7. ASSUME NEW f \in NewFindings
          PROVE  \E code \in Findings, p \in Place, t \in SongOrNo, e \in PathOrNo :
                   f = FindingOf(code, p, t, e)
      <4>1. CASE f \in {FindingOf("missing", p, audit.rows[p], p) : p \in listed \ audit.walk}
        BY <4>1, <3>2, <3>5
      <4>2. CASE f \in {FindingOf("path", p, audit.rows[p], Canonical[audit.rows[p]]) :
                 p \in {q \in listed : audit.rows[q] \in audit.tracks /\ Canonical[audit.rows[q]] # q}}
        BY <4>2, <3>2, <3>4, <3>5
      <4>3. CASE f \in {FindingOf("tags", p, audit.rows[p], Nothing) :
                 p \in {q \in listed \cap audit.walk :
                           /\ audit.deep /\ audit.rows[q] \in audit.tracks
                           /\ q \in DOMAIN disk /\ TagsAt(q) # audit.rows[q]}}
        BY <4>3, <3>2, <3>5
      <4>4. CASE f \in {FindingOf("duplicate", p, TagsAt(p), Nothing) : p \in copies}
        BY <4>4, <3>6, <3>3, <3>5
      <4>5. CASE f \in {FindingOf("untracked", p, TagsAt(p), Nothing) : p \in known \ copies}
        BY <4>5, <3>6, <3>3, <3>5
      <4>6. CASE f \in {FindingOf("untracked", p, Nothing, Nothing) : p \in untracked \ known}
        BY <4>6, <3>6, <3>5
      <4> QED BY <3>7, <4>1, <4>2, <4>3, <4>4, <4>5, <4>6 DEF NewFindings
    <3> QED BY <3>1, <3>7
  <2>2. [audit EXCEPT !.new = NewFindings] \in Audits
    BY <2>1, <1>1 DEF Audits
  <2> DEFINE a == [audit EXCEPT !.new = NewFindings]
             b == [a EXCEPT !.walk = {}]
             c == [b EXCEPT !.rows = << >>]
             d == [c EXCEPT !.tracks = {}]
  <2>3. << >> \in UNION {[P -> SongOrNo] : P \in SUBSET Place}
    <3>1. << >> \in [{} -> SongOrNo] /\ {} \in SUBSET Place
      OBVIOUS
    <3> QED BY <3>1
  <2>4. audit' = [d EXCEPT !.pc = "check"]
    BY <1>10 DEF InspectFiles
  <2>5. a \in Audits
    BY <2>2
  <2> HIDE DEF a
  <2>6. b \in Audits
    BY <2>5 DEF Audits
  <2> HIDE DEF b
  <2>7. c \in Audits
    BY <2>3, <2>6 DEF Audits
  <2> HIDE DEF c
  <2>8. d \in Audits
    BY <2>7 DEF Audits
  <2> HIDE DEF d
  <2>9. audit' \in Audits
    BY <2>4, <2>8 DEF Audits
  <2> QED BY <2>9, <1>10, <1>3
          DEF InspectFiles, LibraryOK, PlansOK, RunsOK, RequestsOK, JobsOK, From
<1>11. CASE StoreFindings
  <2>1. CASE Complete(audit.run, "failed") /\ AuditLeaves /\ UNCHANGED findings
    BY <2>1, <1>1, <1>3, <1>5, <1>6
       DEF LibraryOK, PlansOK, RunsOK, RequestsOK, JobsOK, From, Endings
  <2>2. CASE /\ findings' = findings \cup audit.new
             /\ audit' = [audit EXCEPT !.new = {}, !.pc = "complete"]
             /\ UNCHANGED <<run, unrecorded, chances>>
    <3>1. findings' \subseteq Located
      BY <2>2, <1>1, <1>7
    <3>2. [audit EXCEPT !.new = {}] \in Audits
      BY <1>1 DEF Audits
    <3>3. audit' \in Audits
      BY <2>2, <3>2 DEF Audits
    <3> QED BY <2>2, <3>1, <3>3, <1>3 DEF LibraryOK, PlansOK, RunsOK, RequestsOK, JobsOK, From
  <2> QED BY <1>11, <2>1, <2>2 DEF StoreFindings
<1>12. CASE Finish \/ AuditStops
  <2>1. \E status \in Endings : Complete(audit.run, status)
    BY <1>12 DEF Finish, AuditStops, Endings
  <2>2. AuditLeaves /\ UNCHANGED findings
    BY <1>12 DEF Finish, AuditStops
  <2> QED BY <2>1, <2>2, <1>1, <1>3, <1>5, <1>6
          DEF LibraryOK, PlansOK, RunsOK, RequestsOK, JobsOK, From
<1>13. CASE AuditFails
  <2>1. From(Nat, Endings, run') /\ DOMAIN run' = DOMAIN run
    BY <1>13, <1>1 DEF AuditFails, From, Endings
  <2> QED BY <2>1, <1>13, <1>1, <1>3, <1>5
          DEF AuditFails, LibraryOK, PlansOK, RunsOK, RequestsOK, JobsOK, From
<1>14. CASE LeaveAudit
  BY <1>14, <1>3, <1>4 DEF LeaveAudit, LibraryOK, PlansOK, RunsOK, RequestsOK, JobsOK, From
<1> QED BY <1>2, <1>8, <1>9, <1>10, <1>11, <1>12, <1>13, <1>14

LEMMA ServeShaped ==
  ASSUME RepairTypeOK, NEW r \in Caller, Serve(r)
  PROVE  RepairTypeOK'
BY ActsShaped, MovesShaped, RowsShaped, FilesShaped DEF Serve

LEMMA InitShaped ==
  ASSUME RepairInit
  PROVE  RepairTypeOK
<1>1. PICK s \in Starts : disk = s.disk /\ filed = s.rows /\ catalogue = s.catalogue
  BY DEF RepairInit
<1>2. LibraryOK
  BY <1>1, RepairAssumption DEF RepairInit, LibraryOK, From, SongOrNo
<1>3. RunsOK
  <2>1. << >> \in [{} -> SongOrNo] /\ {} \in SUBSET Place /\ << >> \in [{} -> Endings]
    OBVIOUS
  <2>2. Resting \in Audits
    BY <2>1 DEF Resting, Audits
  <2>3. run \in [{} -> Endings]
    BY <2>1 DEF RepairInit
  <2>4. DOMAIN run = {} /\ run \in [DOMAIN run -> Endings]
    BY <2>3
  <2> QED BY <2>2, <2>4, FS_EmptySet DEF RepairInit, RunsOK, From
<1>4. PlansOK /\ RequestsOK /\ JobsOK
  BY SimpleRequests DEF RepairInit, PlansOK, RequestsOK, JobsOK, Jobs, NoJob
<1> QED BY <1>2, <1>3, <1>4 DEF RepairTypeOK

(* Files, rows, findings, runs, requests and downloads keep their shape,   *)
(* and every step of a request finds the kind and the place it works on.   *)
THEOREM RepairTypes == RepairSpec => []RepairTypeOK
<1>1. RepairInit => RepairTypeOK
  BY InitShaped
<1>2. RepairTypeOK /\ [RepairNext]_repairVars => RepairTypeOK'
  <2> SUFFICES ASSUME RepairTypeOK, [RepairNext]_repairVars PROVE RepairTypeOK'
    OBVIOUS
  <2>1. CASE RepairNext
    BY <2>1, CallsShaped, ServeShaped, AuditShaped, OthersShaped DEF RepairNext
  <2>2. CASE UNCHANGED repairVars
    BY <2>2 DEF repairVars, auditVars, RepairTypeOK, LibraryOK, PlansOK, RunsOK, RequestsOK,
                JobsOK, From
  <2> QED BY <2>1, <2>2
<1> QED BY <1>1, <1>2, PTL DEF RepairSpec

-----------------------------------------------------------------------------
(* Locks and runs.                                                         *)

(* A request that waits for a lock has the locks it took before and no     *)
(* other; one that waits for none of its own yet has none.                 *)
Early     == {"idle", "fetch", "source", "resolve"}
PathKey(p) == <<"path", p>>
TwiceOnlyMissing(w) == w.expected # Nothing /\ w.expected = w.path => w.code = "missing"
HeldOK(q) ==
  /\ q.pc \in Early => q.held = {}
  /\ q.pc = "target" => q.held = {PathKey(q.work.path)} /\ q.work.expected # Nothing
  /\ q.pc = "track" => q.held \subseteq {PathKey(q.work.path), PathKey(q.work.expected)}
  /\ q.pc \in {"source", "target"} => TwiceOnlyMissing(q.work)

(* A run that is listed as running is that of the audit at work, until it  *)
(* leaves.                                                                 *)
Listed == {n \in DOMAIN run : run[n] = "running"} \ unrecorded
RunsHeld ==
  /\ Listed \subseteq {audit.run}
  /\ audit.pc \in {"idle", "leave"} => Listed = {}

StuckInv ==
  /\ RepairTypeOK
  /\ \A r \in Caller : HeldOK(request[r])
  /\ \A f \in findings \cup audit.new : TwiceOnlyMissing(f)
  /\ RunsHeld

LEMMA HeldImplies ==
  ASSUME StuckInv
  PROVE  NothingStuck
<1>1. LocksAreReleased
  <2> SUFFICES ASSUME NEW r \in Caller, Waiting(r), NEW s \in Holder(Wants(r))
               PROVE  \/ request[s].pc # "idle" /\ ~(Waiting(s) /\ Wants(s) \in request[r].held)
                      \/ Exchanged(r, s) \/ Twice(r, s)
    BY DEF LocksAreReleased
  <2>1. s \in Caller /\ Wants(r) \in request[s].held /\ HeldOK(request[r]) /\ HeldOK(request[s])
    BY DEF Holder, StuckInv
  <2>2. request[s].pc # "idle" /\ request[s].pc # "source"
    BY <2>1 DEF HeldOK, Early
  <2>3. CASE Waiting(s) /\ Wants(s) \in request[r].held
    <3>1. request[r].pc # "source"
      BY <2>1, <2>3 DEF HeldOK, Early
    <3>2. request[r].pc \in {"target", "track"} /\ request[s].pc \in {"target", "track"}
      BY <3>1, <2>2, <2>3 DEF Waiting
    <3>3. \A q \in {r, s} : request[q].pc = "track" => Wants(q) = <<"track", Subject(q)>>
      BY DEF Wants
    <3>4. \A q \in {r, s} : \A k \in request[q].held : k[1] = "path"
      BY <2>1, <3>2 DEF HeldOK, PathKey
    <3>5. request[r].pc = "target" /\ request[s].pc = "target"
      BY <3>2, <3>3, <3>4, <2>1, <2>3
    <3>6. Wants(r) = PathKey(Expected(r)) /\ Wants(s) = PathKey(Expected(s))
      BY <3>5 DEF Wants, PathKey
    <3>7. request[r].held = {PathKey(Source(r))} /\ request[s].held = {PathKey(Source(s))}
      BY <3>5, <2>1 DEF HeldOK, Source
    <3>8. Expected(r) = Source(s) /\ Expected(s) = Source(r)
      BY <3>6, <3>7, <2>1, <2>3 DEF PathKey
    <3>9. CASE s # r
      BY <3>8, <3>9 DEF Exchanged
    <3>10. CASE s = r
      BY <3>8, <3>10, <3>5, <2>1 DEF Twice, HeldOK, TwiceOnlyMissing, Source, Expected
    <3> QED BY <3>9, <3>10
  <2> QED BY <2>2, <2>3
<1>2. RunsAreWorkedOn
  BY DEF StuckInv, RunsHeld, Listed, RunsAreWorkedOn
<1> QED BY <1>1, <1>2 DEF NothingStuck

(* A step of one request leaves the others alone; unless it fetches or     *)
(* locks, it ends, gives all its locks back or goes on to work.            *)
Free == Stages \ (Early \cup {"target", "track"})

LEMMA GoesOn ==
  ASSUME RequestsOK, NEW r \in Caller, NEW pc, GoOn(r, pc)
  PROVE  request'[r].pc = pc /\ \A s \in Caller \ {r} : request'[s] = request[s]
BY DEF RequestsOK, Requests, GoOn

LEMMA EndsAlone ==
  ASSUME RequestsOK, NEW r \in Caller, EndRequest(r) \/ Succeed(r)
  PROVE  /\ request'[r].pc \in {"idle", "resolve"} /\ request'[r].held = {}
         /\ \A s \in Caller \ {r} : request'[s] = request[s]
BY DEF RequestsOK, Requests, EndRequest, Succeed, NoRequest

LEMMA ServesAlone ==
  ASSUME RequestsOK, NEW r \in Caller, Serve(r), ~Fetch(r), ~LockKey(r)
  PROVE  /\ \/ request'[r].pc \in {"idle", "resolve"} /\ request'[r].held = {}
            \/ request'[r].pc \in Free
         /\ \A s \in Caller \ {r} : request'[s] = request[s]
<1>1. request[r] \in Requests /\ Aimed(request[r])
  BY DEF RequestsOK
<1>2. {"link", "lookup", "files", "adopt", "unlink", "back", "drop", "put", "remove", "tag", "forget"}
        \subseteq Free
  BY DEF Free, Stages, Moving, Early
<1>3. CASE EndRequest(r) \/ Succeed(r)
  BY <1>3, EndsAlone
<1>4. CASE \E pc \in Free : GoOn(r, pc)
  BY <1>4, GoesOn
<1>5. CASE \/ ActMove(r) \/ ActReorganize(r) \/ ActRestore(r) \/ ActFiles(r) \/ ActAdopt(r)
           \/ ActQuarantine(r) \/ Link(r) \/ Unlink(r) \/ MoveBack(r) \/ PutRow(r) \/ Adopt(r)
           \/ Resolve(r) \/ ForgetFile(r) \/ ForgetTrack(r)
  <2>1. EndRequest(r) \/ Succeed(r) \/ \E pc \in Free : GoOn(r, pc)
    BY <1>5, <1>2
       DEF ActMove, ActReorganize, ActRestore, ActFiles, ActAdopt, ActQuarantine, Decide, Link,
           LinkTo, Unlink, MoveBack, PutRow, Adopt, Resolve, ForgetFile, ForgetTrack, GiveUp
  <2> QED BY <2>1, <1>3, <1>4
<1>6. CASE FindRow(r)
  BY <1>6, <1>1, <1>2, <1>3 DEF FindRow, GiveUp, RequestsOK, Requests
<1>7. CASE DropRow(r)
  BY <1>7, <1>1, <1>2 DEF DropRow, RequestsOK, Requests
<1>8. CASE ListFiles(r)
  BY <1>8, <1>1, <1>2, <1>3 DEF ListFiles, RequestsOK, Requests
<1>9. ASSUME NEW p \in Place, Tag(r, p)
      PROVE  /\ \/ request'[r].pc \in {"idle", "resolve"} /\ request'[r].held = {}
                \/ request'[r].pc \in Free
             /\ \A s \in Caller \ {r} : request'[s] = request[s]
  BY <1>9, <1>1, <1>2, <1>3 DEF Tag, RequestsOK, Requests
<1>10. ASSUME NEW p \in Place, RemoveFile(r, p)
       PROVE  /\ request'[r].pc \in Free
              /\ \A s \in Caller \ {r} : request'[s] = request[s]
  BY <1>10, <1>1, <1>2 DEF RemoveFile, RequestsOK, Requests
<1> QED BY <1>5, <1>6, <1>7, <1>8, <1>9, <1>10 DEF Serve

LEMMA LocksKept ==
  ASSUME StuckInv, NEW r \in Caller, Serve(r)
  PROVE  \A s \in Caller : HeldOK(request'[s])
<1>1. RequestsOK /\ request[r] \in Requests /\ Aimed(request[r]) /\ HeldOK(request[r])
      /\ \A s \in Caller : HeldOK(request[s])
  BY DEF StuckInv, RepairTypeOK, RequestsOK
<1>2. CASE ~Fetch(r) /\ ~LockKey(r)
  <2>1. HeldOK(request'[r])
    <3>1. \/ request'[r].pc \in {"idle", "resolve"} /\ request'[r].held = {}
          \/ request'[r].pc \in Free
      BY <1>1, <1>2, ServesAlone
    <3> QED BY <3>1 DEF HeldOK, Free, Early
  <2>2. \A s \in Caller \ {r} : request'[s] = request[s]
    BY <1>1, <1>2, ServesAlone
  <2> QED BY <2>1, <2>2, <1>1
<1>3. CASE Fetch(r)
  <2>1. CASE EndRequest(r)
    BY <2>1, <1>1, EndsAlone DEF HeldOK
  <2>2. ASSUME NEW f \in findings, request' = [request EXCEPT ![r].work = f, ![r].pc = "source"]
        PROVE  \A s \in Caller : HeldOK(request'[s])
    <3>1. request[r].held = {} /\ TwiceOnlyMissing(f)
      BY <1>1, <1>3 DEF Fetch, HeldOK, Early, StuckInv
    <3>2. /\ request'[r].held = {} /\ request'[r].pc = "source" /\ request'[r].work = f
          /\ \A s \in Caller \ {r} : request'[s] = request[s]
      BY <2>2, <3>1, <1>1 DEF RequestsOK, Requests
    <3>3. HeldOK(request'[r])
      BY <3>1, <3>2 DEF HeldOK
    <3> QED BY <3>2, <3>3, <1>1
  <2> QED BY <2>1, <2>2, <1>3 DEF Fetch
<1>4. CASE LockKey(r)
  <2> DEFINE h == request[r].held \cup {Wants(r)}
             p == AfterLock(r)
  <2>1. request' = [request EXCEPT ![r].held = h, ![r].pc = p]
    BY <1>4 DEF LockKey
  <2>2. request[r].pc \in {"source", "target", "track"}
    BY <1>4 DEF LockKey, Waiting
  <2>3. /\ p = "target" => request[r].pc = "source" /\ Expected(r) # Nothing
        /\ p = "track" => request[r].pc \in {"source", "target"}
        /\ p \in {"target", "track", "act"}
    BY <2>2 DEF AfterLock
  <2>4. /\ request[r].pc = "source" => h = {PathKey(Source(r))}
        /\ request[r].pc = "target" => h = {PathKey(Source(r)), PathKey(Expected(r))}
    BY <1>1, <2>2 DEF HeldOK, Early, Wants, PathKey, Source, Expected
  <2> HIDE DEF h, p
  <2>5. /\ request'[r].held = h /\ request'[r].pc = p /\ request'[r].work = request[r].work
        /\ \A s \in Caller \ {r} : request'[s] = request[s]
    BY <2>1, <1>1 DEF RequestsOK, Requests
  <2>6. HeldOK(request'[r])
    BY <2>2, <2>3, <2>4, <2>5, <1>1 DEF HeldOK, Early, Source, Expected
  <2> QED BY <2>5, <2>6, <1>1
<1> QED BY <1>2, <1>3, <1>4

LEMMA CallsHold ==
  ASSUME StuckInv, Client
  PROVE  \A s \in Caller : HeldOK(request'[s])
<1>1. RequestsOK /\ \A s \in Caller : HeldOK(request[s])
  BY DEF StuckInv, RepairTypeOK
<1>2. CASE UNCHANGED request
  BY <1>1, <1>2
<1>3. ASSUME NEW r \in Caller, NEW kind, NEW pc, NEW w, Undertake(r, kind, pc, w),
             pc \in {"fetch", "track"}
      PROVE  \A s \in Caller : HeldOK(request'[s])
  <2>1. /\ request'[r].held = {} /\ request'[r].pc = pc
        /\ \A s \in Caller \ {r} : request'[s] = request[s]
    BY <1>1, <1>3 DEF Undertake, NoRequest, RequestsOK
  <2>2. HeldOK(request'[r])
    BY <2>1, <1>3 DEF HeldOK
  <2> QED BY <2>1, <2>2, <1>1
<1> QED BY <1>2, <1>3
        DEF Client, Preview, CheckLayout, Apply, Reorganize, Retag, Delete, StartAudit,
            CancelAudit, StartDownload

LEMMA PlansKept ==
  ASSUME StuckInv, RepairNext
  PROVE  \A f \in findings' \cup audit'.new : TwiceOnlyMissing(f)
<1>1. /\ \A f \in findings \cup audit.new : TwiceOnlyMissing(f)
      /\ findings \subseteq Errands /\ audit \in Audits
  BY DEF StuckInv, RepairTypeOK, PlansOK, RunsOK, Located
<1>2. CASE findings' = findings /\ audit'.new \subseteq audit.new
  BY <1>1, <1>2
<1>3. CASE Client
  <2>1. ASSUME NEW f \in findings, Preview(f)
        PROVE  \A g \in findings' \cup audit'.new : TwiceOnlyMissing(g)
    <3>1. /\ [f EXCEPT !.hash = disk[f.path]].path = f.path
          /\ [f EXCEPT !.hash = disk[f.path]].expected = f.expected
          /\ [f EXCEPT !.hash = disk[f.path]].code = f.code
      BY <1>1 DEF Errands
    <3>2. TwiceOnlyMissing([f EXCEPT !.hash = disk[f.path]])
      BY <3>1, <1>1 DEF TwiceOnlyMissing
    <3> QED BY <3>2, <2>1, <1>1 DEF Preview, auditVars
  <2>2. CASE ~(\E f \in findings : Preview(f))
    <3>1. findings' = findings
      BY <2>2, <1>3 DEF Client, CheckLayout, Apply, Reorganize, Retag, Delete, StartAudit,
                        CancelAudit, StartDownload
    <3>2. CASE \E deep \in BOOLEAN : StartAudit(deep)
      BY <3>1, <3>2, <1>2 DEF StartAudit, Resting
    <3>3. CASE ~(\E deep \in BOOLEAN : StartAudit(deep))
      <4>1. audit' = audit \/ audit' = [audit EXCEPT !.cancelled = TRUE]
        BY <2>2, <3>3, <1>3
           DEF Client, CheckLayout, Apply, Reorganize, Retag, Delete, CancelAudit, StartDownload,
               auditVars
      <4>2. audit'.new = audit.new
        BY <4>1, <1>1 DEF Audits
      <4> QED BY <4>2, <3>1, <1>2
    <3> QED BY <3>2, <3>3
  <2> QED BY <2>1, <2>2
<1>4. ASSUME NEW r \in Caller, Serve(r)
      PROVE  \A f \in findings' \cup audit'.new : TwiceOnlyMissing(f)
  <2>1. audit' = audit
    BY <1>4 DEF Serve, Fetch, LockKey, ActMove, ActReorganize, ActRestore, ActFiles, ActAdopt,
                ActQuarantine, Decide, Link, LinkTo, Unlink, MoveBack, FindRow, DropRow, PutRow,
                Adopt, Resolve, ListFiles, ForgetFile, ForgetTrack, Tag, RemoveFile, auditVars
  <2>2. CASE findings' \subseteq findings
    BY <2>1, <2>2, <1>1
  <2>3. CASE ForgetTrack(r)
    <3>1. ASSUME NEW f \in findings
          PROVE  TwiceOnlyMissing([f EXCEPT !.track = IF @ = Subject(r) THEN Nothing ELSE @])
      <4> DEFINE g == [f EXCEPT !.track = IF @ = Subject(r) THEN Nothing ELSE @]
      <4>1. g.path = f.path /\ g.expected = f.expected /\ g.code = f.code
        BY <1>1 DEF Errands
      <4> HIDE DEF g
      <4>2. TwiceOnlyMissing(g)
        BY <4>1, <1>1 DEF TwiceOnlyMissing
      <4> QED BY <4>2 DEF g
    <3> QED BY <3>1, <2>1, <2>3, <1>1 DEF ForgetTrack
  <2>4. CASE Resolve(r)
    <3>1. findings' \subseteq findings
      BY <2>4 DEF Resolve
    <3> QED BY <3>1, <2>2
  <2>5. CASE ~ForgetTrack(r) /\ ~Resolve(r)
    <3>1. findings' = findings
      BY <1>4, <2>5
         DEF Serve, Fetch, LockKey, ActMove, ActReorganize, ActRestore, ActFiles, ActAdopt,
             ActQuarantine, Decide, Link, LinkTo, Unlink, MoveBack, FindRow, DropRow, PutRow,
             Adopt, ListFiles, ForgetFile, Tag, RemoveFile
    <3> QED BY <3>1, <2>2
  <2> QED BY <2>3, <2>4, <2>5
<1>5. CASE Auditor
  <2>1. CASE InspectFiles
    <3>1. audit'.new = NewFindings /\ findings' = findings
      BY <2>1, <1>1 DEF InspectFiles, Audits
    <3>2. \A code, p, t, e : /\ FindingOf(code, p, t, e).code = code
                             /\ FindingOf(code, p, t, e).path = p
                             /\ FindingOf(code, p, t, e).expected = e
      BY DEF FindingOf
    <3>3. ASSUME NEW f \in NewFindings PROVE TwiceOnlyMissing(f)
      <4>1. \/ \E p, t : f = FindingOf("missing", p, t, p)
            \/ \E p, t, e : f = FindingOf("path", p, t, e) /\ e # p
            \/ \E code, p, t : f = FindingOf(code, p, t, Nothing)
        BY DEF NewFindings
      <4> QED BY <4>1, <3>2 DEF TwiceOnlyMissing
    <3> QED BY <3>1, <3>3, <1>1
  <2>2. CASE StoreFindings
    BY <2>2, <1>1 DEF StoreFindings, AuditLeaves, Resting, Audits
  <2>3. CASE ~InspectFiles /\ ~StoreFindings
    <3>1. findings' = findings
      BY <2>3, <1>5
         DEF Auditor, Walk, ReadTables, LastCheck, Finish, LeaveAudit, AuditStops, AuditFails
    <3>2. CASE Walk \/ ReadTables \/ LastCheck
      <4>1. audit'.new = audit.new
        BY <3>2, <1>1 DEF Walk, ReadTables, LastCheck, AuditGoto, Audits
      <4> QED BY <4>1, <3>1, <1>2
    <3>3. CASE Finish \/ LeaveAudit \/ AuditStops \/ AuditFails
      <4>1. AuditLeaves \/ audit' = Resting
        BY <3>3 DEF Finish, LeaveAudit, AuditStops, AuditFails
      <4>2. audit'.new = {}
        <5>1. Resting.new = {}
          BY DEF Resting
        <5>2. Resting \in Audits
          BY RestingShaped
        <5> QED BY <4>1, <5>1, <5>2 DEF AuditLeaves, Audits
      <4> QED BY <4>2, <3>1, <1>2
    <3> QED BY <2>3, <3>2, <3>3, <1>5 DEF Auditor
  <2> QED BY <2>1, <2>2, <2>3
<1>6. CASE Downloader
  BY <1>6, <1>2 DEF Downloader, PlaceDownload, StoreDownload, auditVars
<1>7. CASE ServerRestarts
  BY <1>7, <1>2 DEF ServerRestarts, Resting
<1> QED BY <1>3, <1>4, <1>5, <1>6, <1>7 DEF RepairNext

LEMMA RunsKept ==
  ASSUME StuckInv, RepairNext
  PROVE  RunsHeld'
<1>1. /\ RunsHeld /\ audit \in Audits /\ run \in [DOMAIN run -> Endings]
  BY DEF StuckInv, RepairTypeOK, RunsOK, From
<1>2. CASE UNCHANGED auditVars
  BY <1>1, <1>2 DEF RunsHeld, Listed, auditVars
<1>3. ASSUME NEW n, NEW status \in Endings \ {"running"}, NEW ok \in BOOLEAN, Written(n, status, ok)
      PROVE  Listed' \subseteq Listed \ {n}
  <2>1. CASE ok
    BY <2>1, <1>1, <1>3 DEF Written, Listed
  <2>2. CASE ~ok
    BY <2>2, <1>3 DEF Written, Listed
  <2> QED BY <2>1, <2>2
<1>4. ASSUME NEW status \in Endings \ {"running"}, Complete(audit.run, status), AuditLeaves
      PROVE  RunsHeld'
  <2>1. Listed' = {}
    BY <1>1, <1>3, <1>4 DEF Complete, RunsHeld
  <2> QED BY <2>1 DEF RunsHeld
<1>5. {"failed", "completed", "cancelled"} \subseteq Endings \ {"running"}
  BY DEF Endings
<1>6. CASE Client
  <2>1. ASSUME NEW deep \in BOOLEAN, StartAudit(deep) PROVE RunsHeld'
    <3> DEFINE n == Cardinality(DOMAIN run) + 1
    <3>1. /\ run' = With(run, n, "running") /\ unrecorded' = unrecorded
          /\ audit'.run = n /\ audit'.pc = "walk"
          /\ \A m \in DOMAIN run : run[m] # "running"
      BY <2>1 DEF StartAudit, Resting
    <3> HIDE DEF n
    <3>2. Listed' \subseteq {n}
      BY <3>1 DEF Listed, With
    <3> QED BY <3>1, <3>2 DEF RunsHeld
  <2>2. ASSUME NEW n \in DOMAIN run, CancelAudit(n) PROVE RunsHeld'
    <3>1. Listed' \subseteq Listed
      BY <2>2, <1>3, <1>5 DEF CancelAudit
    <3>2. audit'.run = audit.run /\ audit'.pc = audit.pc
      BY <2>2, <1>1 DEF CancelAudit, Audits
    <3> QED BY <3>1, <3>2, <1>1 DEF RunsHeld
  <2>3. CASE ~(\E deep \in BOOLEAN : StartAudit(deep)) /\ ~(\E n \in DOMAIN run : CancelAudit(n))
    BY <2>3, <1>2, <1>6
       DEF Client, Preview, CheckLayout, Apply, Reorganize, Retag, Delete, StartDownload
  <2> QED BY <2>1, <2>2, <2>3
<1>7. ASSUME NEW r \in Caller, Serve(r) PROVE RunsHeld'
  BY <1>7, <1>2
     DEF Serve, Fetch, LockKey, ActMove, ActReorganize, ActRestore, ActFiles, ActAdopt,
         ActQuarantine, Decide, Link, LinkTo, Unlink, MoveBack, FindRow, DropRow, PutRow,
         Adopt, Resolve, ListFiles, ForgetFile, ForgetTrack, Tag, RemoveFile
<1>8. CASE Auditor
  <2>1. CASE Walk \/ ReadTables \/ InspectFiles \/ LastCheck
    <3>1. audit.pc \notin {"idle", "leave"} /\ audit'.pc \notin {"idle", "leave"}
          /\ audit'.run = audit.run /\ UNCHANGED <<run, unrecorded>>
      BY <2>1, <1>1 DEF Walk, ReadTables, InspectFiles, LastCheck, AuditGoto, Audits
    <3> QED BY <3>1, <1>1 DEF RunsHeld, Listed
  <2>2. CASE StoreFindings
    <3>1. CASE Complete(audit.run, "failed") /\ AuditLeaves
      BY <3>1, <1>4, <1>5
    <3>2. CASE /\ audit' = [audit EXCEPT !.new = {}, !.pc = "complete"]
               /\ UNCHANGED <<run, unrecorded, chances>>
      <4>1. audit'.pc = "complete" /\ audit'.run = audit.run
        BY <3>2, <1>1 DEF Audits
      <4> QED BY <4>1, <3>2, <1>1 DEF RunsHeld, Listed
    <3> QED BY <2>2, <3>1, <3>2 DEF StoreFindings
  <2>3. CASE Finish \/ AuditStops
    BY <2>3, <1>4, <1>5 DEF Finish, AuditStops
  <2>4. CASE AuditFails
    <3>1. Listed' \subseteq Listed \ {audit.run}
      BY <2>4, <1>1 DEF AuditFails, Listed
    <3>2. Listed' = {}
      BY <3>1, <1>1 DEF RunsHeld
    <3> QED BY <3>2 DEF RunsHeld
  <2>5. CASE LeaveAudit
    <3>1. Listed = {} /\ Listed' = Listed
      BY <2>5, <1>1 DEF LeaveAudit, RunsHeld, Listed
    <3> QED BY <3>1 DEF RunsHeld
  <2> QED BY <2>1, <2>2, <2>3, <2>4, <2>5, <1>8 DEF Auditor
<1>9. CASE Downloader
  BY <1>9, <1>2 DEF Downloader, PlaceDownload, StoreDownload
<1>10. CASE ServerRestarts
  <2>1. Listed' = {}
    BY <1>10, <1>1 DEF ServerRestarts, RecoverRuns, Listed, RunsHeld, Resting
  <2> QED BY <2>1 DEF RunsHeld
<1> QED BY <1>6, <1>7, <1>8, <1>9, <1>10 DEF RepairNext

LEMMA StuckStep ==
  ASSUME StuckInv, [RepairNext]_repairVars
  PROVE  StuckInv'
<1>1. CASE UNCHANGED repairVars
  BY <1>1 DEF repairVars, auditVars, StuckInv, RepairTypeOK, LibraryOK, PlansOK, RunsOK,
              RequestsOK, JobsOK, From, RunsHeld, Listed
<1>2. CASE RepairNext
  <2>1. RepairTypeOK'
    <3>1. RepairTypeOK
      BY DEF StuckInv
    <3> QED BY <3>1, <1>2, CallsShaped, ServeShaped, AuditShaped, OthersShaped DEF RepairNext
  <2>2. \A s \in Caller : HeldOK(request'[s])
    <3>1. CASE UNCHANGED request
      BY <3>1 DEF StuckInv
    <3>2. CASE ServerRestarts
      BY <3>2 DEF ServerRestarts, HeldOK, NoRequest
    <3>3. CASE Downloader \/ Auditor
      <4>1. UNCHANGED request
        BY <3>3 DEF Downloader, PlaceDownload, StoreDownload, Auditor, Walk, ReadTables,
                    InspectFiles, LastCheck, StoreFindings, Finish, LeaveAudit, AuditStops,
                    AuditFails
      <4> QED BY <4>1, <3>1
    <3> QED BY <3>2, <3>3, <1>2, CallsHold, LocksKept DEF RepairNext
  <2> QED BY <2>1, <2>2, <1>2, PlansKept, RunsKept DEF StuckInv
<1> QED BY <1>1, <1>2

(* No request waits for a lock in a circle, except the two circles named,  *)
(* nor for one whose holder is done; and no run is left as running without *)
(* an audit, unless its end could not be written (repair.go, integrity.go).*)
THEOREM NobodyStuck == RepairSpec => []NothingStuck
<1>1. RepairInit => StuckInv
  <2> SUFFICES ASSUME RepairInit PROVE StuckInv
    OBVIOUS
  <2>1. RepairTypeOK
    BY InitShaped
  <2>2. RunsHeld /\ findings = {} /\ audit.new = {}
    BY DEF RepairInit, RunsHeld, Listed, Resting
  <2>3. \A r \in Caller : HeldOK(request[r])
    BY DEF RepairInit, HeldOK, NoRequest
  <2> QED BY <2>1, <2>2, <2>3 DEF StuckInv
<1>2. StuckInv /\ [RepairNext]_repairVars => StuckInv'
  BY StuckStep
<1>3. StuckInv => NothingStuck
  BY HeldImplies
<1> QED BY <1>1, <1>2, <1>3, PTL DEF RepairSpec

-----------------------------------------------------------------------------
(* Copies.                                                                 *)

(* What a removal relies on, unless it was crossed: a move has left the    *)
(* recording at its other end; a deletion has listed files of its track.   *)
Left(r) ==
  /\ request[r].pc = "unlink" =>
       /\ Of(Source(r)) # Nothing
       /\ request[r].kind = "quarantine" =>
            /\ Id(request[r].work) \in DOMAIN quarantine
            /\ quarantine[Id(request[r].work)].of = Of(Source(r))
       /\ request[r].kind # "quarantine" =>
            Target(r) # Source(r) /\ Of(Target(r)) = Of(Source(r))
  /\ request[r].pc \in {"remove", "forget"} =>
       Subject(r) \in untrue \/ \A p \in request[r].files : Of(p) = Subject(r)

LostInv ==
  /\ RepairTypeOK
  /\ Untrue \subseteq untrue
  /\ \A r \in crossed : Removing(request[r])
  /\ \A r \in Caller \ crossed : Left(r)

LEMMA OfFiles ==
  ASSUME LibraryOK, NEW p
  PROVE  /\ Of(p) # Nothing <=> p \in DOMAIN disk
         /\ p \in DOMAIN disk => Of(p) = disk[p].of /\ disk[p].of \in Song
BY RepairAssumption DEF LibraryOK, From, Contents, Of

(* Quarantine only grows.                                                  *)
LEMMA QuarantineGrows ==
  ASSUME LibraryOK, RepairNext
  PROVE  \A x \in DOMAIN quarantine : x \in DOMAIN quarantine' /\ quarantine'[x] = quarantine[x]
<1>1. CASE UNCHANGED quarantine
  BY <1>1
<1>2. ASSUME NEW r \in Caller, Link(r)
      PROVE  \A x \in DOMAIN quarantine : x \in DOMAIN quarantine' /\ quarantine'[x] = quarantine[x]
  BY <1>2 DEF Link, LinkTo, With
<1>3. ASSUME NEW r \in Caller, Serve(r), ~Link(r)
      PROVE  UNCHANGED quarantine
  BY <1>3 DEF Serve, Fetch, LockKey, ActMove, ActReorganize, ActRestore, ActFiles, ActAdopt,
              ActQuarantine, Decide, Unlink, MoveBack, FindRow, DropRow, PutRow, Adopt, Resolve,
              ListFiles, ForgetFile, ForgetTrack, Tag, RemoveFile
<1>4. CASE Client
  BY <1>1, <1>4 DEF Client, Preview, CheckLayout, Apply, Reorganize, Retag, Delete, StartAudit,
                    CancelAudit, StartDownload
<1>5. CASE Auditor
  BY <1>1, <1>5 DEF Auditor, Walk, ReadTables, InspectFiles, LastCheck, StoreFindings, Finish,
                    LeaveAudit, AuditStops, AuditFails
<1>6. CASE Downloader \/ ServerRestarts
  BY <1>1, <1>6 DEF Downloader, PlaceDownload, StoreDownload, ServerRestarts
<1> QED BY <1>1, <1>2, <1>3, <1>4, <1>5, <1>6 DEF RepairNext

(* A step that is not of r leaves what r relies on alone, or crosses it.   *)
LEMMA LeftByOthers ==
  ASSUME LostInv, RepairNext, NEW r \in Caller, r \notin crossed', request'[r] = request[r]
  PROVE  Left(r)'
<1>1. LibraryOK /\ RequestsOK /\ request[r] \in Requests
  BY DEF LostInv, RepairTypeOK, RequestsOK
<1>2. CASE ~Removing(request[r])
  BY <1>2 DEF Left, Removing
<1>3. CASE Removing(request[r])
  <2>1. r \notin crossed /\ \A p \in Relies(request[r]) : Of(p)' = Of(p)
    BY <1>3 DEF RepairNext, Crossings
  <2>2. Left(r)
    BY <2>1 DEF LostInv
  <2>3. untrue \subseteq untrue' /\ Subject(r)' = Subject(r) /\ Source(r)' = Source(r)
        /\ Target(r)' = Target(r)
    BY DEF RepairNext, Subject, Source, Target
  <2>4. CASE request[r].pc = "unlink" /\ request[r].kind = "quarantine"
    <3>1. Of(Source(r))' = Of(Source(r))
      <4>1. Source(r) \in Relies(request[r])
        BY <2>4 DEF Relies, Source
      <4>2. PICK p : p = Source(r)
        OBVIOUS
      <4>3. Of(p)' = Of(p)
        BY <2>1, <4>1, <4>2
      <4> QED BY <4>2, <4>3, <2>3 DEF Of
    <3>2. /\ Id(request'[r].work) \in DOMAIN quarantine'
          /\ quarantine'[Id(request'[r].work)] = quarantine[Id(request[r].work)]
      BY <2>2, <2>4, <1>1, QuarantineGrows DEF Left
    <3> QED BY <3>1, <3>2, <2>2, <2>4 DEF Left
  <2>5. CASE request[r].pc = "unlink" /\ request[r].kind # "quarantine"
    <3>1. {Source(r), Target(r)} \subseteq Relies(request[r])
      BY <2>5 DEF Relies, Source, Target, Subject
    <3>2. PICK p, q : p = Source(r) /\ q = Target(r)
      OBVIOUS
    <3>3. Of(p)' = Of(p) /\ Of(q)' = Of(q)
      BY <2>1, <3>1, <3>2
    <3>4. Of(Source(r))' = Of(Source(r)) /\ Of(Target(r))' = Of(Target(r))
      BY <3>2, <3>3, <2>3 DEF Of
    <3> QED BY <3>4, <2>2, <2>3, <2>5 DEF Left
  <2>6. CASE request[r].pc \in {"remove", "forget"}
    <3>1. request[r].files \subseteq Relies(request[r])
      BY <2>6 DEF Relies
    <3>2. Subject(r) \in untrue \/ \A p \in request[r].files : Of(p) = Subject(r)
      BY <2>2, <2>6 DEF Left
    <3>3. Subject(r) \in untrue' \/ \A p \in request[r].files : Of(p)' = Subject(r)
      BY <2>1, <2>3, <3>1, <3>2
    <3> QED BY <3>3, <2>3, <2>6 DEF Left
  <2> QED BY <1>3, <2>4, <2>5, <2>6 DEF Removing
<1> QED BY <1>2, <1>3

(* A step of r leaves what r relies on from there.                         *)
LEMMA LeftByItself ==
  ASSUME LostInv, RepairNext, NEW r \in Caller, r \notin crossed', Serve(r)
  PROVE  Left(r)'
<1>1. /\ LibraryOK /\ RequestsOK /\ request[r] \in Requests /\ Aimed(request[r])
      /\ request[r].work \in Errands
  BY DEF LostInv, RepairTypeOK, RequestsOK, Requests
<1>2. CASE ~Removing(request'[r])
  BY <1>2 DEF Left, Removing
<1>3. CASE Removing(request'[r]) /\ Link(r)
  <2>1. GoOn(r, "unlink") /\ Source(r) \in DOMAIN disk
    <3>1. ~EndRequest(r)
      BY <1>1, <1>3, EndsAlone DEF Removing
    <3> QED BY <3>1, <1>3 DEF Link, LinkTo
  <2>2. request'[r].pc = "unlink" /\ request'[r].work = request[r].work
        /\ request'[r].kind = request[r].kind
    BY <2>1, <1>1 DEF GoOn, RequestsOK, Requests
  <2>3. Source(r)' = Source(r) /\ Target(r)' = Target(r) /\ Subject(r)' = Subject(r)
    BY <2>2 DEF Source, Target, Subject
  <2>4. CASE request[r].kind = "quarantine"
    <3>1. quarantine' = With(quarantine, Id(request[r].work), disk[Source(r)]) /\ disk' = disk
      BY <1>3, <2>1, <2>4, <1>1, EndsAlone, <2>2 DEF Link, LinkTo
    <3>2. /\ Id(request[r].work) \in DOMAIN quarantine'
          /\ quarantine'[Id(request[r].work)] = disk[Source(r)]
      BY <3>1 DEF With
    <3>3. Of(Source(r))' = disk[Source(r)].of /\ disk[Source(r)].of # Nothing
      BY <3>1, <2>1, <2>3, <1>1, OfFiles DEF Of
    <3> QED BY <3>2, <3>3, <2>2, <2>4 DEF Left
  <2>5. CASE request[r].kind # "quarantine"
    <3>1. disk' = With(disk, Target(r), disk[Source(r)]) /\ Target(r) \notin DOMAIN disk
      BY <1>3, <2>1, <2>5, <1>1, EndsAlone, <2>2 DEF Link, LinkTo
    <3>2. Target(r) # Source(r) /\ disk[Source(r)].of # Nothing
      BY <3>1, <2>1, <1>1, OfFiles
    <3>3. /\ Source(r) \in DOMAIN disk' /\ disk'[Source(r)] = disk[Source(r)]
          /\ Target(r) \in DOMAIN disk' /\ disk'[Target(r)] = disk[Source(r)]
      BY <3>1, <3>2, <2>1 DEF With
    <3>4. Of(Source(r))' = disk[Source(r)].of /\ Of(Target(r))' = disk[Source(r)].of
      BY <3>3, <2>3 DEF Of
    <3> QED BY <3>2, <3>4, <2>2, <2>3, <2>5 DEF Left
  <2> QED BY <2>4, <2>5
<1>4. CASE Removing(request'[r]) /\ ListFiles(r)
  <2>1. /\ request' = [request EXCEPT ![r].files = FilesOf(Subject(r)),
                                      ![r].pc = IF request[r].kind = "delete" THEN "remove" ELSE "tag"]
        /\ UNCHANGED <<disk, filed>>
    <3>1. ~EndRequest(r)
      BY <1>1, <1>4, EndsAlone DEF Removing
    <3> QED BY <3>1, <1>4 DEF ListFiles
  <2>2. /\ request'[r].files = FilesOf(Subject(r)) /\ request'[r].work = request[r].work
        /\ request'[r].pc # "unlink"
    BY <2>1, <1>1 DEF RequestsOK, Requests
  <2>3. Subject(r)' = Subject(r) /\ untrue \subseteq untrue'
    BY <2>2 DEF Subject, RepairNext
  <2>4. ASSUME Subject(r) \notin untrue, NEW p \in FilesOf(Subject(r)) PROVE Of(p)' = Subject(r)
    <3>1. p \in DOMAIN filed /\ filed[p] = Subject(r) /\ filed[p] \notin Untrue
      BY <2>4 DEF FilesOf, LostInv
    <3>2. p \in DOMAIN disk /\ disk[p].of = filed[p]
      BY <3>1 DEF Untrue
    <3> QED BY <3>1, <3>2, <2>1 DEF Of
  <2> QED BY <2>2, <2>3, <2>4 DEF Left
<1>5. CASE ~Link(r) /\ ~ListFiles(r) /\ Removing(request'[r])
  <2>1. ForgetFile(r) \/ (\E p \in Place : RemoveFile(r, p))
    <3>1. ~EndRequest(r) /\ ~Succeed(r)
      BY <1>1, <1>5, EndsAlone DEF Removing
    <3>2. ASSUME NEW pc, GoOn(r, pc) PROVE pc \in {"unlink", "remove", "forget"}
      BY <3>2, <1>1, <1>5, GoesOn DEF Removing
    <3>3. ~(\/ ActMove(r) \/ ActReorganize(r) \/ ActRestore(r) \/ ActFiles(r) \/ ActAdopt(r)
            \/ ActQuarantine(r) \/ Unlink(r) \/ MoveBack(r) \/ PutRow(r) \/ Adopt(r)
            \/ Resolve(r) \/ ForgetTrack(r))
      <4>1. ASSUME NEW kind, NEW ready, NEW next \in {"link", "lookup", "files"},
                   Decide(r, kind, ready, next)
            PROVE  FALSE
        <5>1. GoOn(r, next)
          BY <4>1, <3>1 DEF Decide
        <5> QED BY <5>1, <3>2
      <4>2. \A pc \in {"link", "lookup", "back", "adopt"} : ~GoOn(r, pc)
        BY <3>2
      <4>3. ~ActMove(r) /\ ~ActReorganize(r) /\ ~ActRestore(r) /\ ~ActFiles(r)
        <5>1. ~Decide(r, "move", TRUE, "lookup")
          BY <4>1
        <5>2. ~ActMove(r)
          BY <4>1, <5>1 DEF ActMove
        <5>3. ~ActReorganize(r) /\ ~ActRestore(r)
          BY <4>1 DEF ActReorganize, ActRestore
        <5>4. ~ActFiles(r)
          BY <4>1 DEF ActFiles
        <5> QED BY <5>2, <5>3, <5>4
      <4>4. ~ActAdopt(r) /\ ~ActQuarantine(r)
        BY <4>2, <3>1 DEF ActAdopt, ActQuarantine
      <4>5. ~Unlink(r) /\ ~MoveBack(r)
        BY <4>2, <3>1 DEF Unlink, MoveBack
      <4>6. ~PutRow(r) /\ ~Adopt(r) /\ ~Resolve(r) /\ ~ForgetTrack(r)
        BY <3>1 DEF PutRow, Adopt, Resolve, ForgetTrack, GiveUp
      <4> QED BY <4>3, <4>4, <4>5, <4>6
    <3>4. ~Fetch(r) /\ ~LockKey(r)
      <4>1. ASSUME Fetch(r) PROVE FALSE
        <5>1. request'[r].pc = "source"
          BY <3>1, <4>1, <1>1 DEF Fetch, RequestsOK, Requests
        <5> QED BY <5>1, <1>5 DEF Removing
      <4>2. ASSUME LockKey(r) PROVE FALSE
        <5>1. request'[r].pc = AfterLock(r) /\ request[r].pc \in {"source", "target", "track"}
          BY <4>2, <1>1 DEF LockKey, Waiting, RequestsOK, Requests
        <5>2. AfterLock(r) \in {"target", "track", "act"}
          BY <5>1 DEF AfterLock
        <5> QED BY <5>1, <5>2, <1>5 DEF Removing
      <4> QED BY <4>1, <4>2
    <3>5. ~FindRow(r) /\ ~DropRow(r)
      <4>1. ASSUME FindRow(r) PROVE FALSE
        <5>1. request'[r].pc = "drop"
          BY <3>1, <4>1, <1>1 DEF FindRow, GiveUp, RequestsOK, Requests
        <5> QED BY <5>1, <1>5 DEF Removing
      <4>2. ASSUME DropRow(r) PROVE FALSE
        <5>1. request'[r].pc = "put"
          BY <4>2, <1>1 DEF DropRow, RequestsOK, Requests
        <5> QED BY <5>1, <1>5 DEF Removing
      <4> QED BY <4>1, <4>2
    <3>6. ASSUME NEW p \in Place, Tag(r, p) PROVE FALSE
      <4>1. request[r].pc = "tag" /\ request' = [request EXCEPT ![r].files = @ \ {p}]
        BY <3>1, <3>6 DEF Tag
      <4>2. request'[r].pc = "tag"
        BY <4>1, <1>1 DEF RequestsOK, Requests
      <4> QED BY <4>2, <1>5 DEF Removing
    <3> QED BY <3>3, <3>4, <3>5, <3>6, <1>5 DEF Serve
  <2>2. CASE ForgetFile(r)
    <3>1. /\ request'[r].pc = "remove" /\ request[r].pc = "forget"
          /\ request'[r].files = request[r].files /\ request'[r].work = request[r].work
          /\ disk' = disk
      BY <2>2, <1>1 DEF ForgetFile, GoOn, RequestsOK, Requests
    <3>2. r \notin crossed
      BY <3>1 DEF RepairNext, Crossings, Removing
    <3>3. Left(r) /\ untrue \subseteq untrue' /\ Subject(r)' = Subject(r)
      BY <3>1, <3>2 DEF LostInv, RepairNext, Subject
    <3>4. \A p : Of(p)' = Of(p)
      BY <3>1 DEF Of
    <3> QED BY <3>1, <3>3, <3>4 DEF Left
  <2>3. ASSUME NEW p \in Place, RemoveFile(r, p) PROVE Left(r)'
    <3>1. /\ request'[r].pc = "forget" /\ request[r].pc = "remove"
          /\ request'[r].files = request[r].files \ {p}
          /\ request'[r].work.track = request[r].work.track
          /\ disk' = Lacking(disk, p)
      BY <2>3, <1>1 DEF RemoveFile, RequestsOK, Requests, Errands
    <3>2. r \notin crossed
      BY <3>1 DEF RepairNext, Crossings, Removing
    <3>3. Left(r) /\ untrue \subseteq untrue' /\ Subject(r)' = Subject(r)
      BY <3>1, <3>2 DEF LostInv, RepairNext, Subject
    <3>4. \A x : x # p => Of(x)' = Of(x)
      BY <3>1 DEF Of, Lacking
    <3> QED BY <3>1, <3>3, <3>4 DEF Left
  <2> QED BY <2>1, <2>2, <2>3
<1> QED BY <1>2, <1>3, <1>4, <1>5

LEMMA LostStep ==
  ASSUME LostInv, [RepairNext]_repairVars
  PROVE  LostInv'
<1>1. CASE UNCHANGED repairVars
  BY <1>1 DEF repairVars, auditVars, LostInv, RepairTypeOK, LibraryOK, PlansOK, RunsOK,
              RequestsOK, JobsOK, From, Untrue, Removing, Left, Of, Source, Target, Subject
<1>2. CASE RepairNext
  <2>1. RepairTypeOK' /\ RequestsOK
    BY <1>2, CallsShaped, ServeShaped, AuditShaped, OthersShaped DEF RepairNext, LostInv, RepairTypeOK
  <2>2. Untrue' \subseteq untrue'
    BY <1>2 DEF RepairNext
  <2>3. \A r \in crossed' : Removing(request'[r])
    BY <1>2 DEF RepairNext, Crossings
  <2>4. ASSUME NEW r \in Caller, r \notin crossed' PROVE Left(r)'
    <3>1. CASE request'[r] = request[r]
      BY <1>2, <2>4, <3>1, LeftByOthers
    <3>2. CASE Serve(r)
      BY <1>2, <2>4, <3>2, LeftByItself
    <3>3. CASE request'[r] # request[r] /\ ~Serve(r)
      <4>1. CASE Client
        <5>1. ASSUME NEW s \in Caller, NEW kind, NEW pc, NEW w, Undertake(s, kind, pc, w),
                     pc \in {"fetch", "track"}
              PROVE  ~Removing(request'[r])
          <6>1. s = r
            BY <5>1, <3>3, <2>1 DEF Undertake, RequestsOK
          <6>2. request'[r].pc = pc
            BY <6>1, <5>1, <2>1 DEF Undertake, RequestsOK, NoRequest
          <6> QED BY <6>2, <5>1 DEF Removing
        <5>2. ~Removing(request'[r])
          BY <3>3, <4>1, <5>1
             DEF Client, Preview, CheckLayout, Apply, Reorganize, Retag, Delete, StartAudit,
                 CancelAudit, StartDownload
        <5> QED BY <5>2 DEF Left, Removing
      <4>2. CASE \E s \in Caller : Serve(s)
        <5>1. PICK s \in Caller : Serve(s)
          BY <4>2
        <5>2. s # r
          BY <5>1, <3>3
        <5>3. request'[r] = request[r]
          <6>1. CASE Fetch(s) \/ LockKey(s)
            BY <6>1, <5>2, <2>1 DEF Fetch, LockKey, EndRequest, RequestsOK
          <6>2. CASE ~Fetch(s) /\ ~LockKey(s)
            BY <6>2, <5>1, <5>2, <2>1, ServesAlone
          <6> QED BY <6>1, <6>2
        <5> QED BY <5>3, <3>3
      <4>3. CASE Auditor \/ Downloader
        BY <3>3, <4>3 DEF Downloader, PlaceDownload, StoreDownload, Auditor, Walk, ReadTables,
                    InspectFiles, LastCheck, StoreFindings, Finish, LeaveAudit, AuditStops,
                    AuditFails
      <4>4. CASE ServerRestarts
        <5>1. request'[r].pc = "idle"
          BY <4>4 DEF ServerRestarts, NoRequest
        <5> QED BY <5>1 DEF Left
      <4> QED BY <1>2, <4>1, <4>2, <4>3, <4>4 DEF RepairNext
    <3> QED BY <3>1, <3>2, <3>3
  <2> QED BY <2>1, <2>2, <2>3, <2>4 DEF LostInv
<1> QED BY <1>1, <1>2

(* A copy that disappears was in the library, and nothing holds the        *)
(* recording afterwards.                                                   *)
LEMMA LastCopy ==
  ASSUME LibraryOK, RepairNext, NEW t, Copies(t) # {}, Copies(t)' = {}
  PROVE  /\ \E p \in DOMAIN disk : disk[p].of = t
         /\ \A p \in DOMAIN disk' : disk'[p].of # t
         /\ \A x \in DOMAIN quarantine' : quarantine'[x].of # t
<1>1. \A x \in DOMAIN quarantine' : quarantine'[x].of # t
  BY DEF Copies
<1>2. \A x \in DOMAIN quarantine : quarantine[x].of # t
  BY <1>1, QuarantineGrows
<1> QED BY <1>1, <1>2 DEF Copies

Excused(t) == \/ \E r \in Caller : Deletes(r, t) \/ Overtaken(r) \/ Overwrites(r)
              \/ \E u \in Song \ {t} : Replaces(u)

LEMMA MoveLoses ==
  ASSUME LostInv, RepairNext, NEW t \in Song, Copies(t) # {}, Copies(t)' = {},
         NEW r \in Caller, Link(r) \/ Unlink(r) \/ MoveBack(r)
  PROVE  Excused(t)
<1>1. LibraryOK /\ RequestsOK /\ request[r] \in Requests
  BY DEF LostInv, RepairTypeOK, RequestsOK
<1>2. PICK p \in DOMAIN disk : disk[p].of = t
  BY <1>1, LastCopy
<1>3. /\ \A q \in DOMAIN disk' : disk'[q].of # t
      /\ \A x \in DOMAIN quarantine' : quarantine'[x].of # t
  BY <1>1, LastCopy
<1>4. CASE Link(r)
  <2>1. p \in DOMAIN disk' /\ disk'[p] = disk[p]
    BY <1>4, <1>2 DEF Link, LinkTo, With
  <2> QED BY <2>1, <1>2, <1>3
<1>5. CASE Unlink(r)
  <2>1. request[r].pc = "unlink" /\ Acts(r)
    <3>1. request[r].pc = "unlink"
      BY <1>5 DEF Unlink
    <3>2. EndRequest(r) \/ Succeed(r) \/ GoOn(r, "back") \/ GoOn(r, "lookup")
      BY <1>5 DEF Unlink
    <3>3. request'[r].pc \in {"idle", "resolve", "back", "lookup"}
      BY <3>2, <1>1, EndsAlone, GoesOn
    <3> QED BY <3>1, <3>3 DEF Acts
  <2>2. CASE r \in crossed
    BY <2>1, <2>2 DEF Excused, Overtaken
  <2>3. CASE r \notin crossed
    <3>1. disk' = Lacking(disk, Source(r)) /\ quarantine' = quarantine
      <4>1. disk' # disk
        BY <1>2, <1>3
      <4> QED BY <4>1, <1>5 DEF Unlink
    <3>2. p = Source(r)
      BY <3>1, <1>2, <1>3 DEF Lacking
    <3>3. Left(r) /\ Of(Source(r)) = t
      BY <2>3, <3>2, <1>1, <1>2, OfFiles DEF LostInv
    <3>4. CASE request[r].kind = "quarantine"
      BY <2>1, <3>1, <3>3, <3>4, <1>3 DEF Left
    <3>5. CASE request[r].kind # "quarantine"
      <4>1. Target(r) # Source(r) /\ Of(Target(r)) = t
        BY <2>1, <3>3, <3>5 DEF Left
      <4>2. PICK q : q = Target(r)
        OBVIOUS
      <4>3. q \in DOMAIN disk /\ disk[q].of = t
        <5>1. Of(q) = t /\ t # Nothing
          BY <4>1, <4>2, RepairAssumption
        <5> QED BY <5>1, <1>1, OfFiles
      <4>4. q \in DOMAIN disk' /\ disk'[q] = disk[q]
        BY <4>1, <4>2, <4>3, <3>1 DEF Lacking
      <4> QED BY <4>3, <4>4, <1>3
    <3> QED BY <3>4, <3>5
  <2> QED BY <2>2, <2>3
<1>6. CASE MoveBack(r)
  <2>1. request[r].pc = "back" /\ Acts(r)
    <3>1. request'[r].pc = "idle"
      BY <1>6, <1>1 DEF MoveBack, EndRequest, RequestsOK, NoRequest
    <3> QED BY <3>1, <1>6 DEF MoveBack, Acts
  <2>2. CASE Source(r) \in DOMAIN disk
    BY <2>1, <2>2 DEF Excused, Overwrites
  <2>3. CASE Source(r) \notin DOMAIN disk
    <3>1. Target(r) \in DOMAIN disk
      BY <1>6, <1>2, <1>3 DEF MoveBack
    <3>2. disk' = Lacking(With(disk, Source(r), disk[Target(r)]), Target(r)) /\ Source(r) # Target(r)
      BY <3>1, <2>3, <1>6 DEF MoveBack
    <3>3. CASE p = Target(r)
      <4>1. Source(r) \in DOMAIN disk' /\ disk'[Source(r)] = disk[p]
        BY <3>2, <3>3 DEF Lacking, With
      <4> QED BY <4>1, <1>2, <1>3
    <3>4. CASE p # Target(r)
      <4>1. p \in DOMAIN disk' /\ disk'[p] = disk[p]
        BY <3>2, <3>4, <2>3, <1>2 DEF Lacking, With
      <4> QED BY <4>1, <1>2, <1>3
    <3> QED BY <3>3, <3>4
  <2> QED BY <2>2, <2>3
<1> QED BY <1>4, <1>5, <1>6

LEMMA FilesLose ==
  ASSUME LostInv, RepairNext, NEW t \in Song, Copies(t) # {}, Copies(t)' = {},
         NEW r \in Caller, NEW p \in Place, Tag(r, p) \/ RemoveFile(r, p)
  PROVE  Excused(t)
<1>1. LibraryOK /\ RequestsOK /\ request[r] \in Requests
  BY DEF LostInv, RepairTypeOK, RequestsOK
<1>2. PICK q \in DOMAIN disk : disk[q].of = t
  BY <1>1, LastCopy
<1>3. \A x \in DOMAIN disk' : disk'[x].of # t
  BY <1>1, LastCopy
<1>4. CASE Tag(r, p)
  <2>1. /\ disk' = disk \/ disk' = [disk EXCEPT ![p].tags = Subject(r)]
        /\ disk[q] \in Contents
    BY <1>4, <1>1, <1>2 DEF Tag, LibraryOK, From
  <2>2. q \in DOMAIN disk' /\ disk'[q].of = t
    BY <2>1, <1>2, <1>1 DEF Contents, LibraryOK, From
  <2> QED BY <2>2, <1>3
<1>5. CASE RemoveFile(r, p)
  <2>1. request[r].pc = "remove" /\ p \in request[r].files /\ disk' = Lacking(disk, p)
    BY <1>5 DEF RemoveFile
  <2>2. request'[r].pc = "forget"
    BY <1>5, <1>1 DEF RemoveFile, RequestsOK, Requests
  <2>3. q = p
    BY <2>1, <1>2, <1>3 DEF Lacking
  <2>4. r \in crossed \/ Subject(r) \in untrue \/ Subject(r) = t
    <3>1. CASE r \notin crossed
      <4>1. Of(p) = t
        BY <2>3, <1>1, <1>2, OfFiles
      <4> QED BY <4>1, <2>1, <3>1 DEF LostInv, Left
    <3> QED BY <3>1
  <2> QED BY <2>1, <2>2, <2>4 DEF Excused, Deletes, Acts
<1> QED BY <1>4, <1>5

LEMMA DownloadLoses ==
  ASSUME LostInv, RepairNext, NEW t \in Song, Copies(t) # {}, Copies(t)' = {},
         NEW u \in Song, PlaceDownload(u)
  PROVE  Excused(t)
<1>1. LibraryOK /\ download \in [Song -> Jobs]
  BY DEF LostInv, RepairTypeOK, JobsOK
<1>2. PICK q \in DOMAIN disk : disk[q].of = t
  BY <1>1, LastCopy
<1>3. \A x \in DOMAIN disk' : disk'[x].of # t
  BY <1>1, LastCopy
<1> DEFINE p == Canonical[u]
<1>4. /\ disk' = With(disk, p, [of |-> u, tags |-> u])
      /\ p \notin DOMAIN disk \/ (p \in DOMAIN filed /\ filed[p] = u)
      /\ download'[u].pc = "placed" /\ download[u].pc = "ready"
  BY <1>1, <1>2, <1>3 DEF PlaceDownload, Jobs
<1> HIDE DEF p
<1>5. p \in DOMAIN disk' /\ disk'[p].of = u
  BY <1>4 DEF With
<1>6. u # t
  BY <1>3, <1>5
<1>7. q = p
  BY <1>2, <1>3, <1>4 DEF With
<1>8. u \in untrue
  <2>1. u \in Untrue
    BY <1>2, <1>4, <1>6, <1>7 DEF Untrue
  <2> QED BY <2>1 DEF LostInv
<1> QED BY <1>4, <1>6, <1>8 DEF Excused, Replaces

LEMMA NeverUnexcused ==
  ASSUME LostInv, RepairNext, NEW t \in Song, Copies(t) # {}, Copies(t)' = {}
  PROVE  Excused(t)
<1>1. disk' # disk
  <2>1. LibraryOK
    BY DEF LostInv, RepairTypeOK
  <2>2. PICK p \in DOMAIN disk : disk[p].of = t
    BY <2>1, LastCopy
  <2>3. \A x \in DOMAIN disk' : disk'[x].of # t
    BY <2>1, LastCopy
  <2> QED BY <2>2, <2>3
<1>2. ASSUME NEW r \in Caller, Serve(r) PROVE Excused(t)
  <2>1. CASE Link(r) \/ Unlink(r) \/ MoveBack(r)
    BY <2>1, MoveLoses
  <2>2. CASE \E p \in Place : Tag(r, p) \/ RemoveFile(r, p)
    BY <2>2, FilesLose
  <2>3. CASE ~(Link(r) \/ Unlink(r) \/ MoveBack(r)) /\ ~(\E p \in Place : Tag(r, p) \/ RemoveFile(r, p))
    <3>1. disk' = disk
      BY <1>2, <2>3
         DEF Serve, Fetch, LockKey, ActMove, ActReorganize, ActRestore, ActFiles, ActAdopt,
             ActQuarantine, Decide, FindRow, DropRow, PutRow, Adopt, Resolve, ListFiles,
             ForgetFile, ForgetTrack
    <3> QED BY <3>1, <1>1
  <2> QED BY <2>1, <2>2, <2>3
<1>3. CASE Client
  <2>1. disk' = disk
    BY <1>3 DEF Client, Preview, CheckLayout, Apply, Reorganize, Retag, Delete, StartAudit,
                CancelAudit, StartDownload
  <2> QED BY <2>1, <1>1
<1>4. CASE Auditor \/ ServerRestarts
  <2>1. disk' = disk
    BY <1>4 DEF Auditor, Walk, ReadTables, InspectFiles, LastCheck, StoreFindings, Finish,
                LeaveAudit, AuditStops, AuditFails, ServerRestarts
  <2> QED BY <2>1, <1>1
<1>5. CASE Downloader
  <2>1. PICK u \in Song : PlaceDownload(u) \/ StoreDownload(u)
    BY <1>5 DEF Downloader
  <2>2. CASE PlaceDownload(u)
    BY <2>2, DownloadLoses
  <2>3. CASE StoreDownload(u)
    BY <2>3, <1>1 DEF StoreDownload
  <2> QED BY <2>1, <2>2, <2>3
<1> QED BY <1>2, <1>3, <1>4, <1>5 DEF RepairNext

(* The last copy of a recording goes by a deletion, by a download in place *)
(* of a file that its row named wrongly, by a move that another call       *)
(* crossed between its link and the removal, or by one that is taken back  *)
(* onto a file: by no other step of repair.go, compat.go and service.go.   *)
THEOREM RecordingsStay == RepairSpec => NothingLost
<1>1. RepairInit => LostInv
  <2> SUFFICES ASSUME RepairInit PROVE LostInv
    OBVIOUS
  <2>1. RepairTypeOK
    BY InitShaped
  <2>2. untrue = Untrue /\ crossed = {} /\ \A r \in Caller : request[r].pc = "idle"
    BY DEF RepairInit, NoRequest
  <2> QED BY <2>1, <2>2 DEF LostInv, Left
<1>2. LostInv /\ [RepairNext]_repairVars => LostInv'
  BY LostStep
<1>3. LostInv /\ [RepairNext]_repairVars =>
        [\A t \in Song : Copies(t) # {} /\ Copies(t)' = {} =>
           \/ \E r \in Caller : Deletes(r, t) \/ Overtaken(r) \/ Overwrites(r)
           \/ \E u \in Song \ {t} : Replaces(u)]_repairVars
  BY NeverUnexcused DEF Excused
<1> QED BY <1>1, <1>2, <1>3, PTL DEF RepairSpec, NothingLost
=============================================================================
