--------------------------- MODULE QaPlan_proofs ---------------------------
(***************************************************************************)
(* Proofs about QaPlan: what validateSteps and groundLocators together     *)
(* guarantee of a plan of any length.                                      *)
(***************************************************************************)
EXTENDS QaPlan, TLAPS

-----------------------------------------------------------------------------
(* The scans seen as functions of a sequence.                              *)
Onr(s, i, r) ==
  \/ \E m \in 1..i : /\ Navigates(s[m]) /\ s[m].route = r
                     /\ \A k \in (m + 1)..i : ~Navigates(s[k])
  \/ r = NoRoute /\ \A k \in 1..i : ~Navigates(s[k])

Anc(s, i, v) ==
  \/ v = Unset /\ \A m \in 1..i : s[m].action \in Positive =>
                    \E k \in m..i : s[k].action = "goto"
  \/ \E m \in 1..i : /\ s[m].action \in Positive /\ Onr(s, m, v) /\ v # Unset
                     /\ \A k \in m..i : s[k].action # "goto"
                     /\ \A k \in (m + 1)..i : s[k].action \notin Positive

LEMMA Same == /\ \A i, r : OnRoute(i, r) <=> Onr(steps, i, r)
              /\ \A i, v : AnchoredAt(i, v) <=> Anc(steps, i, v)
  BY DEF OnRoute, AnchoredAt, Onr, Anc

(* A step is on one route only.                                            *)
LEMMA OneRoute ==
  ASSUME NEW s, NEW i \in Nat, NEW r, NEW q, Onr(s, i, r), Onr(s, i, q)
  PROVE  r = q
  BY DEF Onr

(* The anchor after some steps is one value.                               *)
LEMMA OneAnchor ==
  ASSUME NEW s, NEW i \in Nat, NEW v, NEW w, Anc(s, i, v), Anc(s, i, w)
  PROVE  v = w
<1>1. CASE v = Unset /\ w = Unset
  BY <1>1
<1>2. ASSUME NEW m \in 1..i, s[m].action \in Positive, \A k \in m..i : s[k].action # "goto",
             \A p \in 1..i : s[p].action \in Positive => \E k \in p..i : s[k].action = "goto"
      PROVE  FALSE
  BY <1>2
<1>3. ASSUME NEW m \in 1..i, s[m].action \in Positive, Onr(s, m, v),
             \A k \in (m + 1)..i : s[k].action \notin Positive,
             NEW p \in 1..i, s[p].action \in Positive, Onr(s, p, w),
             \A k \in (p + 1)..i : s[k].action \notin Positive
      PROVE  v = w
  <2>1. ~(m < p) /\ ~(p < m)
    BY <1>3
  <2>2. m = p
    BY <2>1
  <2> QED BY <1>3, <2>2, OneRoute
<1> QED BY <1>1, <1>2, <1>3 DEF Anc

(* Only the first steps count.                                             *)
LEMMA Prefix ==
  ASSUME NEW s, NEW t, NEW i \in Nat, \A k \in 1..i : s[k] = t[k], NEW v
  PROVE  (Onr(s, i, v) <=> Onr(t, i, v)) /\ (Anc(s, i, v) <=> Anc(t, i, v))
<1>1. \A m \in 0..i : Onr(s, m, v) <=> Onr(t, m, v)
  BY DEF Onr
<1>2. \A m \in 1..i : s[m] = t[m] /\ m \in 0..i
  OBVIOUS
<1> QED BY <1>1, <1>2 DEF Anc

(* One more step moves the route and the anchor as the scans do.           *)
LEMMA NextRoute ==
  ASSUME NEW s, NEW i \in Nat, NEW r, Onr(s, i, r)
  PROVE  Onr(s, i + 1, IF Navigates(s[i + 1]) THEN s[i + 1].route ELSE r)
<1>1. CASE Navigates(s[i + 1])
  BY <1>1 DEF Onr
<1>2. CASE ~Navigates(s[i + 1])
  <2>1. \A k \in 1..(i + 1) : k \in 1..i \/ k = i + 1
    OBVIOUS
  <2> QED BY <1>2, <2>1 DEF Onr
<1> QED BY <1>1, <1>2

LEMMA NextAnchor ==
  ASSUME NEW s, NEW i \in Nat, NEW r, NEW v, NEW w, Anc(s, i, v), Onr(s, i + 1, r), r # Unset,
         w = IF s[i + 1].action \in Positive THEN r
             ELSE IF s[i + 1].action = "goto" THEN Unset ELSE v
  PROVE  Anc(s, i + 1, w)
<1>0. \A k \in 1..(i + 1) : k \in 1..i \/ k = i + 1
  OBVIOUS
<1>1. CASE s[i + 1].action \in Positive
  <2>1. w = r /\ s[i + 1].action # "goto"
    BY <1>1 DEF Positive
  <2> QED BY <1>1, <2>1 DEF Anc
<1>2. CASE s[i + 1].action = "goto"
  <2>1. w = Unset
    BY <1>2 DEF Positive
  <2>2. \A m \in 1..(i + 1) : i + 1 \in m..(i + 1)
    OBVIOUS
  <2> QED BY <1>2, <2>1, <2>2 DEF Anc
<1>3. CASE s[i + 1].action \notin Positive \cup {"goto"}
  <2>1. w = v
    BY <1>3
  <2>2. CASE v = Unset /\ \A m \in 1..i : s[m].action \in Positive =>
                    \E k \in m..i : s[k].action = "goto"
    BY <1>0, <1>3, <2>1, <2>2 DEF Anc
  <2>3. ASSUME NEW m \in 1..i, s[m].action \in Positive, Onr(s, m, v), v # Unset,
               \A k \in m..i : s[k].action # "goto",
               \A k \in (m + 1)..i : s[k].action \notin Positive
        PROVE  Anc(s, i + 1, w)
    <3>1. \A k \in m..(i + 1) : k \in m..i \/ k = i + 1
      OBVIOUS
    <3>2. \A k \in (m + 1)..(i + 1) : k \in (m + 1)..i \/ k = i + 1
      OBVIOUS
    <3> QED BY <1>3, <2>1, <2>3, <3>1, <3>2 DEF Anc
  <2> QED BY <2>2, <2>3 DEF Anc
<1> QED BY <1>1, <1>2, <1>3
-----------------------------------------------------------------------------
(* What the assumptions and the types say of a step.                       *)
LEMMA StepTypes ==
  ASSUME NEW s \in Menu
  PROVE  /\ s \in StepShape /\ s.route \in Routes \cup {NoRoute} /\ s.route # Unset
         /\ s.binds \in Names \cup {NoName} /\ s.uses \subseteq Names
         /\ RouteAfter(s) \in Routes \cup {NoRoute, route}
  BY PlanAssumption DEF StepShape, RouteAfter

LEMMA AfterTypes ==
  ASSUME NEW s \in Menu, route \in Routes \cup {NoRoute}, anchored \in Anchors
  PROVE  /\ RouteAfter(s) \in Routes \cup {NoRoute} /\ RouteAfter(s) # Unset
         /\ AnchorAfter(s) \in Anchors
<1>1. RouteAfter(s) \in Routes \cup {NoRoute} /\ RouteAfter(s) # Unset
  BY StepTypes, PlanAssumption DEF RouteAfter
<1> QED BY <1>1 DEF AnchorAfter, Anchors

LEMMA InitInv == Init => IInv
<1> SUFFICES ASSUME Init PROVE IInv
  OBVIOUS
<1>1. Positions = {} /\ Len(steps) = 0
  BY DEF Init, Positions
<1>2. TypeOK
  <2>1. steps \in Seq(Menu)
    BY DEF Init
  <2>2. at \in 1..(Len(steps) + 1) /\ truncateAt \in 0..Len(steps)
    BY <1>1 DEF Init
  <2> QED BY <1>1, <2>1, <2>2 DEF Init, TypeOK, Anchors
<1>3. ReadShape
  BY <1>1 DEF Init, ReadShape, OnRoute, AnchoredAt
<1>4. GroundShape
  BY <1>1 DEF Init, GroundShape
<1> QED BY <1>2, <1>3, <1>4 DEF IInv

-----------------------------------------------------------------------------
(* Reading a step: everything said of the earlier ones stays, and the new  *)
(* one brings its own.                                                     *)
LEMMA ReadInv ==
  ASSUME IInv, NEW s \in Menu, ReadStep(s)
  PROVE  IInv'
<1> DEFINE n == Len(steps)
<1>1. /\ steps \in Seq(Menu) /\ n \in Nat /\ Len(steps') = n + 1 /\ steps' \in Seq(Menu)
      /\ Positions = 1..n /\ Positions' = 1..(n + 1)
      /\ \A i \in 1..n : steps'[i] = steps[i] /\ steps[i] \in Menu
      /\ steps'[n + 1] = s /\ phase = "rules" /\ phase' = "rules"
  BY DEF IInv, TypeOK, ReadStep, Positions
<1>2. at = 1 /\ gaps = {} /\ truncateAt = 0 /\ liveAnchor = Unset /\ UNCHANGED <<groundVars, chosen, driver>>
  BY <1>1 DEF IInv, GroundShape, ReadStep, groundVars
<1>3. TypeOK'
  <2>1. route' \in Routes \cup {NoRoute} /\ anchored' \in Anchors
    BY AfterTypes DEF IInv, TypeOK, ReadStep
  <2>2. messageBound' \subseteq Names
    <3>1. CASE driver = "browser" /\ s.action = "read_message"
      BY <3>1 DEF IInv, TypeOK, ReadStep, Fits
    <3> QED BY <3>1 DEF IInv, TypeOK, ReadStep
  <2>3. expecting' \in BOOLEAN /\ interacted' \in BOOLEAN
    BY DEF IInv, TypeOK, ReadStep
  <2>4. liveAnchor \in Anchors /\ chosen \subseteq 1..n /\ driver \in {"http", "browser"} /\ runtime \subseteq 1..n
    BY <1>1 DEF IInv, TypeOK
  <2> QED BY <1>1, <1>2, <2>1, <2>2, <2>3, <2>4 DEF TypeOK, groundVars
<1>4. GroundShape'
  BY <1>1, <1>2 DEF GroundShape, groundVars
<1>5. \A i \in 0..n : \A r : /\ Onr(steps', i, r) <=> Onr(steps, i, r)
                            /\ Anc(steps', i, r) <=> Anc(steps, i, r)
  <2> SUFFICES ASSUME NEW i \in 0..n, NEW r
               PROVE  /\ Onr(steps', i, r) <=> Onr(steps, i, r)
                      /\ Anc(steps', i, r) <=> Anc(steps, i, r)
    OBVIOUS
  <2>1. \A k \in 1..i : steps'[k] = steps[k]
    BY <1>1
  <2>2. i \in Nat
    OBVIOUS
  <2> HIDE DEF n
  <2> QED BY <2>1, <2>2, Prefix
<1>6. /\ \A i, r : OnRoute(i, r)' <=> Onr(steps', i, r)
      /\ \A i, v : AnchoredAt(i, v)' <=> Anc(steps', i, v)
  BY DEF OnRoute, AnchoredAt, Onr, Anc
<1>7. /\ \A i, r : OnRoute(i, r) <=> Onr(steps, i, r)
      /\ \A i, v : AnchoredAt(i, v) <=> Anc(steps, i, v)
  BY Same
<1>8. ReadShape'
  <2>1. \A i \in Positions' : Legal(driver', steps'[i])
    BY <1>1, <1>2 DEF IInv, ReadShape, ReadStep
  <2>2. expecting' <=> \E i \in Positions' : Expects(steps'[i])
    <3>1. (\E i \in 1..(n + 1) : Expects(steps'[i])) <=> (\E i \in 1..n : Expects(steps[i])) \/ Expects(s)
      <4>1. \A i \in 1..(n + 1) : i \in 1..n \/ i = n + 1
        BY <1>1
      <4> QED BY <1>1, <4>1
    <3> QED BY <1>1, <3>1 DEF IInv, ReadShape, ReadStep
  <2>3. driver = "http" => \A i \in 1..(n + 1) : steps'[i].action # "read_message"
    BY <2>1, <1>1, <1>2 DEF Legal
  <2>4. messageBound' = {steps'[i].binds : i \in {j \in Positions' : steps'[j].action = "read_message"}}
    <3>0. messageBound = {steps[i].binds : i \in {j \in 1..n : steps[j].action = "read_message"}}
      BY <1>1 DEF IInv, ReadShape
    <3>1. CASE s.action = "read_message"
      <4>1. driver = "browser"
        BY <2>3, <3>1, <1>1 DEF IInv, TypeOK
      <4>2. messageBound' = messageBound \cup {s.binds}
        BY <3>1, <4>1 DEF ReadStep
      <4>3. {j \in 1..(n + 1) : steps'[j].action = "read_message"} = {j \in 1..n : steps[j].action = "read_message"} \cup {n + 1}
        BY <1>1, <3>1
      <4> QED BY <1>1, <3>0, <4>2, <4>3
    <3>2. CASE s.action # "read_message"
      <4>1. messageBound' = messageBound
        BY <3>2 DEF ReadStep
      <4>2. {j \in 1..(n + 1) : steps'[j].action = "read_message"} = {j \in 1..n : steps[j].action = "read_message"}
        BY <1>1, <3>2
      <4> QED BY <1>1, <3>0, <4>1, <4>2
    <3> QED BY <3>1, <3>2
  <2>5. \A i \in Positions' : steps'[i].action = "read_message" =>
       /\ \E j \in 1..(i - 1) : Touches(steps'[j])
       /\ steps'[i].binds \in Names \ Bound
       /\ \A j \in 1..(i - 1) : steps'[j].action = "read_message" => steps'[j].binds # steps'[i].binds
    <3>1. CASE s.action = "read_message"
      <4>1. driver = "browser"
        BY <2>3, <3>1, <1>1 DEF IInv, TypeOK
      <4>2. interacted /\ s.binds \in Names \ (Bound \cup messageBound)
        BY <3>1, <4>1 DEF ReadStep, Fits
      <4>3. \E j \in 1..n : Touches(steps[j])
        BY <4>1, <4>2, <1>1 DEF IInv, ReadShape
      <4>4. \A j \in 1..n : steps[j].action = "read_message" => steps[j].binds # s.binds
        BY <4>2, <1>1 DEF IInv, ReadShape
      <4>5. \A i \in 1..(n + 1) : i \in 1..n \/ i = n + 1
        BY <1>1
      <4>6. \A i \in 1..n : \A j \in 1..(i - 1) : j \in 1..n
        BY <1>1
      <4> QED BY <1>1, <4>2, <4>3, <4>4, <4>5, <4>6 DEF IInv, ReadShape
    <3>2. CASE s.action # "read_message"
      <4>6. \A i \in 1..n : \A j \in 1..(i - 1) : j \in 1..n
        BY <1>1
      <4> QED BY <1>1, <3>2, <4>6 DEF IInv, ReadShape
    <3> QED BY <3>1, <3>2
  <2>6. \A i \in Positions' : \A x \in steps'[i].uses : x \in Bound \/ Binders(i, x)' # {}
    <3> SUFFICES ASSUME NEW i \in 1..(n + 1), NEW x \in steps'[i].uses, x \notin Bound
                 PROVE  \E j \in 1..(i - 1) : steps'[j].action = "read_message" /\ steps'[j].binds = x
      BY <1>1 DEF Binders
    <3>1. CASE i \in 1..n
      <4>1. Binders(i, x) # {}
        BY <3>1, <1>1 DEF IInv, ReadShape
      <4> QED BY <4>1, <3>1, <1>1 DEF Binders
    <3>2. CASE i = n + 1
      <4>1. x \in messageBound
        BY <3>2, <1>1 DEF ReadStep, Fits, NamesBound
      <4> QED BY <4>1, <3>2, <1>1 DEF IInv, ReadShape
    <3> QED BY <1>1, <3>1, <3>2
  <2>7. ASSUME driver' = "browser"
        PROVE  /\ interacted' => \E i \in Positions' : Touches(steps'[i])
               /\ phase' \in {"rules", "entry"} => OnRoute(Len(steps), route)' /\ AnchoredAt(Len(steps), anchored)'
               /\ \A i \in Positions' : Absence(steps'[i]) =>
                    \E r \in Routes \cup {NoRoute} : OnRoute(i - 1, r)' /\ AnchoredAt(i - 1, r)'
    <3>0. driver = "browser" /\ Onr(steps, n, route) /\ Anc(steps, n, anchored)
      BY <2>7, <1>1, <1>2, <1>7 DEF IInv, ReadShape
    <3>1. interacted' => \E i \in Positions' : Touches(steps'[i])
      <4>1. interacted' = (interacted \/ Touches(s))
        BY <3>0 DEF ReadStep
      <4>2. interacted => \E i \in 1..n : Touches(steps[i])
        BY <3>0, <1>1 DEF IInv, ReadShape
      <4>3. CASE interacted
        <5>1. PICK i \in 1..n : Touches(steps[i])
          BY <4>2, <4>3
        <5>2. i \in Positions' /\ steps'[i] = steps[i]
          BY <1>1
        <5> QED BY <5>1, <5>2
      <4>4. CASE Touches(s)
        BY <4>4, <1>1
      <4> QED BY <4>1, <4>3, <4>4
    <3>2. Onr(steps', n, route) /\ Anc(steps', n, anchored)
      <4> HIDE DEF n
      <4>1. n \in Nat /\ \A k \in 1..n : steps'[k] = steps[k]
        BY <1>1
      <4>2. Onr(steps', n, route) <=> Onr(steps, n, route)
        BY <4>1, Prefix
      <4>3. Anc(steps', n, anchored) <=> Anc(steps, n, anchored)
        BY <4>1, Prefix
      <4> QED BY <3>0, <4>2, <4>3
    <3>3. Onr(steps', n + 1, route')
      <4>1. Onr(steps', n + 1, IF Navigates(steps'[n + 1]) THEN steps'[n + 1].route ELSE route)
        <5> HIDE DEF n
        <5> QED BY <3>2, <1>1, NextRoute
      <4> QED BY <4>1, <3>0, <1>1 DEF ReadStep, RouteAfter
    <3>4. Anc(steps', n + 1, anchored')
      <4>1. anchored' = IF s.action \in Positive THEN route'
                       ELSE IF s.action = "goto" THEN Unset ELSE anchored
        BY <3>0 DEF ReadStep, AnchorAfter
      <4>2. route' # Unset
        BY <3>0, AfterTypes DEF ReadStep, IInv, TypeOK
      <4> HIDE DEF n
      <4> QED BY <4>1, <4>2, <3>2, <3>3, <1>1, NextAnchor
    <3>5. \A i \in Positions' : Absence(steps'[i]) =>
                    \E r \in Routes \cup {NoRoute} : Onr(steps', i - 1, r) /\ Anc(steps', i - 1, r)
      <4> SUFFICES ASSUME NEW i \in 1..(n + 1), Absence(steps'[i])
                   PROVE  \E r \in Routes \cup {NoRoute} : Onr(steps', i - 1, r) /\ Anc(steps', i - 1, r)
        BY <1>1
      <4>1. CASE i \in 1..n
        <5>1. PICK r \in Routes \cup {NoRoute} : Onr(steps, i - 1, r) /\ Anc(steps, i - 1, r)
          BY <4>1, <3>0, <1>1, <1>7 DEF IInv, ReadShape
        <5>2. i - 1 \in 0..n
          BY <4>1, <1>1
        <5> QED BY <5>1, <5>2, <1>5
      <4>2. CASE i = n + 1
        <5>1. anchored = route /\ route \in Routes \cup {NoRoute} /\ i - 1 = n
          BY <4>2, <3>0, <1>1 DEF ReadStep, Fits, IInv, TypeOK
        <5> QED BY <5>1, <3>2
      <4> QED BY <4>1, <4>2, <1>1
    <3> QED BY <3>1, <3>3, <3>4, <3>5, <1>1, <1>6
  <2> QED BY <2>1, <2>2, <2>4, <2>5, <2>6, <2>7 DEF ReadShape
<1> QED BY <1>3, <1>4, <1>8 DEF IInv
-----------------------------------------------------------------------------
(* Once the steps are read, what was said of them stays.                   *)
LEMMA ReadStays ==
  ASSUME ReadShape, UNCHANGED <<driver, steps, scanVars>>,
         phase' \in {"rules", "entry"} => /\ phase \in {"rules", "entry"}
                                         /\ UNCHANGED <<route, anchored>>
  PROVE  ReadShape'
<1>1. /\ driver' = driver /\ steps' = steps /\ expecting' = expecting
      /\ interacted' = interacted /\ messageBound' = messageBound /\ Positions' = Positions
  BY DEF scanVars, Positions
<1>2. /\ \A i \in Positions' : Legal(driver', steps'[i])
      /\ expecting' <=> \E i \in Positions' : Expects(steps'[i])
      /\ messageBound' = {steps'[i].binds : i \in {j \in Positions' : steps'[j].action = "read_message"}}
  BY <1>1 DEF ReadShape
<1>3. \A i \in Positions' : steps'[i].action = "read_message" =>
       /\ \E j \in 1..(i - 1) : Touches(steps'[j])
       /\ steps'[i].binds \in Names \ Bound
       /\ \A j \in 1..(i - 1) : steps'[j].action = "read_message" => steps'[j].binds # steps'[i].binds
  BY <1>1 DEF ReadShape
<1>4. \A i \in Positions' : \A x \in steps'[i].uses : x \in Bound \/ Binders(i, x)' # {}
  BY <1>1 DEF ReadShape, Binders
<1>5. ASSUME driver' = "browser", phase' \in {"rules", "entry"}
      PROVE  OnRoute(Len(steps), route)' /\ AnchoredAt(Len(steps), anchored)'
  <2>1. OnRoute(Len(steps), route) /\ AnchoredAt(Len(steps), anchored)
    BY <1>1, <1>5 DEF ReadShape
  <2>2. route' = route /\ anchored' = anchored
    BY <1>5
  <2> QED BY <1>1, <2>1, <2>2 DEF OnRoute, AnchoredAt
<1>6. ASSUME driver' = "browser", NEW i \in Positions', Absence(steps'[i])
      PROVE  \E r \in Routes \cup {NoRoute} : OnRoute(i - 1, r)' /\ AnchoredAt(i - 1, r)'
  <2>1. PICK r \in Routes \cup {NoRoute} : OnRoute(i - 1, r) /\ AnchoredAt(i - 1, r)
    BY <1>1, <1>6 DEF ReadShape
  <2> QED BY <1>1, <2>1 DEF OnRoute, AnchoredAt
<1>7. driver' = "browser" => (interacted' => \E i \in Positions' : Touches(steps'[i]))
  BY <1>1 DEF ReadShape
<1> QED BY <1>2, <1>3, <1>4, <1>5, <1>6, <1>7 DEF ReadShape

LEMMA GroundStays ==
  ASSUME GroundShape, UNCHANGED <<driver, steps, groundVars>>,
         phase' \in {"rules", "entry", "refused"} => phase \in {"rules", "entry", "refused"},
         phase' \in {"entry", "ground", "ready"} => expecting',
         phase' \in {"ground", "ready"} => SubmitsHold,
         phase' = "ground" => /\ driver = "browser" /\ at = 1
                              /\ route' = NoRoute /\ anchored' = Unset,
         phase' = "ready" /\ driver = "browser" => at = Len(steps) + 1 \/ truncateAt # 0
  PROVE  GroundShape'
<1>1. /\ driver' = driver /\ steps' = steps /\ at' = at /\ gaps' = gaps
      /\ truncateAt' = truncateAt /\ liveAnchor' = liveAnchor
  BY DEF groundVars
<1>2. phase' = "ground" => /\ driver' = "browser"
                           /\ OnRoute(at - 1, route)' /\ AnchoredAt(at - 1, anchored)'
  BY <1>1 DEF OnRoute, AnchoredAt
<1>3. phase' \in {"ground", "ready"} => SubmitsHold'
  BY <1>1 DEF SubmitsHold, Positions
<1>4. /\ gaps' \subseteq 1..(at' - 1)
      /\ truncateAt' # 0 => truncateAt' = at' - 1 /\ truncateAt' \in gaps'
      /\ \A g \in gaps' : steps'[g].action \in Interaction => g = truncateAt'
      /\ \A g \in gaps' : steps'[g].action \in LocatorActions \cup {"judge", "expect_requests"}
      /\ truncateAt' # 0 => steps'[truncateAt'].action \in Interaction
  BY <1>1 DEF GroundShape
<1>5. liveAnchor' # Unset => \E j \in 1..(at' - 1) :
       /\ steps'[j].action \in Positive /\ j \notin gaps' /\ OnRoute(j, liveAnchor)'
       /\ \A k \in j..(at' - 1) : steps'[k].action # "goto"
  BY <1>1 DEF GroundShape, OnRoute
<1>6. \A i \in 1..(at' - 1) : Absence(steps'[i]) /\ i \notin gaps' =>
       \E j \in 1..(i - 1) : j \notin gaps' /\ Vouches(j, i)'
  <2> SUFFICES ASSUME NEW i \in 1..(at - 1), Absence(steps[i]), i \notin gaps
               PROVE  \E j \in 1..(i - 1) : j \notin gaps /\ Vouches(j, i)'
    BY <1>1
  <2>1. PICK j \in 1..(i - 1) : j \notin gaps /\ Vouches(j, i)
    BY DEF GroundShape
  <2> QED BY <1>1, <2>1 DEF Vouches, OnRoute
<1>7. /\ phase' \in {"rules", "entry", "refused"} => at' = 1 /\ gaps' = {} /\ truncateAt' = 0 /\ liveAnchor' = Unset
      /\ phase' = "ready" /\ driver' = "browser" => at' = Len(steps') + 1 \/ truncateAt' # 0
  BY <1>1 DEF GroundShape
<1> QED BY <1>2, <1>3, <1>4, <1>5, <1>6, <1>7 DEF GroundShape

LEMMA ScanEndsInv ==
  ASSUME IInv,
         \/ \E s \in Menu : RefuseStep(s)
         \/ EndRules \/ EndGround \/ Taken
         \/ \E c \in SUBSET Positions : TakeEntry(c) \/ RefuseEntry(c)
  PROVE  IInv'
<1>1. ASSUME NEW s \in Menu, RefuseStep(s) PROVE IInv'
  <2>1. TypeOK'
    BY <1>1 DEF IInv, TypeOK, RefuseStep, scanVars, groundVars, Positions
  <2>2. ReadShape'
    BY <1>1, ReadStays DEF IInv, RefuseStep
  <2>3. GroundShape'
    BY <1>1, GroundStays DEF IInv, RefuseStep
  <2> QED BY <2>1, <2>2, <2>3 DEF IInv
<1>2. CASE EndRules
  <2>1. TypeOK'
    BY <1>2 DEF IInv, TypeOK, EndRules, scanVars, groundVars, Positions
  <2>2. ReadShape'
    BY <1>2, ReadStays DEF IInv, EndRules
  <2>3. GroundShape'
    BY <1>2, GroundStays DEF IInv, EndRules, scanVars
  <2> QED BY <2>1, <2>2, <2>3 DEF IInv
<1>3. CASE EndGround
  <2>0. phase = "ground" /\ at \in 1..(Len(steps) + 1) /\ Len(steps) \in Nat
    BY <1>3 DEF EndGround, IInv, TypeOK
  <2>1. TypeOK'
    BY <1>3 DEF IInv, TypeOK, EndGround, scanVars, groundVars, Positions
  <2>2. ReadShape'
    BY <1>3, ReadStays DEF IInv, EndGround
  <2>3. SubmitsHold /\ expecting /\ (at = Len(steps) + 1 \/ truncateAt # 0)
    BY <1>3, <2>0 DEF IInv, GroundShape, EndGround
  <2>4. GroundShape'
    BY <1>3, <2>3, GroundStays DEF IInv, EndGround, scanVars
  <2> QED BY <2>1, <2>2, <2>4 DEF IInv
<1>4. CASE Taken
  <2>1. UNCHANGED <<driver, steps, phase, route, anchored, scanVars, chosen, groundVars>>
    BY <1>4 DEF Taken, vars
  <2>2. TypeOK'
    BY <2>1 DEF IInv, TypeOK, scanVars, groundVars, Positions
  <2>3. ReadShape'
    BY <2>1, ReadStays DEF IInv
  <2>4. GroundShape'
    <3>1. phase \in {"ready", "refused"} /\ UNCHANGED expecting
      BY <1>4, <2>1 DEF Taken, scanVars
    <3> QED BY <2>1, <3>1, GroundStays DEF IInv, GroundShape
  <2> QED BY <2>2, <2>3, <2>4 DEF IInv
<1>5. ASSUME NEW c \in SUBSET Positions, TakeEntry(c) PROVE IInv'
  <2>1. TypeOK'
    BY <1>5 DEF IInv, TypeOK, TakeEntry, ChosenFills, scanVars, groundVars, Positions, Anchors
  <2>2. ReadShape'
    BY <1>5, ReadStays DEF IInv, TakeEntry
  <2>3. at = 1 /\ SubmitsHold /\ expecting /\ driver \in {"http", "browser"}
    BY <1>5 DEF TakeEntry, ChosenFills, IInv, GroundShape, TypeOK
  <2>4. GroundShape'
    BY <1>5, <2>3, GroundStays DEF IInv, TakeEntry, scanVars
  <2> QED BY <2>1, <2>2, <2>4 DEF IInv
<1>6. ASSUME NEW c \in SUBSET Positions, RefuseEntry(c) PROVE IInv'
  <2>1. TypeOK'
    BY <1>6 DEF IInv, TypeOK, RefuseEntry, scanVars, groundVars, Positions
  <2>2. ReadShape'
    BY <1>6, ReadStays DEF IInv, RefuseEntry
  <2>3. GroundShape'
    BY <1>6, GroundStays DEF IInv, RefuseEntry, scanVars
  <2> QED BY <2>1, <2>2, <2>3 DEF IInv
<1> QED BY <1>1, <1>2, <1>3, <1>4, <1>5, <1>6

-----------------------------------------------------------------------------
(* Walking one step: the anchors move as in the first scan, so an absence  *)
(* that is kept has the anchor it was accepted for, and a live one.        *)
LEMMA GroundInv ==
  ASSUME IInv, NEW reported, NEW listed, NEW after, GroundStep(reported, listed, after)
  PROVE  IInv'
<1> DEFINE missed == Missed(reported, listed, after)
<1>1. /\ phase = "ground" /\ driver = "browser" /\ at \in 1..Len(steps) /\ Len(steps) \in Nat
      /\ truncateAt = 0 /\ Step \in Menu /\ Positions = 1..Len(steps)
      /\ UNCHANGED <<driver, steps, phase, scanVars, chosen>> /\ at' = at + 1
      /\ route' = RouteAfter(Step) /\ anchored' = AnchorAfter(Step)
  BY DEF IInv, TypeOK, GroundShape, GroundStep, Step, Positions
<1>2. /\ gaps' = IF missed THEN gaps \cup {at} ELSE gaps
      /\ truncateAt' = IF missed /\ Step.action \in Interaction THEN at ELSE truncateAt
      /\ liveAnchor' = LiveAfter(missed) /\ runtime' \subseteq runtime \cup {at}
  BY DEF GroundStep, TruncatesAt
<1>3. TypeOK'
  <2>1. route' \in Routes \cup {NoRoute} /\ anchored' \in Anchors
    BY <1>1, AfterTypes DEF IInv, TypeOK
  <2>2. liveAnchor' \in Anchors
    BY <1>1, <1>2, <2>1 DEF LiveAfter, IInv, TypeOK, Anchors
  <2>3. gaps' \subseteq 1..Len(steps) /\ runtime' \subseteq 1..Len(steps) /\ truncateAt' \in 0..Len(steps)
    BY <1>1, <1>2 DEF IInv, TypeOK
  <2> HIDE DEF missed
  <2> QED BY <1>1, <2>1, <2>2, <2>3 DEF IInv, TypeOK, scanVars, Positions
<1>4. ReadShape'
  <2>1. phase' \notin {"rules", "entry"} /\ UNCHANGED <<driver, steps, scanVars>>
    BY <1>1
  <2> QED BY <2>1, ReadStays DEF IInv
<1>5. Onr(steps, at - 1, route) /\ Anc(steps, at - 1, anchored)
  BY <1>1, Same DEF IInv, GroundShape
<1>6. Onr(steps, at, route')
  <2>1. Onr(steps, (at - 1) + 1, IF Navigates(steps[(at - 1) + 1]) THEN steps[(at - 1) + 1].route ELSE route)
    BY <1>1, <1>5, NextRoute
  <2>2. (at - 1) + 1 = at
    BY <1>1
  <2> QED BY <2>1, <2>2, <1>1 DEF RouteAfter, Step
<1>7. Anc(steps, at, anchored')
  <2>1. route' # Unset
    BY <1>1, AfterTypes DEF IInv, TypeOK
  <2>2. (at - 1) + 1 = at /\ at - 1 \in Nat
    BY <1>1
  <2>3. anchored' = IF steps[at].action \in Positive THEN route'
                    ELSE IF steps[at].action = "goto" THEN Unset ELSE anchored
    BY <1>1 DEF AnchorAfter, Step
  <2>4. ASSUME NEW i \in Nat, i = at - 1 PROVE Anc(steps, i + 1, anchored')
    BY <2>1, <2>2, <2>3, <2>4, <1>5, <1>6, NextAnchor
  <2> QED BY <2>2, <2>4
<1>8. /\ \A i, r : OnRoute(i, r)' <=> Onr(steps, i, r)
      /\ \A i, v : AnchoredAt(i, v)' <=> Anc(steps, i, v)
      /\ \A i, r : OnRoute(i, r) <=> Onr(steps, i, r)
  BY <1>1 DEF OnRoute, AnchoredAt, Onr, Anc
<1>9. missed => Step.action \in LocatorActions \cup {"judge", "expect_requests"}
  BY DEF Missed, AnchorIsGap, Absence, LocatorActions
<1>10. Absence(Step) /\ ~missed => liveAnchor = route /\ route # Unset /\ liveAnchor' = route /\ route' = route
  <2> SUFFICES ASSUME Absence(Step), ~missed
               PROVE  liveAnchor = route /\ route # Unset /\ liveAnchor' = route /\ route' = route
    OBVIOUS
  <2>1. PICK r \in Routes \cup {NoRoute} : OnRoute(at - 1, r) /\ AnchoredAt(at - 1, r)
    BY <1>1 DEF IInv, ReadShape, Step
  <2>2. r = route /\ r = anchored
    BY <2>1, <1>1, <1>5, Same, OneRoute, OneAnchor
  <2>3. r # Unset
    BY PlanAssumption
  <2>4. liveAnchor = route
    BY <2>2, <2>3 DEF Missed, AnchorIsGap
  <2>5. ~Navigates(Step) /\ Step.action \notin Positive \cup {"goto"}
    BY DEF Absence, Navigates, Positive
  <2> QED BY <2>2, <2>3, <2>4, <2>5, <1>1, <1>2 DEF LiveAfter, RouteAfter
<1>11. liveAnchor' # Unset => \E j \in 1..at :
         /\ steps[j].action \in Positive /\ j \notin gaps' /\ Onr(steps, j, liveAnchor')
         /\ \A k \in j..at : steps[k].action # "goto"
  <2>0. at \notin gaps
    BY <1>1 DEF IInv, GroundShape
  <2>1. CASE Step.action \in Positive /\ ~missed
    <3>1. liveAnchor' = route' /\ gaps' = gaps
      BY <2>1, <1>1, <1>2 DEF LiveAfter
    <3>2. \A k \in at..at : k = at
      BY <1>1
    <3>3. Step.action # "goto"
      BY <2>1 DEF Positive
    <3> QED BY <2>0, <2>1, <3>1, <3>2, <3>3, <1>1, <1>6 DEF Step
  <2>2. CASE ~(Step.action \in Positive /\ ~missed) /\ Step.action # "goto" /\ liveAnchor # Unset
    <3>1. liveAnchor' = liveAnchor
      BY <2>2, <1>2 DEF LiveAfter
    <3>2. PICK j \in 1..(at - 1) :
            /\ steps[j].action \in Positive /\ j \notin gaps /\ OnRoute(j, liveAnchor)
            /\ \A k \in j..(at - 1) : steps[k].action # "goto"
      BY <2>2 DEF IInv, GroundShape
    <3>3. \A k \in j..at : k \in j..(at - 1) \/ k = at
      BY <1>1
    <3>4. j \in 1..at /\ j # at /\ j \notin gaps'
      BY <3>2, <1>1, <1>2
    <3> QED BY <2>2, <3>1, <3>2, <3>3, <3>4, <1>8 DEF Step
  <2>3. CASE ~(Step.action \in Positive /\ ~missed) /\ (Step.action = "goto" \/ liveAnchor = Unset)
    BY <2>3, <1>2 DEF LiveAfter
  <2> QED BY <2>1, <2>2, <2>3
<1>12. \A i \in 1..at : Absence(steps[i]) /\ i \notin gaps' =>
         \E j \in 1..(i - 1) : j \notin gaps' /\ Vouches(j, i)
  <2> SUFFICES ASSUME NEW i \in 1..at, Absence(steps[i]), i \notin gaps'
               PROVE  \E j \in 1..(i - 1) : j \notin gaps' /\ Vouches(j, i)
    OBVIOUS
  <2>1. CASE i # at
    <3>1. i \in 1..(at - 1) /\ i \notin gaps
      BY <2>1, <1>1, <1>2
    <3>2. PICK j \in 1..(i - 1) : j \notin gaps /\ Vouches(j, i)
      BY <3>1 DEF IInv, GroundShape
    <3>3. j # at
      BY <3>1, <1>1
    <3> QED BY <3>2, <3>3, <1>2
  <2>2. CASE i = at
    <3>1. ~missed
      BY <2>2, <1>2
    <3>2. liveAnchor = route /\ route # Unset /\ liveAnchor' = route /\ route' = route
      BY <2>2, <3>1, <1>10 DEF Step
    <3>3. PICK j \in 1..at :
            /\ steps[j].action \in Positive /\ j \notin gaps' /\ Onr(steps, j, liveAnchor')
            /\ \A k \in j..at : steps[k].action # "goto"
      BY <3>2, <1>11
    <3>4. j # at
      BY <3>3, <2>2 DEF Absence, Positive
    <3>5. OnRoute(j, route) /\ OnRoute(at, route) /\ route \in Routes \cup {NoRoute}
      BY <3>2, <3>3, <1>6, <1>8 DEF IInv, TypeOK
    <3>6. Vouches(j, i)
      BY <3>3, <3>5, <2>2 DEF Vouches
    <3>7. j \in 1..(i - 1)
      BY <3>4, <2>2, <1>1
    <3> QED BY <3>3, <3>6, <3>7
  <2> QED BY <2>1, <2>2
<1>13. GroundShape'
  <2>1. /\ gaps' \subseteq 1..at
        /\ truncateAt' # 0 => truncateAt' = at /\ at \in gaps' /\ Step.action \in Interaction
    BY <1>1, <1>2 DEF IInv, GroundShape
  <2>2. \A g \in gaps' : steps[g].action \in Interaction => g = truncateAt'
    <3> SUFFICES ASSUME NEW g \in gaps', steps[g].action \in Interaction PROVE g = truncateAt'
      OBVIOUS
    <3>1. CASE g \in gaps
      BY <3>1, <1>1 DEF IInv, GroundShape, TypeOK
    <3>2. CASE g \notin gaps
      BY <3>2, <1>2 DEF Step
    <3> QED BY <3>1, <3>2
  <2>3. \A g \in gaps' : steps[g].action \in LocatorActions \cup {"judge", "expect_requests"}
    <3> SUFFICES ASSUME NEW g \in gaps'
                 PROVE  steps[g].action \in LocatorActions \cup {"judge", "expect_requests"}
      OBVIOUS
    <3>1. CASE g \in gaps
      BY <3>1 DEF IInv, GroundShape
    <3>2. CASE g \notin gaps
      BY <3>2, <1>2, <1>9 DEF Step
    <3> QED BY <3>1, <3>2
  <2>4. \A j, i : Vouches(j, i)' <=> Vouches(j, i)
    BY <1>1 DEF Vouches, OnRoute
  <2>5. SubmitsHold' /\ expecting'
    BY <1>1 DEF IInv, GroundShape, SubmitsHold, Positions, scanVars
  <2>6. at' - 1 = at
    BY <1>1
  <2>7. OnRoute(at - 1, route)' /\ AnchoredAt(at - 1, anchored)'
    <3>1. at' - 1 = at /\ steps' = steps
      BY <1>1
    <3> QED BY <3>1, <1>6, <1>7 DEF OnRoute, AnchoredAt, Onr, Anc
  <2>8. \A i \in 1..at : Absence(steps[i]) /\ i \notin gaps' =>
         \E j \in 1..(i - 1) : j \notin gaps' /\ Vouches(j, i)'
    BY <1>12, <2>4
  <2>9. liveAnchor' # Unset => \E j \in 1..at :
         /\ steps[j].action \in Positive /\ j \notin gaps' /\ OnRoute(j, liveAnchor)'
         /\ \A k \in j..at : steps[k].action # "goto"
    BY <1>11, <1>8
  <2> HIDE DEF missed
  <2>10. /\ phase' = "ground" /\ driver' = "browser" /\ steps' = steps
    BY <1>1
  <2>11. truncateAt' # 0 => steps'[truncateAt'].action \in Interaction
    BY <1>1, <2>1 DEF Step
  <2>12. /\ gaps' \subseteq 1..(at' - 1)
         /\ truncateAt' # 0 => truncateAt' = at' - 1 /\ truncateAt' \in gaps'
    BY <2>1, <2>6
  <2>13. liveAnchor' # Unset => \E j \in 1..(at' - 1) :
           /\ steps'[j].action \in Positive /\ j \notin gaps' /\ OnRoute(j, liveAnchor)'
           /\ \A k \in j..(at' - 1) : steps'[k].action # "goto"
    BY <2>6, <2>9, <2>10
  <2>14. \A i \in 1..(at' - 1) : Absence(steps'[i]) /\ i \notin gaps' =>
         \E j \in 1..(i - 1) : j \notin gaps' /\ Vouches(j, i)'
    BY <2>6, <2>8, <2>10
  <2>15. /\ \A g \in gaps' : steps'[g].action \in Interaction => g = truncateAt'
         /\ \A g \in gaps' : steps'[g].action \in LocatorActions \cup {"judge", "expect_requests"}
    BY <2>2, <2>3, <2>10
  <2> QED BY <2>5, <2>7, <2>10, <2>11, <2>12, <2>13, <2>14, <2>15 DEF GroundShape
<1> QED BY <1>3, <1>4, <1>13 DEF IInv
-----------------------------------------------------------------------------
LEMMA Invariant == Spec => []IInv
<1>1. IInv /\ [Next]_vars => IInv'
  <2> SUFFICES ASSUME IInv, [Next]_vars PROVE IInv'
    OBVIOUS
  <2>1. CASE UNCHANGED vars
    <3>1. UNCHANGED <<driver, steps, phase, route, anchored, scanVars, chosen, groundVars>>
      BY <2>1 DEF vars
    <3>2. TypeOK'
      BY <3>1 DEF IInv, TypeOK, scanVars, groundVars, Positions
    <3>3. ReadShape'
      BY <3>1, ReadStays DEF IInv
    <3>4. ASSUME phase = "ground" PROVE GroundShape'
      <4>1. OnRoute(at - 1, route)' /\ AnchoredAt(at - 1, anchored)'
        BY <3>1, <3>4 DEF IInv, GroundShape, OnRoute, AnchoredAt, groundVars
      <4> QED BY <3>1, <3>4, <4>1 DEF IInv, GroundShape, OnRoute, Vouches, SubmitsHold,
                 Positions, groundVars, scanVars
    <3>5. ASSUME phase # "ground" PROVE GroundShape'
      <4>1. UNCHANGED expecting
        BY <3>1 DEF scanVars
      <4> QED BY <3>1, <3>5, <4>1, GroundStays DEF IInv, GroundShape
    <3> QED BY <3>2, <3>3, <3>4, <3>5 DEF IInv
  <2>2. CASE Validate
    BY <2>2, ReadInv, ScanEndsInv DEF Validate
  <2>3. CASE TakeIn
    BY <2>3, ScanEndsInv DEF TakeIn
  <2>4. CASE Ground
    BY <2>4, GroundInv, ScanEndsInv DEF Ground
  <2>5. CASE Taken
    BY <2>5, ScanEndsInv
  <2> QED BY <2>1, <2>2, <2>3, <2>4, <2>5 DEF Next
<1> QED BY <1>1, InitInv, PTL DEF Spec

(***************************************************************************)
(* The scans keep their types.                                             *)
(***************************************************************************)
THEOREM TypeCorrect == Spec => []TypeOK
<1>1. IInv => TypeOK
  BY DEF IInv
<1> QED BY <1>1, Invariant, PTL

(***************************************************************************)
(* Every absence that the driver runs has a positive assertion before it   *)
(* that the driver runs too, on the same page.                             *)
(***************************************************************************)
THEOREM AbsencesAnchored == Spec => []AbsenceIsAnchored
<1>1. IInv => AbsenceIsAnchored
  <2> SUFFICES ASSUME IInv, phase = "ready", driver = "browser",
                      NEW i \in Positions, Absence(steps[i]), Runs(i)
               PROVE  \E j \in 1..(i - 1) : Runs(j) /\ Vouches(j, i)
    BY DEF AbsenceIsAnchored
  <2>1. /\ i \in 1..Len(steps) /\ Len(steps) \in Nat /\ at \in 1..(Len(steps) + 1)
        /\ truncateAt \in Nat /\ i \notin gaps /\ (truncateAt # 0 => i < truncateAt)
    BY DEF IInv, TypeOK, Positions, Runs
  <2>2. i \in 1..(at - 1)
    BY <2>1 DEF IInv, GroundShape
  <2>3. PICK j \in 1..(i - 1) : j \notin gaps /\ Vouches(j, i)
    BY <2>1, <2>2 DEF IInv, GroundShape
  <2> QED BY <2>1, <2>3 DEF Runs
<1> QED BY <1>1, Invariant, PTL

(***************************************************************************)
(* Every {{name}} of an accepted plan is bound by a capture and by no      *)
(* step, or by exactly one step, and that one comes before.                *)
(***************************************************************************)
THEOREM NamesAreBound == Spec => []BoundBeforeUse
<1>1. IInv => BoundBeforeUse
  <2> SUFFICES ASSUME IInv, phase = "ready", NEW i \in Positions, NEW x \in steps[i].uses
               PROVE  \/ x \in Bound /\ Binders(Len(steps) + 1, x) = {}
                      \/ \E j \in 1..(i - 1) : Binders(Len(steps) + 1, x) = {j}
    BY DEF BoundBeforeUse
  <2>0. Len(steps) \in Nat /\ i \in 1..Len(steps) /\ Positions = 1..Len(steps)
        /\ (Len(steps) + 1) - 1 = Len(steps)
    BY DEF IInv, TypeOK, Positions
  <2>1. \A j \in Positions : steps[j].action = "read_message" => steps[j].binds \notin Bound
    BY DEF IInv, ReadShape
  <2>2. CASE x \in Bound
    BY <2>0, <2>1, <2>2 DEF Binders
  <2>3. CASE x \notin Bound
    <3>1. PICK j \in 1..(i - 1) : steps[j].action = "read_message" /\ steps[j].binds = x
      BY <2>0, <2>3 DEF IInv, ReadShape, Binders
    <3>2. \A k \in 1..Len(steps) : steps[k].action = "read_message" /\ steps[k].binds = x => k = j
      <4> SUFFICES ASSUME NEW k \in 1..Len(steps), steps[k].action = "read_message",
                          steps[k].binds = x, k # j
                   PROVE  FALSE
        OBVIOUS
      <4>1. j \in 1..Len(steps)
        BY <2>0, <3>1
      <4>2. CASE k < j
        <5>1. k \in 1..(j - 1)
          BY <4>2, <4>1
        <5> QED BY <5>1, <4>1, <2>0, <3>1 DEF IInv, ReadShape
      <4>3. CASE j < k
        <5>1. j \in 1..(k - 1)
          BY <4>3, <4>1
        <5> QED BY <5>1, <4>1, <2>0, <3>1 DEF IInv, ReadShape
      <4> QED BY <4>1, <4>2, <4>3
    <3>3. Binders(Len(steps) + 1, x) = {j}
      BY <2>0, <3>1, <3>2 DEF Binders
    <3> QED BY <3>3
  <2> QED BY <2>2, <2>3
<1> QED BY <1>1, Invariant, PTL

(***************************************************************************)
(* Every locator step of a plan the browser driver is handed has a word    *)
(* that the grounding looks for.                                           *)
(***************************************************************************)
THEOREM LocatorsGrounded == Spec => []LocatorsHaveWords
<1>1. IInv => LocatorsHaveWords
  <2> SUFFICES ASSUME IInv, driver = "browser", NEW i \in Positions,
                      steps[i].action \in LocatorActions, HasLocator(steps[i])
               PROVE  Words(steps[i]) # {}
    BY DEF LocatorsHaveWords
  <2>1. Legal(driver, steps[i]) /\ steps[i].action # "query"
    BY DEF IInv, ReadShape, LocatorActions, Interaction, Positive
  <2>2. LocatorOf(steps[i]) # "refused"
    BY <2>1 DEF Legal, BrowserAllowed, LocatorAllowed
  <2>3. LocatorOf(steps[i]) = Target(steps[i].keys) /\ steps[i].scope \in ScopesOf(Target(steps[i].keys))
    BY <2>2 DEF LocatorOf
  <2>4. LocatorOf(steps[i]) \in {"role-any", "nth"} => steps[i].scope # "none"
    BY <2>3 DEF ScopesOf
  <2>5. CASE steps[i].scope # "none"
    <3>1. "scope" \in Words(steps[i])
      BY <2>5 DEF Words
    <3> QED BY <3>1
  <2>6. CASE LocatorOf(steps[i]) \notin {"role-any", "nth", "refused"}
    <3>1. "target" \in Words(steps[i])
      BY <2>6 DEF Words
    <3> QED BY <3>1
  <2> QED BY <2>2, <2>4, <2>5, <2>6
<1> QED BY <1>1, Invariant, PTL

(***************************************************************************)
(* A validation submit the driver runs follows a fill that it runs, with   *)
(* the report's own literal.                                               *)
(***************************************************************************)
THEOREM SubmitsReported == Spec => []SubmitsWhatTheReportTypes
<1>1. IInv => SubmitsWhatTheReportTypes
  <2> SUFFICES ASSUME IInv, phase = "ready", NEW i \in Positions,
                      steps[i].effect = "validation", Runs(i)
               PROVE  \E j \in 1..(i - 1) :
                        Runs(j) /\ steps[j].action = "fill" /\ steps[j].literal = "report"
    BY DEF SubmitsWhatTheReportTypes
  <2>1. Len(steps) \in Nat /\ i \in 1..Len(steps) /\ truncateAt \in Nat
    BY DEF IInv, TypeOK, Positions
  <2>2. steps[i].action = "click"
    <3>1. EffectAllowed(steps[i])
      BY DEF IInv, ReadShape, Legal
    <3> QED BY <3>1 DEF EffectAllowed
  <2>3. PICK j \in 1..(i - 1) : steps[j].action = "fill" /\ steps[j].literal = "report"
    BY <2>2 DEF IInv, GroundShape, SubmitsHold
  <2>4. j \in gaps => j = truncateAt
    BY <2>3 DEF IInv, GroundShape, Interaction
  <2> QED BY <2>1, <2>3, <2>4 DEF Runs
<1> QED BY <1>1, Invariant, PTL

(***************************************************************************)
(* What the browser driver is handed is one of the plans QaBrowserCase     *)
(* starts from.                                                            *)
(***************************************************************************)
THEOREM PlanHandedOn == Spec => []DriverGetsAPlan
<1>1. IInv => DriverGetsAPlan
  <2> SUFFICES ASSUME IInv, phase = "ready", driver = "browser", NEW overlays \in BOOLEAN
               PROVE  /\ Entry(Len(steps))!GroundedPlan(Handed(overlays))
                      /\ Entry(Len(steps))!ValidPlan(Handed(overlays))
                      /\ Handed(overlays) \in Entry(Len(steps))!PlanShape
    BY DEF DriverGetsAPlan
  <2> DEFINE p == Handed(overlays)
  <2>1. /\ Len(steps) \in Nat /\ Positions = 1..Len(steps) /\ truncateAt \in 0..Len(steps)
        /\ gaps \subseteq Positions /\ steps \in Seq(Menu) /\ \A i \in Positions : steps[i] \in StepShape
    BY PlanAssumption DEF IInv, TypeOK, Positions
  <2>2. p.gaps = gaps /\ p.truncateAt = truncateAt /\ \A i \in Positions : p.kind[i] = KindOf(steps[i])
    BY DEF Handed
  <2>3. \A i \in Positions :
          /\ KindOf(steps[i]) \in Entry(Len(steps))!Kinds
          /\ steps[i].action \in Interaction => KindOf(steps[i]) \in {"click", "submit"}
          /\ steps[i].action = "goto" => KindOf(steps[i]) = "goto"
          /\ steps[i].action = "judge" => KindOf(steps[i]) = "judge"
          /\ steps[i].action \notin Interaction \cup {"goto", "judge", "read_message"}
               => KindOf(steps[i]) = "assert"
    BY DEF KindOf, Interaction, Entry!Kinds, Entry!Acting, Entry!Continuing
  <2>4. Entry(Len(steps))!GroundedPlan(p)
    <3>1. truncateAt # 0 => truncateAt \in gaps /\ steps[truncateAt].action \in Interaction
      BY DEF IInv, GroundShape
    <3>2. \A g \in gaps : g = truncateAt \/ (KindOf(steps[g]) \in {"assert", "judge"} /\
                                            (truncateAt # 0 => g < truncateAt))
      <4> SUFFICES ASSUME NEW g \in gaps, g # truncateAt
                   PROVE  KindOf(steps[g]) \in {"assert", "judge"} /\ (truncateAt # 0 => g < truncateAt)
        OBVIOUS
      <4>1. steps[g].action \in LocatorActions \cup {"judge", "expect_requests"} /\ steps[g].action \notin Interaction
        BY DEF IInv, GroundShape
      <4>2. KindOf(steps[g]) \in {"assert", "judge"}
        <5>1. g \in Positions
          BY <2>1
        <5>2. steps[g].action = "judge" \/ steps[g].action \notin Interaction \cup {"goto", "judge", "read_message"}
          BY <4>1 DEF LocatorActions, Positive, Interaction
        <5> QED BY <5>1, <5>2, <2>3
      <4>3. g \in 1..(at - 1) /\ (truncateAt # 0 => truncateAt = at - 1) /\ at \in Int
        BY <2>1 DEF IInv, GroundShape, TypeOK
      <4> QED BY <4>2, <4>3
    <3>3. \A g \in gaps : g \in Positions
      BY <2>1
    <3>4. truncateAt # 0 => truncateAt \in gaps /\ KindOf(steps[truncateAt]) \in {"click", "submit"}
      BY <3>1, <3>3, <2>3
    <3> HIDE DEF p
    <3> QED BY <2>2, <3>2, <3>3, <3>4 DEF Entry!GroundedPlan, Entry!Acting, Entry!Continuing
  <2>5. Entry(Len(steps))!ValidPlan(p)
    <3>1. PICK i \in Positions : Expects(steps[i]) /\ Legal(driver, steps[i])
      BY DEF IInv, ReadShape, GroundShape
    <3>2. KindOf(steps[i]) \in {"assert", "judge"}
      <4>1. steps[i].action # "request"
        BY <3>1 DEF Legal
      <4>2. steps[i].action \in (Positive \cup {"expect_not_visible", "expect_url", "expect_requests", "judge", "query"})
        BY <3>1, <4>1 DEF Expects
      <4>3. steps[i].action = "judge" \/ steps[i].action \notin Interaction \cup {"goto", "judge", "read_message"}
        BY <4>2 DEF Positive, Interaction
      <4> QED BY <4>3, <2>3
    <3>3. \A k \in Positions : KindOf(steps[k]) = "read_message" =>
            \E j \in 1..(k - 1) : KindOf(steps[j]) \in {"click", "submit", "goto"}
      <4> SUFFICES ASSUME NEW k \in Positions, KindOf(steps[k]) = "read_message"
                   PROVE  \E j \in 1..(k - 1) : KindOf(steps[j]) \in {"click", "submit", "goto"}
        OBVIOUS
      <4>1. steps[k].action = "read_message"
        BY <2>3 DEF KindOf
      <4>2. PICK j \in 1..(k - 1) : Touches(steps[j])
        BY <4>1 DEF IInv, ReadShape
      <4>3. j \in Positions
        BY <2>1
      <4>4. steps[j].action \in Interaction \/ steps[j].action = "goto"
        BY <4>2 DEF Touches
      <4>5. KindOf(steps[j]) \in {"click", "submit", "goto"}
        BY <4>3, <4>4, <2>3
      <4> QED BY <4>2, <4>5
    <3> HIDE DEF p
    <3> QED BY <2>1, <2>2, <3>1, <3>2, <3>3
               DEF Entry!ValidPlan, Entry!Steps, Entry!Acting, Entry!Continuing
  <2>6. p \in Entry(Len(steps))!PlanShape
    <3>1. [i \in Positions |-> KindOf(steps[i])] \in [1..Len(steps) -> Entry(Len(steps))!Kinds]
      <4>1. \A i \in 1..Len(steps) : KindOf(steps[i]) \in Entry(Len(steps))!Kinds
        BY <2>1, <2>3
      <4> QED BY <2>1, <4>1
    <3> QED BY <2>1, <3>1 DEF Handed, Entry!PlanShape, Entry!Steps
  <2> QED BY <2>4, <2>5, <2>6
<1> QED BY <1>1, Invariant, PTL
=============================================================================
