--------------------------- MODULE LEDPanelProofs ---------------------------
(***************************************************************************)
(* Proofs about the light, for every clock modulus, every set of durations *)
(* and every loop time.                                                    *)
(***************************************************************************)
EXTENDS LEDPanel, TLAPS

\* millis() read a little later is a clock value again.
LEMMA ClockStep ==
  ASSUME NEW t \in Clock, NEW d \in Nat
  PROVE  (t + d) % W \in Clock
BY WAssumption DEF Clock

\* LED::set turns a light into a light.
LEMMA SetType ==
  ASSUME NEW l \in Light, NEW c \in Color, NEW dT \in Nat, NEW t \in Clock
  PROVE  Set(l, c, dT, t) \in Light
BY DEF Light, Set, Color, OFF, RED, GREEN, YELLOW

\* LED::blinkContinuous turns a light into a light.
LEMMA BlinkType ==
  ASSUME NEW l \in Light, NEW c \in Color, NEW h \in Nat, NEW lo \in Nat,
         NEW lim \in Nat, NEW t \in Clock
  PROVE  BlinkContinuous(l, c, h, lo, lim, t) \in Light
BY DEF Light, BlinkContinuous, Color, OFF, RED, GREEN, YELLOW

\* ledUpdate turns a light into a light.
LEMMA UpdateType ==
  ASSUME NEW l \in Light, NEW t \in Clock, NEW u \in Clock
  PROVE  Update(l, t, u) \in Light
<1> DEFINE e == EndBlink(l, t)
<1>1. e \in Light
  BY DEF Light, EndBlink, Color, OFF, RED, GREEN, YELLOW
<1>2. ToggleBlink(e, t, u) \in Light
  <2> HIDE DEF e
  <2>1. e \in Light
    BY <1>1
  <2> QED
    BY <2>1 DEF Light, ToggleBlink, Color, OFF, RED, GREEN, YELLOW
<1> QED
  BY <1>2 DEF Update, Light, Color, OFF, RED, GREEN, YELLOW

\* The light keeps its type under every sequence of set, blinkContinuous
\* and ledUpdate, across the wrap of millis().
THEOREM TypeCorrect == Spec => []TypeOK
<1>1. Init => TypeOK
  <2> SUFFICES ASSUME Init
               PROVE  TypeOK
    OBVIOUS
  <2>1. PICK junk \in Clock : led = NewLED(OFF, now, junk)
    BY DEF Init
  <2>2. now \in Clock /\ junk \in Nat
    BY WAssumption DEF Init, Clock
  <2>3. led \in Light
    BY <2>1, <2>2 DEF NewLED, Light, Color, OFF, RED, GREEN, YELLOW
  <2>4. age \in 0 .. AgeCap /\ phaseAge \in 0 .. AgeCap
    BY PanelAssumption DEF Init
  <2>5. base \in Color /\ nested \in BOOLEAN
    BY DEF Init, Color
  <2> QED
    BY <2>2, <2>3, <2>4, <2>5 DEF TypeOK
<1>2. TypeOK /\ [Next]_vars => TypeOK'
  <2> SUFFICES ASSUME TypeOK, [Next]_vars
               PROVE  TypeOK'
    OBVIOUS
  <2>1. ASSUME NEW c \in Color, NEW dT \in Durations, CallSet(c, dT)
        PROVE  TypeOK'
    <3>1. led' \in Light
      BY <2>1, SetType, PanelAssumption DEF CallSet, TypeOK
    <3> QED
      BY <2>1, <3>1, PanelAssumption
      DEF CallSet, TypeOK, Color, OFF, RED, GREEN, YELLOW
  <2>2. ASSUME NEW c \in Color \ {OFF}, NEW bt \in BlinkTimes, CallBlink(c, bt)
        PROVE  TypeOK'
    <3>1. bt[1] \in Nat /\ bt[2] \in Nat /\ bt[3] \in Nat
      BY PanelAssumption
    <3>2. led' \in Light
      BY <2>2, <3>1, BlinkType DEF CallBlink, TypeOK
    <3>3. age' \in 0 .. AgeCap /\ phaseAge' \in 0 .. AgeCap
      BY <2>2, PanelAssumption DEF CallBlink, TypeOK
    <3>4. base' \in Color /\ nested' \in BOOLEAN
      BY <2>2 DEF CallBlink, TypeOK, Color
    <3> QED
      BY <2>2, <3>2, <3>3, <3>4 DEF CallBlink, TypeOK
  <2>3. ASSUME NEW d \in 0 .. MaxLoop, NEW e \in {0, 1}, LedUpdate(d, e)
        PROVE  TypeOK'
    <3>1. d \in Nat /\ d + e \in Nat /\ now \in Clock /\ led \in Light
      BY PanelAssumption DEF TypeOK
    <3>2. (now + d) % W \in Clock /\ (now + (d + e)) % W \in Clock
      BY <3>1, ClockStep
    <3>3. now + (d + e) = now + d + e
      BY <3>1 DEF Clock
    <3>4. led' \in Light /\ now' \in Clock
      BY <2>3, <3>1, <3>2, <3>3, UpdateType DEF LedUpdate
    <3>5. age' \in 0 .. AgeCap /\ phaseAge' \in 0 .. AgeCap
      BY <2>3, <3>1, PanelAssumption DEF LedUpdate, TypeOK, Capped
    <3> QED
      BY <2>3, <3>4, <3>5 DEF LedUpdate, TypeOK
  <2>4. CASE UNCHANGED vars
    BY <2>4 DEF TypeOK, vars
  <2> QED
    BY <2>1, <2>2, <2>3, <2>4 DEF Next
<1> QED
  BY <1>1, <1>2, PTL DEF Spec

-----------------------------------------------------------------------------
\* The clock: differences of clock values, and reading it d later.
LEMMA ModFacts ==
  ASSUME NEW x \in Int, -W <= x, x < 2 * W
  PROVE  x % W = CASE x < 0 -> x + W
                   [] 0 <= x /\ x < W -> x
                   [] OTHER -> x - W
BY WAssumption

\* A stamp's age grows by d when millis() does, as long as it fits the clock.
LEMMA SinceLater ==
  ASSUME NEW t \in Clock, NEW s \in Clock, NEW d \in Nat, Since(t, s) + d < W
  PROVE  Since((t + d) % W, s) = Since(t, s) + d
<1> DEFINE m == (t + d) % W
<1>1. Since(t, s) = IF t >= s THEN t - s ELSE t - s + W
  BY ModFacts, WAssumption DEF Since, Clock
<1>2. d < W
  BY <1>1, WAssumption DEF Clock
<1>3. m = IF t + d < W THEN t + d ELSE t + d - W
  BY <1>2, ModFacts, WAssumption DEF Clock
<1>4. m \in Clock
  BY <1>2, <1>3, WAssumption DEF Clock
<1>5. Since(m, s) = IF m >= s THEN m - s ELSE m - s + W
  <2> HIDE DEF m
  <2> QED
    BY <1>4, ModFacts, WAssumption DEF Since, Clock
<1> QED
  BY <1>1, <1>3, <1>5, WAssumption DEF Clock

\* A stamp just taken has age 0; ages are natural numbers.
LEMMA SinceFacts ==
  ASSUME NEW t \in Clock, NEW s \in Clock
  PROVE  Since(t, t) = 0 /\ Since(t, s) \in Nat
BY WAssumption DEF Since, Clock

\* A blinking light shows its colour or is dark, and shows the other next.
Alternates(l) == \/ l.state = l.blink /\ l.next_state = OFF
                 \/ l.state = OFF /\ l.next_state = l.blink

\* ledUpdate on a light that does not blink: the pending colour is shown
\* once the time is over.
LEMMA UpdateSteady ==
  ASSUME NEW l \in Light, NEW t \in Clock, NEW u \in Clock, l.blink = OFF
  PROVE  LET r == Update(l, t, u)
         IN  /\ r.blink = OFF /\ r.next_state = l.next_state
             /\ r.highTime = l.highTime /\ r.startTime = l.startTime
             /\ r.endTime = l.endTime
             /\ \/ r.state = l.next_state
                \/ r.state = l.state /\ Since(t, l.startTime) <= l.highTime
<1>1. Since(t, l.startTime) \in Nat /\ l.highTime \in Nat
  BY SinceFacts DEF Light
<1> QED
  BY <1>1 DEF Update, Light

\* ledUpdate on a blinking light: it goes dark for good, stays as it is, or
\* changes to its other half period.
LEMMA UpdateBlinking ==
  ASSUME NEW l \in Light, NEW t \in Clock, NEW u \in Clock,
         l.blink # OFF, Alternates(l)
  PROVE  LET r == Update(l, t, u)
         IN  \/ /\ l.endTime # 0
                /\ r.blink = OFF /\ r.state = OFF /\ r.next_state = OFF
             \/ /\ r.blink = l.blink
                /\ r.startTime = l.startTime /\ r.endTime = l.endTime
                /\ l.endTime # 0 => Since(t, l.startTime) <= l.endTime
                /\ \/ r.state = l.state /\ r.next_state = l.next_state
                   \/ r.state = l.next_state /\ r.next_state = l.state
<1>1. Since(t, l.startTime) \in Nat /\ l.endTime \in Nat
  BY SinceFacts DEF Light
<1>2. CASE l.endTime # 0 /\ Since(t, l.startTime) > l.endTime
  <2> DEFINE e == [l EXCEPT !.blink = OFF, !.next_state = OFF, !.state = OFF]
  <2>1. Update(l, t, u) = ToggleBlink(e, t, u)
    BY <1>2 DEF Update, EndBlink
  <2>2. e \in Light /\ e.state = OFF /\ e.next_state = OFF /\ e.blink = OFF
    BY DEF Light, Color, OFF, RED, GREEN, YELLOW
  <2>3. /\ ToggleBlink(e, t, u).state = OFF
        /\ ToggleBlink(e, t, u).next_state = OFF
        /\ ToggleBlink(e, t, u).blink = OFF
    <3> HIDE DEF e
    <3> QED
      BY <2>2 DEF ToggleBlink, Light
  <2> QED
    BY <1>2, <2>1, <2>3
<1>3. CASE ~(l.endTime # 0 /\ Since(t, l.startTime) > l.endTime)
  <2>1. Update(l, t, u) = ToggleBlink(l, t, u)
    BY <1>3 DEF Update, EndBlink
  <2>2. l.endTime # 0 => Since(t, l.startTime) <= l.endTime
    BY <1>1, <1>3
  <2> QED
    BY <2>1, <2>2 DEF ToggleBlink, Light, Alternates
<1> QED
  BY <1>2, <1>3

-----------------------------------------------------------------------------
\* The inductive invariant on top of the type invariant.
LightInv == BlinkAlternates /\ BlinkBase /\ TimedBound /\ FlashBound

\* LED::set establishes the invariant from any light.
LEMMA SetKeeps ==
  ASSUME TypeOK, TypeOK', LightInv,
         NEW c \in Color, NEW dT \in Durations, CallSet(c, dT)
  PROVE  LightInv'
<1>1. dT \in Nat /\ Fits(dT)
  BY PanelAssumption, TimesFit
<1>2. /\ led'.blink = OFF /\ led'.state = c /\ led'.highTime = dT
      /\ led'.startTime = now
      /\ led'.next_state = CASE dT = 0 -> c
                             [] dT # 0 /\ led.blink # OFF -> OFF
                             [] OTHER -> led.state
  BY <1>1 DEF CallSet, Set, TypeOK, Light
<1>3. Since(now', led'.startTime) = 0 /\ age' = 0
  BY <1>2, SinceFacts DEF CallSet, TypeOK
<1>4. ~nested' => led'.next_state = base'
  <2>1. CASE dT = 0
    BY <1>2, <2>1 DEF CallSet
  <2>2. CASE dT # 0 /\ led.blink # OFF
    BY <1>2, <2>2 DEF CallSet
  <2>3. CASE dT # 0 /\ led.blink = OFF
    BY <1>2, <2>3 DEF CallSet
  <2> QED
    BY <2>1, <2>2, <2>3
<1>5. age' <= Since(now', led'.startTime)
      /\ Since(now', led'.startTime) <= led'.highTime + 1
  BY <1>1, <1>2, <1>3
<1> QED
  BY <1>1, <1>2, <1>4, <1>5
  DEF LightInv, BlinkAlternates, BlinkBase, TimedBound, FlashBound

\* LED::blinkContinuous keeps it.
LEMMA BlinkKeeps ==
  ASSUME TypeOK, TypeOK', LightInv,
         NEW c \in Color \ {OFF}, NEW bt \in BlinkTimes, CallBlink(c, bt)
  PROVE  LightInv'
<1>1. CASE led.blink = c
  <2>1. led' = led /\ UNCHANGED <<now, age, base, nested>>
    BY <1>1 DEF CallBlink, BlinkContinuous
  <2> QED
    BY <2>1
    DEF LightInv, BlinkAlternates, BlinkBase, TimedBound, FlashBound
<1>2. CASE led.blink # c
  <2>1. /\ led'.blink = c /\ led'.state = c /\ led'.next_state = OFF
        /\ led'.startTime = now /\ led'.endTime = bt[3]
    BY <1>2 DEF CallBlink, BlinkContinuous, TypeOK, Light
  <2>2. age' = 0 /\ base' = OFF /\ nested' = FALSE /\ now' = now
    BY <1>2 DEF CallBlink
  <2>3. Since(now', led'.startTime) = 0 /\ bt[3] \in Nat /\ Fits(bt[3])
    BY <2>1, <2>2, SinceFacts, PanelAssumption, TimesFit DEF TypeOK
  <2>4. TimedBound'
    BY <2>1, <2>2, <2>3 DEF TimedBound
  <2> QED
    BY <2>1, <2>2, <2>4 DEF LightInv, BlinkAlternates, BlinkBase, FlashBound
<1> QED
  BY <1>1, <1>2

\* The ages after one pass of loop(), while the stamp's age fits the clock.
LEMMA AgesLater ==
  ASSUME TypeOK, NEW d \in 0 .. MaxLoop, NEW e \in {0, 1}, LedUpdate(d, e),
         NEW n \in Nat, Fits(n),
         age <= Since(now, led.startTime), Since(now, led.startTime) <= n + 1
  PROVE  /\ Since((now + d) % W, led.startTime) = Since(now, led.startTime) + d
         /\ Since(now', led.startTime) = Since(now, led.startTime) + d + e
         /\ age' <= Since(now', led.startTime)
<1>1. /\ now \in Clock /\ led.startTime \in Clock /\ d \in Nat /\ d + e \in Nat
      /\ MaxLoop \in Nat /\ d <= MaxLoop /\ e <= 1 /\ e \in Nat /\ age \in Nat
  BY PanelAssumption DEF TypeOK, Light
<1>2. Since(now, led.startTime) \in Nat
  BY <1>1, SinceFacts
<1>3. Since(now, led.startTime) + (d + e) < W /\ Since(now, led.startTime) + d < W
  BY <1>1, <1>2, WAssumption DEF Fits
<1>4. Since((now + d) % W, led.startTime) = Since(now, led.startTime) + d
  BY <1>1, <1>3, SinceLater
<1>5. Since((now + (d + e)) % W, led.startTime) = Since(now, led.startTime) + (d + e)
  BY <1>1, <1>3, SinceLater
<1>6. now' = (now + (d + e)) % W
  BY <1>1 DEF LedUpdate, Clock
<1>7. age' <= age + d + e
  BY <1>1, PanelAssumption DEF LedUpdate, Capped
<1> QED
  BY <1>1, <1>2, <1>4, <1>5, <1>6, <1>7, PanelAssumption DEF LedUpdate, Capped

\* ledUpdate keeps it.
LEMMA UpdateKeeps ==
  ASSUME TypeOK, TypeOK', LightInv,
         NEW d \in 0 .. MaxLoop, NEW e \in {0, 1}, LedUpdate(d, e)
  PROVE  LightInv'
<1> DEFINE t == (now + d) % W
           u == (now + d + e) % W
<1>1. /\ now \in Clock /\ d \in Nat /\ d + e \in Nat /\ e \in Nat /\ e <= 1
      /\ led \in Light /\ led.highTime \in Nat /\ led.endTime \in Nat
      /\ led.startTime \in Clock
  BY PanelAssumption DEF TypeOK, Light
<1>2. t \in Clock /\ u \in Clock
  <2>1. now + d + e = now + (d + e)
    BY <1>1 DEF Clock
  <2> QED
    BY <1>1, <2>1, ClockStep
<1>3. led' = Update(led, t, u) /\ now' = u /\ base' = base /\ nested' = nested
  BY DEF LedUpdate
<1>4. Since(now, led.startTime) \in Nat /\ Since(t, led.startTime) \in Nat
  BY <1>1, <1>2, SinceFacts
<1> HIDE DEF t, u
<1>5. CASE led.blink = OFF
  <2>1. /\ led'.blink = OFF /\ led'.next_state = led.next_state
        /\ led'.highTime = led.highTime /\ led'.startTime = led.startTime
        /\ \/ led'.state = led.next_state
           \/ led'.state = led.state /\ Since(t, led.startTime) <= led.highTime
    BY <1>1, <1>2, <1>3, <1>5, UpdateSteady
  <2>2. ASSUME led.next_state = base, led'.state # base
        PROVE  /\ led.state # base
               /\ Since(t, led.startTime) <= led.highTime
    BY <2>1, <2>2
  <2>3. ASSUME ~nested, led'.state # base
        PROVE  /\ age' <= Since(now', led'.startTime)
               /\ Since(now', led'.startTime) <= led'.highTime + 1
               /\ Fits(led'.highTime)
    <3>1. /\ led.next_state = base
          /\ led.state # base
          /\ Since(t, led.startTime) <= led.highTime
      BY <1>5, <2>2, <2>3 DEF LightInv, FlashBound
    <3>2. /\ age <= Since(now, led.startTime)
          /\ Since(now, led.startTime) <= led.highTime + 1
          /\ Fits(led.highTime)
      BY <1>5, <2>3, <3>1 DEF LightInv, FlashBound
    <3>3. /\ Since(t, led.startTime) = Since(now, led.startTime) + d
          /\ Since(now', led.startTime) = Since(now, led.startTime) + d + e
          /\ age' <= Since(now', led.startTime)
      BY <1>1, <3>2, AgesLater DEF t
    <3> QED
      BY <1>1, <1>4, <2>1, <3>1, <3>2, <3>3
  <2> QED
    BY <1>3, <1>5, <2>1, <2>3
    DEF LightInv, BlinkAlternates, BlinkBase, TimedBound, FlashBound
<1>6. CASE led.blink # OFF
  <2>1. Alternates(led) /\ base = OFF /\ ~nested
    BY <1>6 DEF LightInv, BlinkAlternates, BlinkBase, Alternates
  <2>2. \/ led'.blink = OFF /\ led'.state = OFF /\ led'.next_state = OFF
        \/ /\ led'.blink = led.blink
           /\ led'.startTime = led.startTime /\ led'.endTime = led.endTime
           /\ led.endTime # 0 => Since(t, led.startTime) <= led.endTime
           /\ \/ led'.state = led.state /\ led'.next_state = led.next_state
              \/ led'.state = led.next_state /\ led'.next_state = led.state
    BY <1>1, <1>2, <1>3, <1>6, <2>1, UpdateBlinking
  <2>3. BlinkAlternates' /\ BlinkBase' /\ FlashBound'
    BY <1>3, <1>6, <2>1, <2>2
    DEF BlinkAlternates, BlinkBase, FlashBound, Alternates
  <2>4. ASSUME led'.blink # OFF, led'.endTime # 0
        PROVE  /\ age' <= Since(now', led'.startTime)
               /\ Since(now', led'.startTime) <= led'.endTime + 1
               /\ Fits(led'.endTime)
    <3>1. /\ led'.startTime = led.startTime /\ led'.endTime = led.endTime
          /\ Since(t, led.startTime) <= led.endTime
      BY <2>2, <2>4
    <3>2. /\ age <= Since(now, led.startTime)
          /\ Since(now, led.startTime) <= led.endTime + 1
          /\ Fits(led.endTime)
      BY <1>6, <2>4, <3>1 DEF LightInv, TimedBound
    <3>3. /\ Since(t, led.startTime) = Since(now, led.startTime) + d
          /\ Since(now', led.startTime) = Since(now, led.startTime) + d + e
          /\ age' <= Since(now', led.startTime)
      BY <1>1, <3>2, AgesLater DEF t
    <3> QED
      BY <1>1, <1>4, <3>1, <3>2, <3>3
  <2> QED
    BY <2>3, <2>4 DEF LightInv, TimedBound
<1> QED
  BY <1>5, <1>6

\* The inductive invariant holds of every light in every reachable state.
THEOREM LightInvariant == Spec => []LightInv
<1>1. Init => LightInv
  <2> SUFFICES ASSUME Init
               PROVE  LightInv
    OBVIOUS
  <2>1. PICK junk \in Clock : led = NewLED(OFF, now, junk)
    BY DEF Init
  <2>2. led.blink = OFF /\ led.state = OFF /\ led.next_state = OFF
    BY <2>1 DEF NewLED
  <2> QED
    BY <2>2
    DEF Init, LightInv, BlinkAlternates, BlinkBase, TimedBound, FlashBound
<1>2. TypeOK /\ TypeOK' /\ LightInv /\ [Next]_vars => LightInv'
  <2> SUFFICES ASSUME TypeOK, TypeOK', LightInv, [Next]_vars
               PROVE  LightInv'
    OBVIOUS
  <2>1. ASSUME NEW c \in Color, NEW dT \in Durations, CallSet(c, dT)
        PROVE  LightInv'
    BY <2>1, SetKeeps
  <2>2. ASSUME NEW c \in Color \ {OFF}, NEW bt \in BlinkTimes, CallBlink(c, bt)
        PROVE  LightInv'
    BY <2>2, BlinkKeeps
  <2>3. ASSUME NEW d \in 0 .. MaxLoop, NEW e \in {0, 1}, LedUpdate(d, e)
        PROVE  LightInv'
    BY <2>3, UpdateKeeps
  <2>4. CASE UNCHANGED vars
    BY <2>4
    DEF vars, LightInv, BlinkAlternates, BlinkBase, TimedBound, FlashBound
  <2> QED
    BY <2>1, <2>2, <2>3, <2>4 DEF Next
<1> QED
  BY <1>1, <1>2, TypeCorrect, PTL DEF Spec

\* state and next_state of a blinking light stay in step.
THEOREM BlinkingAlternates == Spec => []BlinkAlternates
<1>1. LightInv => BlinkAlternates
  BY DEF LightInv
<1> QED
  BY <1>1, LightInvariant, PTL

\* A blink with a time limit ends within a pass of its limit, whatever the
\* modulus of millis() and wherever the blink starts.
THEOREM TimedBlinksEnd == Spec => []TimedBlinkEnds
<1>1. TypeOK /\ LightInv => TimedBlinkEnds
  <2> SUFFICES ASSUME TypeOK, LightInv, led.blink # OFF, led.endTime # 0
               PROVE  age <= led.endTime + 1
    BY DEF TimedBlinkEnds
  <2>1. /\ age <= Since(now, led.startTime)
        /\ Since(now, led.startTime) <= led.endTime + 1
    BY DEF LightInv, TimedBound
  <2>2. now \in Clock /\ led.startTime \in Clock /\ age \in Nat /\ led.endTime \in Nat
    BY PanelAssumption DEF TypeOK, Light
  <2>3. Since(now, led.startTime) \in Nat
    BY <2>2, SinceFacts
  <2> QED
    BY <2>1, <2>2, <2>3
<1> QED
  BY <1>1, TypeCorrect, LightInvariant, PTL

\* A temporary colour gives way to the base colour when its time is over.
THEOREM FlashesReturn == Spec => []FlashReturnsToBase
<1>1. TypeOK /\ LightInv => FlashReturnsToBase
  <2> SUFFICES ASSUME TypeOK, LightInv, led.blink = OFF, ~nested,
                      age > led.highTime + 1, led.state # base
               PROVE  FALSE
    BY DEF FlashReturnsToBase
  <2>1. /\ age <= Since(now, led.startTime)
        /\ Since(now, led.startTime) <= led.highTime + 1
    BY DEF LightInv, FlashBound
  <2>2. now \in Clock /\ led.startTime \in Clock /\ age \in Nat /\ led.highTime \in Nat
    BY PanelAssumption DEF TypeOK, Light
  <2>3. Since(now, led.startTime) \in Nat
    BY <2>2, SinceFacts
  <2> QED
    BY <2>1, <2>2, <2>3
<1> QED
  BY <1>1, TypeCorrect, LightInvariant, PTL

-----------------------------------------------------------------------------
\* The operators on views are the same in both specifications.
LEMMA SameViews ==
  ASSUME NEW v, NEW c, NEW b
  PROVE  /\ Abstract!ViewSet(v, c, b) = ViewSet(v, c, b)
         /\ Abstract!ViewBlink(v, c, b) = ViewBlink(v, c, b)
         /\ Abstract!ViewUpdates(v) = ViewUpdates(v)
         /\ Abstract!Color = Color /\ Abstract!OFF = OFF
<1>1. Abstract!Color = Color /\ Abstract!OFF = OFF
  BY DEF Abstract!Color, Color, Abstract!OFF, OFF, Abstract!RED, RED,
         Abstract!GREEN, GREEN, Abstract!YELLOW, YELLOW
<1>2. Abstract!ViewSet(v, c, b) = ViewSet(v, c, b)
  BY <1>1 DEF Abstract!ViewSet, ViewSet
<1>3. Abstract!ViewBlink(v, c, b) = ViewBlink(v, c, b)
  BY <1>1 DEF Abstract!ViewBlink, ViewBlink
<1>4. Abstract!Dark = Dark
  BY <1>1 DEF Abstract!Dark, Dark
<1>5. Abstract!ViewUpdates(v) = ViewUpdates(v)
  BY <1>1, <1>4
  DEF Abstract!ViewUpdates, ViewUpdates, Abstract!ViewToggle, ViewToggle
<1> QED
  BY <1>1, <1>2, <1>3, <1>5

\* Every step of the timed light is a step of the abstract light or leaves
\* its view as it was.
LEMMA StepsMap ==
  ASSUME TypeOK, LightInv, [Next]_vars
  PROVE  [Abstract!Next]_(ViewOf(led))
<1>1. ASSUME NEW c \in Color, NEW dT \in Durations, CallSet(c, dT)
      PROVE  ViewOf(led)' = ViewSet(ViewOf(led), c, dT # 0)
  <2>1. dT \in Nat
    BY PanelAssumption
  <2>2. /\ led'.blink = OFF /\ led'.state = c
        /\ led'.next_state = CASE dT = 0 -> c
                               [] dT # 0 /\ led.blink # OFF -> OFF
                               [] OTHER -> led.state
    BY <1>1, <2>1 DEF CallSet, Set, TypeOK, Light
  <2> QED
    BY <2>2 DEF ViewOf, ViewSet
<1>2. ASSUME NEW c \in Color \ {OFF}, NEW bt \in BlinkTimes, CallBlink(c, bt)
      PROVE  ViewOf(led)' = ViewBlink(ViewOf(led), c, bt[3] # 0)
  <2>1. CASE led.blink = c
    BY <1>2, <2>1 DEF CallBlink, BlinkContinuous, ViewOf, ViewBlink
  <2>2. CASE led.blink # c
    <3>1. /\ led'.blink = c /\ led'.state = c /\ led'.next_state = OFF
          /\ led'.endTime = bt[3]
      BY <1>2, <2>2 DEF CallBlink, BlinkContinuous, TypeOK, Light
    <3>2. c # OFF
      OBVIOUS
    <3> QED
      BY <2>2, <3>1, <3>2 DEF ViewOf, ViewBlink
  <2> QED
    BY <2>1, <2>2
<1>3. ASSUME NEW d \in 0 .. MaxLoop, NEW e \in {0, 1}, LedUpdate(d, e)
      PROVE  ViewOf(led)' \in ViewUpdates(ViewOf(led))
  <2> DEFINE t == (now + d) % W
             u == (now + d + e) % W
  <2>1. now \in Clock /\ d \in Nat /\ d + e \in Nat /\ led \in Light
    BY PanelAssumption DEF TypeOK
  <2>2. t \in Clock /\ u \in Clock
    <3>1. now + d + e = now + (d + e)
      BY <2>1 DEF Clock
    <3> QED
      BY <2>1, <3>1, ClockStep
  <2>3. led' = Update(led, t, u)
    BY <1>3 DEF LedUpdate
  <2> HIDE DEF t, u
  <2>4. CASE led.blink = OFF
    <3>1. /\ led'.blink = OFF /\ led'.next_state = led.next_state
          /\ led'.endTime = led.endTime
          /\ led'.state = led.next_state \/ led'.state = led.state
      BY <2>1, <2>2, <2>3, <2>4, UpdateSteady
    <3> QED
      BY <2>4, <3>1 DEF ViewOf, ViewUpdates
  <2>5. CASE led.blink # OFF
    <3>1. Alternates(led)
      BY <2>5 DEF LightInv, BlinkAlternates, Alternates
    <3>2. \/ /\ led.endTime # 0
             /\ led'.blink = OFF /\ led'.state = OFF /\ led'.next_state = OFF
          \/ /\ led'.blink = led.blink /\ led'.endTime = led.endTime
             /\ \/ led'.state = led.state /\ led'.next_state = led.next_state
                \/ led'.state = led.next_state /\ led'.next_state = led.state
      BY <2>1, <2>2, <2>3, <2>5, <3>1, UpdateBlinking
    <3>3. CASE /\ led.endTime # 0
               /\ led'.blink = OFF /\ led'.state = OFF /\ led'.next_state = OFF
      <4>1. (led'.blink # OFF /\ led'.endTime # 0) = FALSE
        BY <3>3
      <4>2. ViewOf(led)' = Dark
        BY <3>3, <4>1 DEF ViewOf, Dark
      <4>3. ViewOf(led).timed /\ ViewOf(led).blink # OFF
        BY <2>5, <3>3 DEF ViewOf
      <4> QED
        BY <4>2, <4>3 DEF ViewUpdates
    <3>4. CASE /\ led'.blink = led.blink /\ led'.endTime = led.endTime
               /\ led'.state = led.state /\ led'.next_state = led.next_state
      BY <3>4 DEF ViewOf, ViewUpdates
    <3>5. CASE /\ led'.blink = led.blink /\ led'.endTime = led.endTime
               /\ led'.state = led.next_state /\ led'.next_state = led.state
      <4>1. (led.blink # OFF /\ led.endTime # 0)
              = (led'.blink # OFF /\ led'.endTime # 0)
        BY <3>5
      <4>2. ViewOf(led)' = ViewToggle(ViewOf(led))
        BY <3>5, <4>1 DEF ViewOf, ViewToggle
      <4>3. ViewOf(led).blink # OFF
        BY <2>5 DEF ViewOf
      <4> QED
        BY <4>2, <4>3 DEF ViewUpdates
    <3> QED
      BY <3>2, <3>3, <3>4, <3>5
  <2> QED
    BY <2>4, <2>5
<1>4. CASE UNCHANGED vars
  BY <1>4 DEF vars, ViewOf
<1>5. CASE \E c \in Color, dT \in Durations : CallSet(c, dT)
  <2>1. PICK c \in Color, dT \in Durations : CallSet(c, dT)
    BY <1>5
  <2>2. (dT # 0) \in BOOLEAN
    OBVIOUS
  <2>3. \E x \in Color, temp \in BOOLEAN : ViewOf(led)' = ViewSet(ViewOf(led), x, temp)
    BY <1>1, <2>1, <2>2, Zenon
  <2> QED
    BY <2>3, SameViews DEF Abstract!Next, Abstract!SetLight
<1>6. CASE \E c \in Color \ {OFF}, bt \in BlinkTimes : CallBlink(c, bt)
  <2>1. PICK c \in Color \ {OFF}, bt \in BlinkTimes : CallBlink(c, bt)
    BY <1>6
  <2>2. (bt[3] # 0) \in BOOLEAN
    OBVIOUS
  <2>3. \E x \in Color \ {OFF}, timed \in BOOLEAN :
           ViewOf(led)' = ViewBlink(ViewOf(led), x, timed)
    BY <1>2, <2>1, <2>2, Zenon
  <2> QED
    BY <2>3, SameViews DEF Abstract!Next, Abstract!BlinkLight
<1>7. CASE \E d \in 0 .. MaxLoop, e \in {0, 1} : LedUpdate(d, e)
  <2>1. ViewOf(led)' \in ViewUpdates(ViewOf(led))
    BY <1>3, <1>7
  <2> QED
    BY <2>1, SameViews DEF Abstract!Next, Abstract!UpdateLight
<1> QED
  BY <1>4, <1>5, <1>6, <1>7 DEF Next

\* The timed light implements the abstract one that the tracker is built on.
THEOREM LightImplementsView == Spec => ImplementsView
<1>1. Init => Abstract!Init
  <2> SUFFICES ASSUME Init
               PROVE  Abstract!Init
    OBVIOUS
  <2>1. PICK junk \in Clock : led = NewLED(OFF, now, junk)
    BY DEF Init
  <2>2. led.blink = OFF /\ led.state = OFF /\ led.next_state = OFF
    BY <2>1 DEF NewLED
  <2>3. (led.blink # OFF /\ led.endTime # 0) = FALSE
    BY <2>2
  <2>4. ViewOf(led) = Dark
    BY <2>2, <2>3 DEF ViewOf, Dark
  <2> QED
    BY <2>4 DEF Abstract!Init, Abstract!Dark, Dark, Abstract!OFF, OFF
<1>2. TypeOK /\ LightInv /\ [Next]_vars => [Abstract!Next]_(ViewOf(led))
  BY StepsMap
<1> QED
  BY <1>1, <1>2, TypeCorrect, LightInvariant, PTL
  DEF Spec, ImplementsView, Abstract!Spec

-----------------------------------------------------------------------------
\* The measured ages reach beyond both halves of every blink: AgeCap only
\* keeps the state space of a run finite.
CapCovers == \A bt \in BlinkTimes : bt[1] < AgeCap /\ bt[2] < AgeCap

\* While a light blinks, its stamp of the last change is no older than the
\* time really measured since then.
PhaseInv ==
  led.blink # OFF =>
    /\ led.highTime < AgeCap /\ led.lowTime < AgeCap
    /\ MaxLoop + 2 < W
    /\ phaseAge = AgeCap \/ Since(now, led.blinkStartTime) <= phaseAge

\* A stamp never looks older than it is: what wraps only makes it younger.
LEMMA SinceAtMost ==
  ASSUME NEW t \in Clock, NEW s \in Clock, NEW d \in Nat
  PROVE  Since((t + d) % W, s) <= Since(t, s) + d
<1> DEFINE x == Since(t, s)
           m == (t + d) % W
<1>1. x \in Nat
  BY SinceFacts
<1>2. CASE x + d < W
  <2>1. Since(m, s) = x + d
    BY <1>2, SinceLater
  <2>2. x + d \in Nat
    BY <1>1
  <2> QED
    BY <2>1, <2>2
<1>3. CASE ~(x + d < W)
  <2>1. m \in Clock
    BY ClockStep
  <2>2. Since(m, s) < W /\ Since(m, s) \in Nat
    <3> HIDE DEF m
    <3> QED
      BY <2>1, WAssumption DEF Since, Clock
  <2> HIDE DEF x, m
  <2> QED
    BY <1>1, <1>3, <2>2, WAssumption DEF x, m
<1> QED
  BY <1>2, <1>3

\* ledUpdate on a blinking light either leaves it alone, ends the blink, or
\* changes it because the stamp is older than the half that ends, and stamps
\* the change.
LEMMA UpdatePhase ==
  ASSUME NEW l \in Light, NEW t \in Clock, NEW u \in Clock,
         l.blink # OFF, Alternates(l)
  PROVE  LET r == Update(l, t, u)
         IN  \/ r = l
             \/ r.blink = OFF
             \/ /\ r.blink = l.blink /\ r.blinkStartTime = u
                /\ r.highTime = l.highTime /\ r.lowTime = l.lowTime
                /\ r.state = l.next_state
                /\ Since(t, l.blinkStartTime)
                     > IF l.state # OFF THEN l.highTime ELSE l.lowTime
<1>1. CASE l.endTime # 0 /\ Since(t, l.startTime) > l.endTime
  <2> DEFINE e == [l EXCEPT !.blink = OFF, !.next_state = OFF, !.state = OFF]
  <2>1. Update(l, t, u) = ToggleBlink(e, t, u)
    BY <1>1 DEF Update, EndBlink
  <2>2. e \in Light /\ e.blink = OFF
    BY DEF Light, Color, OFF, RED, GREEN, YELLOW
  <2>3. ToggleBlink(e, t, u).blink = OFF
    <3> HIDE DEF e
    <3> QED
      BY <2>2 DEF ToggleBlink, Light
  <2> QED
    BY <2>1, <2>3
<1>2. CASE ~(l.endTime # 0 /\ Since(t, l.startTime) > l.endTime)
  <2>1. Update(l, t, u) = ToggleBlink(l, t, u)
    BY <1>2 DEF Update, EndBlink
  <2>2. CASE l.state # OFF /\ Since(t, l.blinkStartTime) > l.highTime
    BY <2>1, <2>2 DEF ToggleBlink, Light
  <2>3. CASE l.state = OFF /\ Since(t, l.blinkStartTime) > l.lowTime
    BY <2>1, <2>3 DEF ToggleBlink, Light
  <2>4. CASE /\ ~(l.state # OFF /\ Since(t, l.blinkStartTime) > l.highTime)
             /\ ~(l.state = OFF /\ Since(t, l.blinkStartTime) > l.lowTime)
    BY <2>1, <2>4 DEF ToggleBlink
  <2> QED
    BY <2>2, <2>3, <2>4
<1> QED
  BY <1>1, <1>2

\* What a pass of loop() does to the stamp's age and the time measured.
LEMMA PhaseLater ==
  ASSUME TypeOK, NEW d \in 0 .. MaxLoop, NEW e \in {0, 1}, LedUpdate(d, e),
         MaxLoop + 2 < W
  PROVE  /\ (now + d) % W \in Clock /\ (now + d + e) % W \in Clock
         /\ Since((now + d) % W, led.blinkStartTime)
              <= Since(now, led.blinkStartTime) + d
         /\ Since(now', led.blinkStartTime)
              <= Since(now, led.blinkStartTime) + d + e
         /\ Since(now', now) = d + e
         /\ led'.state = led.state => phaseAge' = Capped(phaseAge + d + e)
<1>1. /\ now \in Clock /\ led.blinkStartTime \in Clock /\ d \in Nat
      /\ MaxLoop \in Nat /\ d <= MaxLoop /\ e <= 1 /\ e \in Nat
      /\ d + e \in Nat
  BY PanelAssumption DEF TypeOK, Light
<1>2. now + d + e = now + (d + e)
  BY <1>1 DEF Clock
<1>3. (now + d) % W \in Clock /\ (now + d + e) % W \in Clock
  BY <1>1, <1>2, ClockStep
<1>4. Since((now + d) % W, led.blinkStartTime)
        <= Since(now, led.blinkStartTime) + d
  BY <1>1, SinceAtMost
<1>5. Since((now + (d + e)) % W, led.blinkStartTime)
        <= Since(now, led.blinkStartTime) + (d + e)
  BY <1>1, SinceAtMost
<1>6. now' = (now + (d + e)) % W
  BY <1>2 DEF LedUpdate
<1>7. Since((now + (d + e)) % W, now) = d + e
  <2>1. Since(now, now) = 0
    BY <1>1, SinceFacts
  <2>2. Since(now, now) + (d + e) < W
    BY <1>1, <2>1, WAssumption
  <2>3. Since((now + (d + e)) % W, now) = Since(now, now) + (d + e)
    BY <1>1, <2>2, SinceLater
  <2> QED
    BY <1>1, <2>1, <2>3
<1>8. Since(now, led.blinkStartTime) \in Nat
  BY <1>1, SinceFacts
<1>9. Since(now', led.blinkStartTime) <= Since(now, led.blinkStartTime) + d + e
  BY <1>1, <1>5, <1>6, <1>8
<1>10. led'.state = led.state => phaseAge' = Capped(phaseAge + d + e)
  BY DEF LedUpdate
<1> QED
  BY <1>3, <1>4, <1>6, <1>7, <1>9, <1>10

\* ledUpdate keeps the phase invariant, and changes a blinking light only
\* when the half that ends has lasted.
LEMMA UpdateKeepsPhase ==
  ASSUME TypeOK, TypeOK', BlinkAlternates, PhaseInv,
         NEW d \in 0 .. MaxLoop, NEW e \in {0, 1}, LedUpdate(d, e)
  PROVE  /\ PhaseInv'
         /\ led.blink # OFF /\ led'.blink = led.blink /\ led'.state # led.state
              => phaseAge + Since(now', now)
                   > IF led.state # OFF THEN led.highTime ELSE led.lowTime
<1> DEFINE t == (now + d) % W
           u == (now + d + e) % W
<1>1. /\ led \in Light /\ d \in Nat /\ e \in Nat /\ AgeCap \in Nat
      /\ phaseAge \in Nat /\ phaseAge <= AgeCap
      /\ led.highTime \in Nat /\ led.lowTime \in Nat
      /\ now \in Clock /\ led.blinkStartTime \in Clock
  BY PanelAssumption DEF TypeOK, Light
<1>2. led' = Update(led, t, u) /\ now' = u
  BY DEF LedUpdate
<1>3. CASE led.blink = OFF
  <2>1. led'.blink = OFF
    BY <1>1, <1>2, <1>3 DEF Update, Light
  <2> QED
    BY <1>3, <2>1 DEF PhaseInv
<1>4. CASE led.blink # OFF
  <2>1. /\ led.highTime < AgeCap /\ led.lowTime < AgeCap /\ MaxLoop + 2 < W
        /\ phaseAge = AgeCap \/ Since(now, led.blinkStartTime) <= phaseAge
    BY <1>4 DEF PhaseInv
  <2>2. /\ t \in Clock /\ u \in Clock
        /\ Since(t, led.blinkStartTime) <= Since(now, led.blinkStartTime) + d
        /\ Since(now', led.blinkStartTime)
             <= Since(now, led.blinkStartTime) + d + e
        /\ Since(now', now) = d + e
        /\ led'.state = led.state => phaseAge' = Capped(phaseAge + d + e)
    BY <2>1, PhaseLater
  <2>3. Alternates(led) /\ led.next_state # led.state
    BY <1>4 DEF BlinkAlternates, Alternates
  <2>4. /\ Since(now, led.blinkStartTime) \in Nat
        /\ Since(t, led.blinkStartTime) \in Nat
        /\ Since(now', led.blinkStartTime) \in Nat
    BY <1>1, <1>2, <2>2, SinceFacts
  <2> HIDE DEF t, u
  <2>5. CASE led' = led
    <3>1. phaseAge' = Capped(phaseAge + d + e)
      BY <2>2, <2>5
    <3>2. phaseAge' = AgeCap \/ Since(now', led.blinkStartTime) <= phaseAge'
      BY <1>1, <2>1, <2>2, <2>4, <3>1 DEF Capped
    <3> QED
      BY <2>1, <2>5, <3>2 DEF PhaseInv
  <2>6. CASE led'.blink = OFF
    BY <1>4, <2>6 DEF PhaseInv
  <2>7. CASE /\ led'.blink = led.blink /\ led'.blinkStartTime = u
             /\ led'.highTime = led.highTime /\ led'.lowTime = led.lowTime
             /\ led'.state = led.next_state
             /\ Since(t, led.blinkStartTime)
                  > IF led.state # OFF THEN led.highTime ELSE led.lowTime
    <3>1. Since(now', led'.blinkStartTime) = 0
      BY <1>2, <2>2, <2>7, SinceFacts
    <3>2. phaseAge' = 0
      BY <2>3, <2>7 DEF LedUpdate
    <3>3. PhaseInv'
      BY <2>1, <2>7, <3>1, <3>2 DEF PhaseInv
    <3>4. phaseAge + Since(now', now)
            > IF led.state # OFF THEN led.highTime ELSE led.lowTime
      <4>1. CASE phaseAge = AgeCap
        BY <1>1, <2>1, <2>2, <4>1
      <4>2. CASE Since(now, led.blinkStartTime) <= phaseAge
        BY <1>1, <2>2, <2>4, <2>7, <4>2
      <4> QED
        BY <2>1, <4>1, <4>2
    <3> QED
      BY <3>3, <3>4
  <2>8. \/ led' = led
        \/ led'.blink = OFF
        \/ /\ led'.blink = led.blink /\ led'.blinkStartTime = u
           /\ led'.highTime = led.highTime /\ led'.lowTime = led.lowTime
           /\ led'.state = led.next_state
           /\ Since(t, led.blinkStartTime)
                > IF led.state # OFF THEN led.highTime ELSE led.lowTime
    BY <1>1, <1>2, <1>4, <2>2, <2>3, UpdatePhase
  <2> QED
    BY <2>5, <2>6, <2>7, <2>8
<1> QED
  BY <1>3, <1>4

\* No half period of a blink is cut short, whatever the modulus of millis()
\* and the times of the blink, also when ledUpdate runs late or the clock
\* wraps within the half: the light changes by itself only after more than
\* highTime lit or lowTime dark milliseconds.
THEOREM HalfPeriodsAreFull == ASSUME CapCovers PROVE Spec => FullHalfPeriods
<1> USE CapCovers
<1>1. Init => PhaseInv
  BY DEF Init, NewLED, PhaseInv
<1>2. TypeOK /\ TypeOK' /\ BlinkAlternates /\ PhaseInv /\ [Next]_vars
        => PhaseInv'
  <2> SUFFICES ASSUME TypeOK, TypeOK', BlinkAlternates, PhaseInv, [Next]_vars
               PROVE  PhaseInv'
    OBVIOUS
  <2>1. ASSUME NEW c \in Color, NEW dT \in Durations, CallSet(c, dT)
        PROVE  PhaseInv'
    <3>1. led'.blink = OFF
      BY <2>1 DEF CallSet, Set, TypeOK, Light
    <3> QED
      BY <3>1 DEF PhaseInv
  <2>2. ASSUME NEW c \in Color \ {OFF}, NEW bt \in BlinkTimes, CallBlink(c, bt)
        PROVE  PhaseInv'
    <3>1. CASE led.blink = c
      <4>1. led' = led /\ phaseAge' = phaseAge /\ now' = now
        BY <2>2, <3>1 DEF CallBlink, BlinkContinuous
      <4> QED
        BY <4>1 DEF PhaseInv
    <3>2. CASE led.blink # c
      <4>1. /\ led'.highTime = bt[1] /\ led'.lowTime = bt[2]
            /\ led'.blinkStartTime = now /\ now' = now /\ phaseAge' = 0
        BY <2>2, <3>2 DEF CallBlink, BlinkContinuous, TypeOK, Light
      <4>2. Since(now', led'.blinkStartTime) = 0
        BY <4>1, SinceFacts DEF TypeOK
      <4>3. bt[3] \in Nat /\ Fits(bt[3]) /\ MaxLoop \in Nat /\ W \in Nat
        BY PanelAssumption, TimesFit, WAssumption
      <4>4. MaxLoop + 2 < W
        BY <4>3 DEF Fits
      <4> QED
        BY <4>1, <4>2, <4>4 DEF PhaseInv, CapCovers
    <3> QED
      BY <3>1, <3>2
  <2>3. ASSUME NEW d \in 0 .. MaxLoop, NEW e \in {0, 1}, LedUpdate(d, e)
        PROVE  PhaseInv'
    BY <2>3, UpdateKeepsPhase
  <2>4. CASE UNCHANGED vars
    BY <2>4 DEF vars, PhaseInv
  <2> QED
    BY <2>1, <2>2, <2>3, <2>4 DEF Next
<1>3. TypeOK /\ TypeOK' /\ BlinkAlternates /\ PhaseInv /\ [Next]_vars
        => [/\ led.blink # OFF /\ led'.blink = led.blink
            /\ Pins(led'.state) # Pins(led.state)
            => phaseAge + Since(now', now)
                 > IF led.state # OFF THEN led.highTime ELSE led.lowTime]_vars
  <2> SUFFICES ASSUME TypeOK, TypeOK', BlinkAlternates, PhaseInv, [Next]_vars,
                      led.blink # OFF, led'.blink = led.blink,
                      Pins(led'.state) # Pins(led.state)
               PROVE  phaseAge + Since(now', now)
                        > IF led.state # OFF THEN led.highTime ELSE led.lowTime
    OBVIOUS
  <2>0. led'.state # led.state
    OBVIOUS
  <2>1. ASSUME NEW c \in Color, NEW dT \in Durations, CallSet(c, dT)
        PROVE  FALSE
    BY <2>1 DEF CallSet, Set, TypeOK, Light
  <2>2. ASSUME NEW c \in Color \ {OFF}, NEW bt \in BlinkTimes, CallBlink(c, bt)
        PROVE  FALSE
    BY <2>2 DEF CallBlink, BlinkContinuous, TypeOK, Light
  <2>3. ASSUME NEW d \in 0 .. MaxLoop, NEW e \in {0, 1}, LedUpdate(d, e)
        PROVE  phaseAge + Since(now', now)
                 > IF led.state # OFF THEN led.highTime ELSE led.lowTime
    BY <2>0, <2>3, UpdateKeepsPhase
  <2>4. CASE UNCHANGED vars
    BY <2>0, <2>4 DEF vars
  <2> QED
    BY <2>1, <2>2, <2>3, <2>4 DEF Next
<1> QED
  BY <1>1, <1>2, <1>3, TypeCorrect, BlinkingAlternates, PTL
  DEF Spec, FullHalfPeriods
=============================================================================
