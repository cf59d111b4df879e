--------------------- MODULE AdcRecorderTriggerProofs ----------------------
(***************************************************************************)
(* The oscilloscope for every counter width, window and setting: where the *)
(* window of the trigger is and how far beyond it the recording goes.  And *)
(* the triggered recorder for every length, ring and burst: what the       *)
(* program prints is that window.                                          *)
(***************************************************************************)
EXTENDS AdcRecorderTrigger, ModLemmas

----------------------------------------------------------------------------
(* The oscilloscope.                                                       *)

\* Before the trigger the counter numbers the samples, modulo its size.
CountsBefore ==
  /\ state = "pre" => cntr = passed /\ cntr <= Pre
  /\ state = "armed" => cntr = passed % CntrSize /\ passed > Pre

\* After it the counter numbers them from the start of the trigger's window.
CountsAfter ==
  state = "post" =>
    /\ cntr <= Tot
    /\ passed = trigger - (trigger % Window) + cntr - Pre + 1

EnabledWhileRunning == enbl <=> state # "idle"

IInv ==
  /\ ScopeTypeOK /\ EnabledWhileRunning
  /\ CountsBefore /\ CountsAfter
  /\ StopsWithWindow /\ AddressIsTrigger

LEMMA Sizes ==
  /\ CntrSize \in Nat \ {0} /\ Window \in Nat \ {0}
  /\ Pre \in Nat /\ Tot \in Nat
  /\ Pre <= Tot /\ Pre < CntrSize /\ Tot < CntrSize
  /\ Pre + Window - 1 <= Tot
  /\ 0 \in 0 .. CntrSize - 1 /\ 0 \in Nat
BY ScopeAssumption

\* The three moments at which the registers are cleared leave no recording.
LEMMA ClearedInv ==
  ASSUME ScopeTypeOK', EnabledWhileRunning', cntr' = 0, passed' = 0, state' \in {"idle", "pre"}
  PROVE  IInv'
BY Sizes DEF IInv, CountsBefore, CountsAfter, StopsWithWindow, AddressIsTrigger

LEMMA CountUp ==
  ASSUME IInv
  PROVE  /\ (cntr + 1) % CntrSize \in 0 .. CntrSize - 1
         /\ cntr < CntrSize - 1 => (cntr + 1) % CntrSize = cntr + 1
         /\ cntr = passed % CntrSize =>
              (cntr + 1) % CntrSize = (passed + 1) % CntrSize
<1>1. cntr \in 0 .. CntrSize - 1 /\ cntr \in Nat /\ passed \in Nat
  BY Sizes DEF IInv, ScopeTypeOK
<1>2. (cntr + 1) % CntrSize \in 0 .. CntrSize - 1
  BY <1>1, Sizes, DivMod
<1>3. cntr % CntrSize = cntr
  BY <1>1, Sizes, ModSmall
<1>4. /\ (cntr + 1) % CntrSize =
           IF cntr % CntrSize = CntrSize - 1 THEN 0 ELSE (cntr % CntrSize) + 1
      /\ (passed + 1) % CntrSize =
           IF passed % CntrSize = CntrSize - 1 THEN 0 ELSE (passed % CntrSize) + 1
  BY <1>1, Sizes, ModSucc
<1> QED
  BY <1>1, <1>2, <1>3, <1>4, Sizes

LEMMA PreInv ==
  ASSUME IInv, NEW tvalid \in BOOLEAN, PreEdge(tvalid)
  PROVE  IInv'
<1>1. /\ state = "pre" /\ cntr = passed /\ cntr <= Pre /\ enbl
      /\ cntr \in 0 .. CntrSize - 1 /\ passed \in Nat
      /\ trgaddr \in 0 .. CntrSize - 1 /\ trigger \in Nat /\ enbl \in BOOLEAN
  BY DEF IInv, ScopeTypeOK, PreEdge, CountsBefore, EnabledWhileRunning
<1>2. /\ cntr' = (cntr + 1) % CntrSize /\ passed' = passed + 1
      /\ state' = IF cntr = Pre THEN "armed" ELSE "pre"
      /\ trgaddr' = trgaddr /\ enbl' = enbl /\ trigger' = trigger
  BY DEF PreEdge
<1>3. cntr % CntrSize = cntr
  BY <1>1, Sizes, ModSmall
<1>4. CountsBefore'
  BY <1>1, <1>2, <1>3, CountUp, Sizes DEF CountsBefore
<1>5. ScopeTypeOK'
  BY <1>1, <1>2, CountUp DEF ScopeTypeOK
<1> QED
  BY <1>1, <1>2, <1>4, <1>5
  DEF IInv, EnabledWhileRunning, CountsAfter, StopsWithWindow, AddressIsTrigger

LEMMA ArmedInv ==
  ASSUME IInv, NEW tvalid \in BOOLEAN, NEW trg \in BOOLEAN, ArmedEdge(tvalid, trg)
  PROVE  IInv'
<1>1. /\ state = "armed" /\ cntr = passed % CntrSize /\ passed > Pre /\ enbl
      /\ cntr \in 0 .. CntrSize - 1 /\ passed \in Nat
      /\ trgaddr \in 0 .. CntrSize - 1 /\ trigger \in Nat /\ enbl \in BOOLEAN
  BY DEF IInv, ScopeTypeOK, ArmedEdge, CountsBefore, EnabledWhileRunning
<1>2. passed' = passed + 1 /\ enbl' = enbl
  BY DEF ArmedEdge
<1>3. CASE trg
  <2>1. /\ trgaddr' = cntr /\ cntr' = (Pre + (cntr % Window)) % CntrSize
        /\ state' = "post" /\ trigger' = passed
    BY <1>3 DEF ArmedEdge
  <2>2. cntr % Window = passed % Window /\ cntr % Window \in 0 .. Window - 1
    <3>1. CntrSize % Window = 0 /\ cntr \in Nat
      BY <1>1, Sizes, ScopeAssumption
    <3>2. (passed % CntrSize) % Window = passed % Window
      BY <3>1, <1>1, Sizes, ModOfMod
    <3>3. cntr % Window \in 0 .. Window - 1
      BY <3>1, Sizes, DivMod
    <3> QED
      BY <1>1, <3>2, <3>3
  <2>3. Pre + (cntr % Window) \in 0 .. CntrSize - 1 /\ Pre + (cntr % Window) <= Tot
    BY <2>2, Sizes
  <2>4. cntr' = Pre + (cntr % Window)
    BY <2>1, <2>3, Sizes, ModSmall
  <2>5. ScopeTypeOK'
    BY <1>1, <1>2, <2>1, <2>3, <2>4 DEF ScopeTypeOK
  <2>6. CountsAfter'
    <3>1. trigger' % Window = cntr % Window /\ cntr' <= Tot
      BY <2>1, <2>2, <2>3, <2>4
    <3>2. passed' = trigger' - (cntr % Window) + cntr' - Pre + 1
      BY <1>1, <1>2, <2>1, <2>2, <2>4, Sizes
    <3> QED
      BY <3>1, <3>2 DEF CountsAfter
  <2>7. AddressIsTrigger'
    BY <1>1, <2>1 DEF AddressIsTrigger
  <2> QED
    BY <1>1, <1>2, <2>1, <2>5, <2>6, <2>7
    DEF IInv, EnabledWhileRunning, CountsBefore, StopsWithWindow
<1>4. CASE ~trg
  <2>1. /\ cntr' = (cntr + 1) % CntrSize /\ trgaddr' = trgaddr
        /\ state' = state /\ trigger' = trigger
    BY <1>4 DEF ArmedEdge
  <2>2. ScopeTypeOK' /\ cntr' = passed' % CntrSize
    BY <1>1, <1>2, <2>1, CountUp DEF ScopeTypeOK
  <2> QED
    BY <1>1, <1>2, <2>1, <2>2, Sizes
    DEF IInv, EnabledWhileRunning, CountsBefore, CountsAfter, StopsWithWindow,
        AddressIsTrigger
<1> QED
  BY <1>3, <1>4

LEMMA PostInv ==
  ASSUME IInv, NEW tvalid \in BOOLEAN, PostEdge(tvalid)
  PROVE  IInv'
<1>1. /\ state = "post" /\ cntr <= Tot /\ enbl
      /\ passed = trigger - (trigger % Window) + cntr - Pre + 1
      /\ trgaddr = trigger % CntrSize /\ trigger > Pre
      /\ cntr \in 0 .. CntrSize - 1 /\ passed \in Nat
      /\ trgaddr \in 0 .. CntrSize - 1 /\ trigger \in Nat /\ enbl \in BOOLEAN
  BY DEF IInv, ScopeTypeOK, PostEdge, CountsAfter, AddressIsTrigger, EnabledWhileRunning
<1>2. passed' = passed + 1 /\ trgaddr' = trgaddr /\ trigger' = trigger
  BY DEF PostEdge
<1>3. trigger % Window \in 0 .. Window - 1
  BY <1>1, Sizes, DivMod
<1>4. CASE cntr < Tot
  <2>1. cntr' = (cntr + 1) % CntrSize /\ enbl' = enbl /\ state' = state
    BY <1>4 DEF PostEdge
  <2>2. cntr' = cntr + 1
    BY <1>1, <1>4, <2>1, CountUp, Sizes
  <2>3. ScopeTypeOK'
    BY <1>1, <1>2, <1>4, <2>1, <2>2, Sizes DEF ScopeTypeOK
  <2>4. CountsAfter'
    BY <1>1, <1>2, <1>3, <1>4, <2>1, <2>2, Sizes DEF CountsAfter
  <2> QED
    BY <1>1, <1>2, <2>1, <2>3, <2>4
    DEF IInv, EnabledWhileRunning, CountsBefore, StopsWithWindow, AddressIsTrigger
<1>5. CASE ~(cntr < Tot)
  <2>1. enbl' = FALSE /\ state' = "idle" /\ cntr' = cntr /\ cntr = Tot
    BY <1>1, <1>5, Sizes DEF PostEdge
  <2>2. ScopeTypeOK'
    <3>1. enbl' \in BOOLEAN
      BY <2>1
    <3>2. passed' \in Nat /\ cntr' \in 0 .. CntrSize - 1
      BY <1>1, <1>2, <2>1
    <3> QED
      BY <1>1, <1>2, <2>1, <3>1, <3>2, Zenon DEF ScopeTypeOK
  <2>3. StopsWithWindow'
    BY <1>1, <1>2, <1>3, <2>1, Sizes DEF StopsWithWindow
  <2> QED
    BY <1>1, <1>2, <2>1, <2>2, <2>3
    DEF IInv, EnabledWhileRunning, CountsBefore, CountsAfter, AddressIsTrigger
<1> QED
  BY <1>4, <1>5

LEMMA StepInv == IInv /\ [ScopeNext]_scopeVars => IInv'
<1> SUFFICES ASSUME IInv, [ScopeNext]_scopeVars PROVE IInv'
  OBVIOUS
<1>1. ASSUME UNCHANGED scopeVars PROVE IInv'
  BY <1>1 DEF scopeVars, IInv, ScopeTypeOK, EnabledWhileRunning, CountsBefore, CountsAfter,
              StopsWithWindow, AddressIsTrigger
<1>2. CASE ScopeReset
  <2>1. ScopeTypeOK' /\ EnabledWhileRunning'
    BY <1>2, Sizes DEF ScopeReset, ScopeTypeOK, EnabledWhileRunning
  <2> QED
    BY <1>2, <2>1, ClearedInv DEF ScopeReset
<1>3. ASSUME NEW flag \in BOOLEAN, IdleEdge(flag)
      PROVE  IInv'
  <2>1. CASE flag
    <3>1. ScopeTypeOK' /\ EnabledWhileRunning'
      BY <1>3, <2>1, Sizes DEF IdleEdge, ScopeTypeOK, EnabledWhileRunning
    <3> QED
      BY <1>3, <2>1, <3>1, ClearedInv DEF IdleEdge
  <2>2. CASE ~flag
    BY <1>1, <1>3, <2>2 DEF IdleEdge
  <2> QED
    BY <2>1, <2>2
<1>4. ASSUME NEW flag \in BOOLEAN, NEW tvalid \in BOOLEAN, NEW trg \in BOOLEAN,
             ScopeEdge(flag, tvalid, trg)
      PROVE  IInv'
  <2>1. CASE StallEdge(tvalid)
    BY <1>1, <2>1 DEF StallEdge
  <2> QED
    BY <1>3, <1>4, <2>1, PreInv, ArmedInv, PostInv DEF ScopeEdge
<1> QED
  BY <1>1, <1>2, <1>4 DEF ScopeNext

\* Wherever the trigger comes, the recording stops with the window of its
\* settings complete, two samples beyond it, and the address register names
\* the sample of the trigger.
THEOREM ScopeKeepsWindow == ScopeSpec => [](ScopeTypeOK /\ StopsWithWindow /\ AddressIsTrigger)
<1>1. ScopeInit => IInv
  <2>1. ScopeInit => ScopeTypeOK
    BY Sizes, Zenon DEF ScopeInit, ScopeTypeOK
  <2>2. ScopeInit => /\ EnabledWhileRunning /\ CountsBefore /\ CountsAfter
                /\ StopsWithWindow /\ AddressIsTrigger
    BY DEF ScopeInit, EnabledWhileRunning, CountsBefore, CountsAfter,
           StopsWithWindow, AddressIsTrigger
  <2> QED
    BY <2>1, <2>2 DEF IInv
<1> QED
  BY <1>1, StepInv, PTL DEF ScopeSpec, IInv

----------------------------------------------------------------------------
(* The arithmetic of the window.                                           *)

LEMMA RecorderSizes ==
  /\ Burst \in Nat \ {0, 1} /\ Ring \in Nat \ {0} /\ Ring % Burst = 0
  /\ CntrSize = 2 * Ring /\ Samples = Tot + 1 /\ Samples <= CntrSize
  /\ (Pre + 1) % Window = 0 /\ CntrSize % Window = 0
  /\ Window % (2 * Burst) = 0 /\ Samples % (2 * Burst) = 0
BY TriggerRecorderAssumption, ScopeAssumption

\* A number without a remainder is a multiple.
LEMMA Multiple ==
  ASSUME NEW x \in Nat, NEW b \in Nat \ {0}, x % b = 0
  PROVE  \E k \in Nat : x = b * k
<1>1. x = b * (x \div b) + 0 /\ x \div b \in Nat
  BY DivMod
<1>2. PICK k \in Nat : k = x \div b
  BY <1>1
<1>3. b * k \in Nat /\ x = b * k + 0
  BY <1>1, <1>2
<1>4. x = b * k
  BY <1>3
<1> QED
  BY <1>4

LEMMA SumOfMod ==
  ASSUME NEW x \in Nat, NEW i \in Nat, NEW b \in Nat \ {0}
  PROVE  ((x % b) + i) % b = (x + i) % b
<1>1. PICK e \in Nat, g \in 0 .. b - 1 : x = b * e + g /\ x % b = g
  BY DivMod
<1>2. PICK d \in Nat, y \in 0 .. b - 1 : x + i = b * d + y /\ (x + i) % b = y
  <2>1. x + i \in Nat
    OBVIOUS
  <2> QED
    BY <2>1, DivMod
<1>3. g + i = b * (d - e) + y /\ d - e \in Int
  BY <1>1, <1>2
<1>4. (b * (d - e) + y) % b = y
  BY <1>3, ModUnique
<1> QED
  BY <1>1, <1>2, <1>3, <1>4

\* Half a place in a ring of twice n is the place of the half in a ring of n.
LEMMA HalfPlace ==
  ASSUME NEW x \in Nat, NEW n \in Nat \ {0}
  PROVE  (x % (2 * n)) \div 2 = (x \div 2) % n
<1>1. PICK z \in Nat, h \in 0 .. 1 : x = 2 * z + h /\ x \div 2 = z
  BY DivMod
<1>2. PICK v \in Nat, p \in 0 .. n - 1 : z = n * v + p /\ z % n = p
  BY DivMod
<1>3. x = (2 * n) * v + (2 * p + h) /\ 2 * p + h \in 0 .. (2 * n) - 1
  BY <1>1, <1>2
<1>4. ((2 * n) * v + (2 * p + h)) % (2 * n) = 2 * p + h
  <2>1. 2 * n \in Nat \ {0} /\ v \in Int
    OBVIOUS
  <2> QED
    BY <1>3, <2>1, ModUnique
<1>5. (2 * p + h) \div 2 = p
  BY DivUnique
<1> QED
  BY <1>1, <1>2, <1>3, <1>4, <1>5

\* A sample of the last n words of w is in one of them.
LEMMA HalfBetween ==
  ASSUME NEW x \in Nat, NEW w \in Nat, NEW n \in Nat,
         x < 2 * w, x >= 2 * w - 2 * n
  PROVE  x \div 2 \in 0 .. w - 1 /\ x \div 2 >= w - n
<1>1. PICK z \in Nat, h \in 0 .. 1 : x = 2 * z + h /\ x \div 2 = z
  BY DivMod
<1>2. z < w /\ z >= w - n
  BY <1>1
<1> QED
  BY <1>1, <1>2

\* The first sample of the window of a trigger.
First(tr) == tr - (tr % Window) - (Pre + 1)

\* It is a multiple of whole words and bursts from the start of the stream.
LEMMA FirstFacts ==
  ASSUME NEW tr \in Nat, tr > Pre
  PROVE  /\ First(tr) \in Nat
         /\ First(tr) % Window = 0
         /\ \E k \in Nat : First(tr) = (2 * Burst) * k
         /\ tr - (Pre + 1) = First(tr) + (tr % Window)
         /\ tr % Window \in 0 .. Window - 1
<1>1. PICK q \in Nat, r \in 0 .. Window - 1 : tr = Window * q + r /\ tr % Window = r
  BY Sizes, DivMod
<1>2. PICK p \in Nat : Pre + 1 = Window * p
  <2>1. Pre + 1 \in Nat
    BY Sizes
  <2> QED
    BY <2>1, Sizes, RecorderSizes, Multiple
<1>3. First(tr) = Window * (q - p)
  <2>1. First(tr) = Window * q - Window * p
    <3>1. First(tr) = tr - r - (Pre + 1)
      BY <1>1 DEF First
    <3> HIDE DEF First
    <3>2. tr - r = Window * q /\ Window * q \in Int /\ Window * p \in Int
      BY <1>1, <1>2, Sizes
    <3> QED
      BY <1>2, <3>1, <3>2
  <2>2. Window * (q - p) = Window * q - Window * p
    BY <1>1, <1>2, Sizes
  <2> QED
    BY <2>1, <2>2
<1>4. q - p \in Nat
  <2> SUFFICES ASSUME q + 1 <= p PROVE FALSE
    BY <1>1, <1>2
  <2>1. Window * (q + 1) <= Window * p
    BY <1>1, <1>2, Sizes
  <2>2. Window * (q + 1) = Window * q + Window
    BY <1>1, Sizes
  <2> QED
    BY <1>1, <1>2, <2>1, <2>2, Sizes
<1>5. First(tr) \in Nat
  BY <1>3, <1>4, Sizes
<1>6. First(tr) % Window = 0
  <2>1. (Window * (q - p) + 0) % Window = 0
    <3>1. 0 \in 0 .. Window - 1 /\ q - p \in Int
      BY <1>4, Sizes
    <3> QED
      BY <3>1, Sizes, ModUnique
  <2> QED
    BY <1>3, <1>5, <2>1
<1>7. \E k \in Nat : First(tr) = (2 * Burst) * k
  <2>1. PICK w \in Nat : Window = (2 * Burst) * w
    <3>1. 2 * Burst \in Nat \ {0}
      BY RecorderSizes
    <3> QED
      BY <3>1, Sizes, RecorderSizes, Multiple
  <2>2. First(tr) = (2 * Burst) * (w * (q - p)) /\ w * (q - p) \in Nat
    BY <1>3, <1>4, <2>1, RecorderSizes
  <2> QED
    BY <2>2
<1> QED
  BY <1>1, <1>5, <1>6, <1>7, Sizes DEF First

\* The program's start, from the address register alone.
StartOf(t) == LET s == (t - (Pre + 1)) % CntrSize IN s - (s % Window)

\* It is the place of the window's first sample, also for a trigger that came
\* after the counter wrapped, and for one that came just after.
LEMMA StartIsFirst ==
  ASSUME NEW tr \in Nat, tr > Pre
  PROVE  StartOf(tr % CntrSize) = First(tr) % CntrSize
<1> DEFINE x == First(tr)
           r == tr % Window
<1>1. /\ x \in Nat /\ x % Window = 0 /\ tr - (Pre + 1) = x + r /\ r \in 0 .. Window - 1
  BY FirstFacts
<1> HIDE DEF x, r
<1>2. PICK a \in Nat, t \in 0 .. CntrSize - 1 : tr = CntrSize * a + t /\ tr % CntrSize = t
  BY Sizes, DivMod
<1>3. PICK e \in Nat, g \in 0 .. CntrSize - 1 : x = CntrSize * e + g /\ x % CntrSize = g
  <2>1. x \in Nat /\ CntrSize \in Nat \ {0}
    BY <1>1, Sizes
  <2>2. /\ x = CntrSize * (x \div CntrSize) + (x % CntrSize)
        /\ x \div CntrSize \in Nat /\ x % CntrSize \in 0 .. CntrSize - 1
    BY <2>1, DivMod
  <2> QED
    BY <2>2
<1>4. PICK p \in Nat : g = Window * p
  <2>1. (x % CntrSize) % Window = x % Window
    BY <1>1, Sizes, RecorderSizes, ModOfMod
  <2>2. g % Window = 0 /\ g \in Nat
    BY <1>1, <1>3, <2>1, Sizes
  <2> QED
    BY <2>2, Sizes, Multiple
<1>5. g + r \in 0 .. CntrSize - 1
  <2>1. PICK c \in Nat : CntrSize = Window * c
    BY Sizes, RecorderSizes, Multiple
  <2>2. p + 1 <= c
    <3> SUFFICES ASSUME c <= p PROVE FALSE
      BY <1>4, <2>1
    <3>1. Window * c <= Window * p
      BY <1>4, <2>1, Sizes
    <3> QED
      BY <1>3, <1>4, <2>1, <3>1, Sizes
  <2>3. Window * (p + 1) <= Window * c /\ Window * (p + 1) = Window * p + Window
    BY <1>4, <2>1, <2>2, Sizes
  <2> QED
    BY <1>1, <1>3, <1>4, <2>1, <2>3, Sizes
<1>6. t - (Pre + 1) = CntrSize * (e - a) + (g + r)
  <2>1. t = tr - CntrSize * a /\ tr - (Pre + 1) = CntrSize * e + g + r
    BY <1>1, <1>2, <1>3, Sizes
  <2> QED
    BY <1>1, <1>2, <1>3, <2>1, Sizes
<1>7. (t - (Pre + 1)) % CntrSize = g + r
  <2>1. e - a \in Int
    BY <1>2, <1>3
  <2>2. (CntrSize * (e - a) + (g + r)) % CntrSize = g + r
    BY <1>5, <2>1, Sizes, ModUnique
  <2> QED
    BY <1>6, <2>2
<1>8. (g + r) % Window = r
  <2>1. (Window * p + r) % Window = r
    BY <1>1, <1>4, Sizes, ModUnique
  <2> QED
    BY <1>4, <2>1
<1> QED
  BY <1>1, <1>2, <1>3, <1>7, <1>8 DEF StartOf, x

\* A recording that stopped with its window has put it into RAM whole: what the
\* FIFO's threshold keeps back is the one word beyond the window.
LEMMA WindowIsMoved ==
  ASSUME NEW tr \in Nat, tr > Pre,
         NEW h \in 0 .. 1, NEW f \in 0 .. Burst, NEW m \in Nat, m % Burst = 0,
         tr - (tr % Window) + Tot - Pre + 2 = h + 2 * (f + m)
  PROVE  2 * m = First(tr) + Samples
<1>1. PICK k \in Nat : First(tr) = (2 * Burst) * k
  BY FirstFacts
<1>2. PICK n \in Nat : Samples = (2 * Burst) * n
  <2>1. 2 * Burst \in Nat \ {0} /\ Samples \in Nat
    BY RecorderSizes, Sizes
  <2> QED
    BY <2>1, RecorderSizes, Multiple
<1>3. PICK u \in Nat : m = Burst * u
  BY RecorderSizes, Multiple
<1>4. First(tr) + Samples + 2 = h + 2 * (f + m)
  <2>1. tr % Window \in Nat
    BY FirstFacts
  <2> QED
    BY <2>1, RecorderSizes, Sizes DEF First
<1>5. (2 * Burst) * k + (2 * Burst) * n = 2 * (Burst * (k + n))
  BY <1>1, <1>2, RecorderSizes
<1>6. Burst * (k + n) + 1 = Burst * u + f
  <2> DEFINE y == Burst * (k + n)
  <2>1. y \in Nat /\ m \in Nat /\ 2 * y + 2 = h + 2 * (f + m)
    BY <1>1, <1>2, <1>4, <1>5, RecorderSizes
  <2> HIDE DEF y
  <2>2. y + 1 = m + f
    BY <2>1, RecorderSizes
  <2> QED
    BY <1>3, <2>2, RecorderSizes DEF y
<1>7. f = 1
  <2>1. (Burst * (k + n) + 1) % Burst = 1
    <3>1. 1 \in 0 .. Burst - 1 /\ k + n \in Int /\ Burst \in Nat \ {0}
      BY <1>1, <1>2, RecorderSizes
    <3> QED
      BY <3>1, ModUnique
  <2>2. CASE f < Burst
    <3>1. f \in 0 .. Burst - 1 /\ u \in Int /\ Burst \in Nat \ {0}
      BY <1>3, <2>2, RecorderSizes
    <3>2. (Burst * u + f) % Burst = f
      BY <3>1, ModUnique
    <3> QED
      BY <1>6, <2>1, <3>2
  <2>3. CASE f = Burst
    <3>1. 0 \in 0 .. Burst - 1 /\ u + 1 \in Int /\ Burst \in Nat \ {0}
      BY <1>3, RecorderSizes
    <3>2. (Burst * (u + 1) + 0) % Burst = 0
      BY <3>1, ModUnique
    <3>3. Burst * (u + 1) + 0 = Burst * u + f
      BY <1>3, <2>3, RecorderSizes
    <3> QED
      BY <1>6, <2>1, <3>2, <3>3
  <2> QED
    BY <2>2, <2>3, RecorderSizes
<1>8. Burst * (k + n) = m
  BY <1>1, <1>2, <1>3, <1>6, <1>7, RecorderSizes
<1> QED
  BY <1>1, <1>2, <1>5, <1>8

----------------------------------------------------------------------------
(* The writer's part: what AxisRamWriterProofs has proved of every step.   *)

W == INSTANCE AxisRamWriterProofs WITH Orderly <- TRUE

LEMMA WriterSizes ==
  /\ Burst \in Nat \ {0, 1} /\ Ring \in Nat \ {0} /\ Ring % Burst = 0 /\ Ids \in Nat \ {0}
  /\ AlmostEmptyOffset \in Nat /\ AlmostEmptyOffset + 1 >= Burst
  /\ FifoDepth \in Nat /\ FifoDepth > AlmostEmptyOffset + 1
  /\ PorCycles \in Nat /\ MaxWords \in Nat /\ TRUE \in BOOLEAN
BY TriggerRecorderAssumption

WriterInv == W!WriterInv

WriterEdge ==
  \/ Writer!ResetEdge
  \/ \E t, a, w, l \in BOOLEAN : Writer!ClockEdge(t, a, w, l)

\* The writer of the recorder is the one of the proofs, wire by wire.
LEMMA SameEdge ==
  ASSUME NEW t \in BOOLEAN, NEW a \in BOOLEAN, NEW w \in BOOLEAN, NEW l \in BOOLEAN,
         Writer!ClockEdge(t, a, w, l)
  PROVE  W!ClockEdge(t, a, w, l)
BY Zenon DEF
   Writer!ClockEdge, Writer!AlmostEmpty, Writer!Rden, Writer!AwvalidNext, Writer!WvalidNext,
   Writer!AddrNext, Writer!WidNext, Writer!Max2, Writer!FifoAfter, Writer!Wren, Writer!Full,
   Writer!SlaveAfter, Writer!RamAfter, Writer!Opened, Writer!Idle, Writer!Head, Writer!NoWord,
   Writer!StartBurst, Writer!EndBurst, Writer!Wlast,
   W!ClockEdge, W!AlmostEmpty, W!Rden, W!AwvalidNext, W!WvalidNext,
   W!AddrNext, W!WidNext, W!Max2, W!FifoAfter, W!Wren, W!Full,
   W!SlaveAfter, W!RamAfter, W!Opened, W!Idle, W!Head, W!NoWord,
   W!StartBurst, W!EndBurst, W!Wlast

LEMMA WriterStep ==
  ASSUME WriterInv, WriterEdge \/ UNCHANGED Writer!vars
  PROVE  WriterInv'
<1>1. CASE Writer!ResetEdge
  <2>1. W!ResetEdge
    BY <1>1, Zenon DEF Writer!ResetEdge, Writer!Max2, Writer!NoWord, W!ResetEdge, W!Max2, W!NoWord
  <2> QED
    BY <2>1, WriterSizes, W!WriterStep, Zenon DEF WriterInv, W!Next
<1>2. CASE \E t, a, w, l \in BOOLEAN : Writer!ClockEdge(t, a, w, l)
  <2>1. W!Next
    BY <1>2, SameEdge, Zenon DEF W!Next
  <2> QED
    BY <2>1, WriterSizes, W!WriterStep, Zenon DEF WriterInv
<1>3. CASE UNCHANGED Writer!vars
  <2>1. UNCHANGED W!vars
    BY <1>3 DEF Writer!vars, W!vars
  <2> QED
    BY <2>1, WriterSizes, W!WriterStep, Zenon DEF WriterInv
<1> QED
  BY <1>1, <1>2, <1>3 DEF WriterEdge

LEMMA WriterInit ==
  ASSUME Writer!Init
  PROVE  WriterInv
<1>1. W!Init
  BY Zenon DEF Writer!Init, Writer!Idle, Writer!NoWord, W!Init, W!Idle, W!NoWord
<1> QED
  BY <1>1, WriterSizes, W!WriterStarts, Zenon DEF WriterInv

LEMMA WriterFacts ==
  ASSUME WriterInv
  PROVE  /\ fifo \in 0 .. FifoDepth /\ moved \in Nat /\ por \in 0 .. PorCycles
         /\ ~wvalid => moved % Burst = 0
         /\ \A k \in 0 .. moved - 1 : k >= moved - Ring => mem[k % Ring] = k
BY WriterSizes, W!WriterFacts, Zenon DEF WriterInv

\* An edge moves a word that is offered into the FIFO, and a beat's out of it.
LEMMA WordsKept ==
  ASSUME WriterInv, por = 0 \/ ~WordOffered,
         NEW a \in BOOLEAN, NEW w \in BOOLEAN, NEW l \in BOOLEAN,
         Writer!ClockEdge(WordOffered, a, w, l)
  PROVE  /\ fifo' + moved' = fifo + moved + (IF WordTaken THEN 1 ELSE 0)
         /\ por = 0 => por' = 0
<1>1. WordOffered \in BOOLEAN
  BY DEF WordOffered
<1>2. W!ClockEdge(WordOffered, a, w, l)
  BY <1>1, SameEdge
<1>3. /\ fifo' + moved' = fifo + moved + (IF WordOffered /\ ~W!Full THEN 1 ELSE 0)
      /\ por = 0 => por' = 0
  BY <1>1, <1>2, WriterSizes, W!WordsKept, Zenon DEF WriterInv
<1> QED
  BY <1>3 DEF WordTaken, Writer!Full, W!Full

----------------------------------------------------------------------------
(* The recorder.                                                           *)

\* The program's accesses and the oscilloscope go together: run_flag is up for
\* one access, in which a recording starts and none ends; the poll sees the end
\* of that recording and of no other.
Phase ==
  /\ pc \in {"begin", "set reset", "set run", "clear run", "poll", "compute", "print"}
  /\ run \in BOOLEAN /\ (run <=> pc = "clear run")
  /\ unreset \in BOOLEAN
  /\ unreset <=> pc \notin {"begin", "set reset"}
  /\ pc \in {"clear run", "poll", "compute", "print"} => por = 0
  /\ pc = "set run" => state = "idle" /\ passed = 0
  /\ pc = "clear run" /\ state = "idle" => passed = 0
  /\ pc = "poll" /\ state = "idle" => passed > 0
  /\ pc \in {"compute", "print"} => state = "idle" /\ passed > 0
  /\ pc = "print" => start = StartOf(trgaddr)

RecorderInv ==
  /\ IInv /\ WriterInv /\ Phase
  /\ held \in 0 .. 2 /\ KeepsUp
  /\ ScopeAgreesWithWriter

LEMMA InitRecorder == Init => RecorderInv
<1> SUFFICES ASSUME Init PROVE RecorderInv
  OBVIOUS
<1>1. IInv
  <2>1. ScopeTypeOK
    BY Sizes, Zenon DEF Init, ScopeInit, ScopeTypeOK
  <2> QED
    BY <2>1 DEF Init, ScopeInit, IInv, EnabledWhileRunning, CountsBefore, CountsAfter,
                StopsWithWindow, AddressIsTrigger
<1>2. WriterInv
  BY WriterInit DEF Init
<1>3. Phase
  BY DEF Init, Phase
<1>4. held \in 0 .. 2 /\ KeepsUp /\ ScopeAgreesWithWriter
  BY DEF Init, KeepsUp, WordOffered, ScopeAgreesWithWriter
<1> QED
  BY <1>1, <1>2, <1>3, <1>4 DEF RecorderInv

\* What an edge out of reset does to the counts, whatever the program does.
LEMMA EdgeCounts ==
  ASSUME RecorderInv, unreset,
         NEW s \in BOOLEAN, NEW p \in BOOLEAN, NEW b \in BOOLEAN,
         NEW a \in BOOLEAN, NEW w \in BOOLEAN, NEW l \in BOOLEAN,
         Edge(s, p, b, a, w, l)
  PROVE  /\ IInv' /\ WriterInv' /\ KeepsUp' /\ held' \in 0 .. 2
         /\ passed' = held' + 2 * (fifo' + moved')
         /\ por = 0 => por' = 0
         /\ passed' >= passed
         /\ state = "idle" /\ ~run => UNCHANGED scopeVars
         /\ state = "idle" /\ run => state' = "pre" /\ passed' = 0
         /\ state # "idle" /\ state' = "idle" => passed' > 0
         /\ run /\ state # "idle" => state' # "idle"
<1>1. /\ ScopeEdge(run, s, Trig!TrgFlag(p))
      /\ Writer!ClockEdge(WordOffered, a, w, l)
      /\ held' = HeldAfter(s)
      /\ KeepsUp' /\ RunFlagIsShort
  BY DEF Edge
<1>2. run \in BOOLEAN /\ Trig!TrgFlag(p) \in BOOLEAN /\ WordOffered \in BOOLEAN
  <2>1. run \in BOOLEAN
    BY DEF RecorderInv, Phase
  <2> QED
    BY <2>1 DEF Trig!TrgFlag, WordOffered
<1>3. IInv'
  <2>1. ScopeNext
    BY <1>1, <1>2 DEF ScopeNext
  <2> QED
    BY <2>1, StepInv DEF RecorderInv
<1>4. WriterInv'
  <2>1. WriterEdge
    BY <1>1, <1>2 DEF WriterEdge
  <2> QED
    BY <2>1, WriterStep DEF RecorderInv
<1>5. /\ passed \in Nat /\ held \in 0 .. 2 /\ passed = held + 2 * (fifo + moved)
      /\ fifo \in Nat /\ moved \in Nat /\ enbl \in BOOLEAN
      /\ enbl <=> state # "idle"
      /\ state = "idle" /\ run => passed = 0
  <2>1. fifo \in Nat /\ moved \in Nat
    BY WriterFacts, WriterSizes DEF RecorderInv
  <2> QED
    BY <2>1 DEF RecorderInv, IInv, ScopeTypeOK, EnabledWhileRunning, ScopeAgreesWithWriter, Phase
<1>6. PICK n \in 0 .. 1 : passed' = passed + n /\ n = IF Passes(s) THEN 1 ELSE 0
  BY <1>1, <1>5 DEF ScopeEdge, IdleEdge, StallEdge, PreEdge, ArmedEdge, PostEdge, Passes, scopeVars
<1>7. por = 0 \/ ~WordOffered
  <2>1. CASE pc = "set run"
    <3>1. passed = 0
      BY <2>1 DEF RecorderInv, Phase
    <3>2. held # 2
      BY <1>5, <3>1
    <3> QED
      BY <3>2 DEF WordOffered
  <2>2. CASE pc # "set run"
    BY <2>2 DEF RecorderInv, Phase
  <2> QED
    BY <2>1, <2>2
<1>8. /\ fifo' + moved' = fifo + moved + (IF WordTaken THEN 1 ELSE 0)
      /\ por = 0 => por' = 0
  BY <1>1, <1>7, WordsKept DEF RecorderInv
<1>9. WordOffered => WordTaken
  BY DEF RecorderInv, KeepsUp, WordTaken
<1>10. /\ WordTaken => held = 2 /\ held' = n
       /\ ~WordTaken => held \in 0 .. 1 /\ held' = held + n
  <2>1. WordTaken => held = 2
    BY DEF WordTaken, WordOffered
  <2>2. ~WordTaken => held \in 0 .. 1
    BY <1>5, <1>9 DEF WordOffered
  <2>3. held' = (IF WordTaken THEN 0 ELSE held) + n
    BY <1>1, <1>6 DEF HeldAfter
  <2>4. WordTaken => held' = n
    <3> SUFFICES ASSUME WordTaken PROVE held' = n
      OBVIOUS
    <3>1. held' = 0 + n
      BY <2>3
    <3> QED
      BY <1>6, <3>1
  <2> QED
    BY <2>1, <2>2, <2>3, <2>4
<1>11. held' \in 0 .. 2 /\ passed' = held' + 2 * (fifo' + moved')
  <2> DEFINE words == fifo' + moved'
  <2>1. CASE WordTaken
    <3>1. words = fifo + moved + 1 /\ held = 2 /\ held' = n
      BY <1>8, <1>10, <2>1
    <3> HIDE DEF words
    <3>2. held' \in 0 .. 2 /\ passed' = held' + 2 * words
      BY <1>5, <1>6, <3>1
    <3> QED
      BY <3>2 DEF words
  <2>2. CASE ~WordTaken
    <3>1. words = fifo + moved + 0 /\ held \in 0 .. 1 /\ held' = held + n
      BY <1>8, <1>10, <2>2
    <3> HIDE DEF words
    <3>2. held' \in 0 .. 2 /\ passed' = held' + 2 * words
      BY <1>5, <1>6, <3>1
    <3> QED
      BY <3>2 DEF words
  <2> QED
    BY <2>1, <2>2
<1>12. passed' >= passed
  BY <1>5, <1>6
<1>13. state = "idle" /\ ~run => UNCHANGED scopeVars
  BY <1>1 DEF ScopeEdge, IdleEdge, StallEdge, PreEdge, ArmedEdge, PostEdge
<1>14. state = "idle" /\ run => state' = "pre" /\ passed' = 0
  BY <1>1 DEF ScopeEdge, IdleEdge, StallEdge, PreEdge, ArmedEdge, PostEdge
<1>15. state # "idle" /\ state' = "idle" => passed' > 0
  BY <1>1, <1>5 DEF ScopeEdge, IdleEdge, StallEdge, PreEdge, ArmedEdge, PostEdge, scopeVars
<1>16. run /\ state # "idle" => state' # "idle"
  BY <1>1, <1>3, <1>5 DEF RunFlagIsShort, IInv, EnabledWhileRunning
<1> QED
  BY <1>1, <1>3, <1>4, <1>8, <1>11, <1>12, <1>13, <1>14, <1>15, <1>16

LEMMA ResetCounts ==
  ASSUME RecorderInv, ~unreset,
         NEW s \in BOOLEAN, NEW p \in BOOLEAN, NEW b \in BOOLEAN,
         NEW a \in BOOLEAN, NEW w \in BOOLEAN, NEW l \in BOOLEAN,
         Edge(s, p, b, a, w, l)
  PROVE  /\ IInv' /\ WriterInv' /\ KeepsUp' /\ held' \in 0 .. 2
         /\ passed' = held' + 2 * (fifo' + moved')
         /\ state' = "idle" /\ passed' = 0
<1>1. ScopeReset /\ Writer!ResetEdge /\ held' = 0 /\ KeepsUp'
  BY DEF Edge
<1>2. IInv'
  BY <1>1, StepInv DEF ScopeNext, RecorderInv
<1>3. WriterInv'
  BY <1>1, WriterStep DEF WriterEdge, RecorderInv
<1>4. passed' = 0 /\ state' = "idle" /\ fifo' = 0 /\ moved' = 0
  BY <1>1 DEF ScopeReset, Writer!ResetEdge
<1> QED
  BY <1>1, <1>2, <1>3, <1>4

LEMMA StepPhase ==
  ASSUME RecorderInv, Next
  PROVE  RecorderInv'
<1>1. PICK s \in BOOLEAN, p \in BOOLEAN, b \in BOOLEAN,
           a \in BOOLEAN, w \in BOOLEAN, l \in BOOLEAN :
             /\ ProgramStep \/ UNCHANGED programVars
             /\ Edge(s, p, b, a, w, l)
  BY DEF Next
<1>2. IInv' /\ WriterInv' /\ KeepsUp' /\ held' \in 0 .. 2
      /\ passed' = held' + 2 * (fifo' + moved')
  BY SMTT(20), <1>1, EdgeCounts, ResetCounts
<1>3. ~unreset => state' = "idle" /\ passed' = 0
  BY <1>1, ResetCounts
<1>4. unreset =>
         /\ por = 0 => por' = 0
         /\ passed' >= passed
         /\ state = "idle" /\ ~run => UNCHANGED scopeVars
         /\ state = "idle" /\ run => state' = "pre" /\ passed' = 0
         /\ state # "idle" /\ state' = "idle" => passed' > 0
         /\ run /\ state # "idle" => state' # "idle"
  BY <1>1, EdgeCounts
<1>5. Phase /\ (enbl <=> state # "idle")
  BY DEF RecorderInv, IInv, EnabledWhileRunning
<1>6. Phase'
  <2> USE <1>3, <1>4, <1>5 DEF Phase, scopeVars
  <2>1. CASE Begin
    BY <2>1 DEF Begin
  <2>2. CASE SetReset
    BY <2>2 DEF SetReset
  <2>3. CASE SetRun
    BY <2>3 DEF SetRun
  <2>4. CASE ClearRun
    BY <2>4 DEF ClearRun
  <2>5. CASE SeeStop
    BY <2>5 DEF SeeStop
  <2>6. CASE ComputeStart
    <3>1. start' = StartOf(trgaddr)
      BY <2>6 DEF ComputeStart, StartOf
    <3> QED
      BY <2>6, <3>1 DEF ComputeStart
  <2>7. CASE UNCHANGED programVars
    BY <2>7 DEF programVars
  <2> QED
    BY <1>1, <2>1, <2>2, <2>3, <2>4, <2>5, <2>6, <2>7 DEF ProgramStep
<1> QED
  BY <1>2, <1>6 DEF RecorderInv, ScopeAgreesWithWriter

LEMMA StepRecorder == RecorderInv /\ [Next]_vars => RecorderInv'
<1> SUFFICES ASSUME RecorderInv, UNCHANGED vars PROVE RecorderInv'
  BY StepPhase
<1>1. IInv'
  <2>1. UNCHANGED scopeVars
    BY DEF vars
  <2> QED
    BY <2>1, StepInv DEF RecorderInv
<1>2. WriterInv'
  BY WriterStep DEF vars, RecorderInv
<1>3. Phase'
  BY DEF vars, programVars, scopeVars, Writer!vars, RecorderInv, Phase
<1>4. held' \in 0 .. 2 /\ KeepsUp' /\ ScopeAgreesWithWriter'
  BY DEF vars, programVars, scopeVars, Writer!vars, RecorderInv, KeepsUp, WordOffered,
     Writer!Full, ScopeAgreesWithWriter
<1> QED
  BY <1>1, <1>2, <1>3, <1>4 DEF RecorderInv

----------------------------------------------------------------------------
\* The oscilloscope and the writer, which count on their own, never part: no
\* sample is lost or doubled in the converter, in the FIFO or in a burst.
THEOREM RecorderScopeAgrees == Spec => []ScopeAgreesWithWriter
BY InitRecorder, StepRecorder, PTL DEF Spec, RecorderInv

\* The recording of the recorder stops with the window of its trigger, though
\* the oscilloscope has no back pressure and is reset with the writer.
THEOREM RecorderStopsWithWindow == Spec => []StopsWithWindow
<1>1. RecorderInv => StopsWithWindow
  BY DEF RecorderInv, IInv
<1> QED
  BY InitRecorder, StepRecorder, <1>1, PTL DEF Spec

\* Once it is quiet the window's words are the last of the ring.
LEMMA QuietWindow ==
  ASSUME RecorderInv, pc = "print", Quiet
  PROVE  /\ trigger \in Nat /\ trigger > Pre /\ trgaddr = trigger % CntrSize
         /\ moved \in Nat /\ 2 * moved = First(trigger) + Samples
<1>1. /\ state = "idle" /\ passed > 0 /\ unreset
      /\ trigger \in Nat /\ passed \in Nat
      /\ trgaddr = trigger % CntrSize /\ trigger > Pre
      /\ passed = trigger - (trigger % Window) + Tot - Pre + 2
  BY DEF RecorderInv, Phase, IInv, ScopeTypeOK, StopsWithWindow, AddressIsTrigger
<1>2. /\ fifo \in 0 .. Burst /\ moved \in Nat /\ moved % Burst = 0 /\ held \in 0 .. 1
  <2>1. ~wvalid /\ fifo <= Burst /\ held # 2
    BY TriggerRecorderAssumption DEF Quiet, Writer!AlmostEmpty, WordOffered
  <2>2. fifo \in Nat /\ moved \in Nat /\ moved % Burst = 0
    BY <2>1, WriterFacts, WriterSizes DEF RecorderInv
  <2> QED
    BY <2>1, <2>2, RecorderSizes DEF RecorderInv
<1>3. trigger - (trigger % Window) + Tot - Pre + 2 = held + 2 * (fifo + moved)
  BY <1>1 DEF RecorderInv, ScopeAgreesWithWriter
<1> QED
  BY <1>1, <1>2, <1>3, WindowIsMoved

\* A word of the window is in the ring where the program looks for it.
LEMMA PrintedIsWindow ==
  ASSUME RecorderInv, pc = "print", Quiet, NEW i \in 0 .. Samples - 1
  PROVE  PrintedWord(i) = WindowWord(i)
<1> DEFINE x == First(trigger) + i
<1>1. /\ trigger \in Nat /\ trigger > Pre /\ trgaddr = trigger % CntrSize
      /\ moved \in Nat /\ 2 * moved = First(trigger) + Samples
  BY QuietWindow
<1>2. First(trigger) \in Nat /\ x \in Nat /\ i \in Nat
  BY <1>1, FirstFacts
<1>3. start = First(trigger) % CntrSize
  BY <1>1, StartIsFirst DEF RecorderInv, Phase
<1>4. (start + i) % CntrSize = x % CntrSize
  BY <1>2, <1>3, Sizes, SumOfMod
<1>5. (x % CntrSize) \div 2 = (x \div 2) % Ring
  BY <1>2, RecorderSizes, HalfPlace
<1>6. x \div 2 \in 0 .. moved - 1 /\ x \div 2 >= moved - Ring
  <2>1. x < 2 * moved /\ x >= 2 * moved - 2 * Ring
    BY <1>1, <1>2, RecorderSizes, Sizes
  <2>2. x \in Nat /\ moved \in Nat /\ Ring \in Nat
    BY <1>1, <1>2, RecorderSizes
  <2> HIDE DEF x
  <2> QED
    BY <2>1, <2>2, HalfBetween
<1>7. mem[(x \div 2) % Ring] = x \div 2
  BY <1>6, WriterFacts DEF RecorderInv
<1>8. WindowWord(i) = x \div 2
  BY DEF WindowWord, First
<1> QED
  BY <1>4, <1>5, <1>7, <1>8 DEF PrintedWord

\* adc-recorder-trigger.c:58-68: the samples the program prints are those of the
\* window of its trigger, wherever the ring has wrapped to and wherever in its
\* window the trigger came.
THEOREM RecorderPrintsTheWindow == Spec => []PrintsTheWindow
<1>1. RecorderInv => PrintsTheWindow
  BY PrintedIsWindow DEF PrintsTheWindow
<1> QED
  BY InitRecorder, StepRecorder, <1>1, PTL DEF Spec
============================================================================
