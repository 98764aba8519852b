---------------------------- MODULE GameLoopProofs ----------------------------
(***************************************************************************)
(* Proofs about GameLoop, for any keys, sizes, steps and queue.            *)
(*                                                                         *)
(* The tables lag behind the user by the events in the queue.  What they   *)
(* will show once those are handled is decided by the last event that      *)
(* concerns a key, or by the table if there is none: Alive says so, and    *)
(* the invariants relate that, not the table, to what the user did.        *)
(***************************************************************************)
EXTENDS GameLoop, SequenceTheorems, FiniteSetTheorems, TLAPS

(* Something holds after the queue q: it is in the table now, or an event  *)
(* of On puts it there, and no later event of Off takes it out.            *)
Alive(q, k, table, On, Off) ==
    \E n \in 0 .. Len(q) : /\ IF n = 0 THEN k \in table ELSE q[n] \in On
                           /\ \A m \in n + 1 .. Len(q) : q[m] \notin Off

(* With no event waiting the table says it.                                *)
LEMMA AliveEmpty ==
    ASSUME NEW k, NEW table, NEW On, NEW Off, k \in table
    PROVE  Alive(<<>>, k, table, On, Off)
BY DEF Alive

(* More events: they leave it as it was, or put it there themselves.       *)
LEMMA AliveConcat ==
    ASSUME NEW S, NEW q \in Seq(S), NEW es \in Seq(S),
           NEW k, NEW table, NEW On, NEW Off,
           Alive(q \o es, k, table, On, Off)
    PROVE  \/ /\ Alive(q, k, table, On, Off)
              /\ \A j \in 1 .. Len(es) : es[j] \notin Off
           \/ \E j \in 1 .. Len(es) : /\ es[j] \in On
                                      /\ \A i \in j + 1 .. Len(es) : es[i] \notin Off
<1>1. /\ Len(q) \in Nat /\ Len(es) \in Nat
      /\ Len(q \o es) = Len(q) + Len(es)
      /\ \A i \in 1 .. Len(q) + Len(es) :
            (q \o es)[i] = IF i <= Len(q) THEN q[i] ELSE es[i - Len(q)]
  BY ConcatProperties, LenProperties
<1>2. PICK n \in 0 .. Len(q) + Len(es) :
          /\ IF n = 0 THEN k \in table ELSE (q \o es)[n] \in On
          /\ \A m \in n + 1 .. Len(q) + Len(es) : (q \o es)[m] \notin Off
  BY <1>1 DEF Alive
<1>3. \A j \in 1 .. Len(es) : /\ Len(q) + j \in 1 .. Len(q) + Len(es)
                              /\ (q \o es)[Len(q) + j] = es[j]
  <2>1. SUFFICES ASSUME NEW j \in 1 .. Len(es)
                 PROVE  /\ Len(q) + j \in 1 .. Len(q) + Len(es)
                        /\ (q \o es)[Len(q) + j] = es[j]
    OBVIOUS
  <2>2. /\ Len(q) + j \in 1 .. Len(q) + Len(es) /\ ~(Len(q) + j <= Len(q))
        /\ (Len(q) + j) - Len(q) = j
    BY <1>1
  <2>3. QED  BY <1>1, <2>2
<1>4. CASE n <= Len(q)
  <2>1. \A j \in 1 .. Len(es) : es[j] \notin Off
    <3> SUFFICES ASSUME NEW j \in 1 .. Len(es) PROVE es[j] \notin Off
      OBVIOUS
    <3>1. Len(q) + j \in n + 1 .. Len(q) + Len(es)
      BY <1>1, <1>4
    <3>2. (q \o es)[Len(q) + j] \notin Off
      BY <1>2, <3>1
    <3> QED BY <1>3, <3>2
  <2>2. Alive(q, k, table, On, Off)
    BY <1>1, <1>2, <1>4 DEF Alive
  <2>3. QED  BY <2>1, <2>2
<1>5. CASE n > Len(q)
  <2> DEFINE j == n - Len(q)
  <2>1. j \in 1 .. Len(es) /\ Len(q) + j = n /\ n # 0
    BY <1>1, <1>5
  <2>2. es[j] \in On
    BY <1>2, <1>3, <2>1
  <2>3. \A i \in j + 1 .. Len(es) : es[i] \notin Off
    <3>1. SUFFICES ASSUME NEW i \in j + 1 .. Len(es) PROVE es[i] \notin Off
      OBVIOUS
    <3>2. i \in 1 .. Len(es) /\ Len(q) + i \in n + 1 .. Len(q) + Len(es)
      BY <1>1, <2>1
    <3>3. QED  BY <1>2, <1>3, <3>2
  <2>4. QED  BY <2>1, <2>2, <2>3
<1>6. QED  BY <1>1, <1>4, <1>5

(* The oldest event is handled: what holds afterwards held before, when    *)
(* the table is changed to what the event says.                            *)
LEMMA AliveTail ==
    ASSUME NEW S, NEW q \in Seq(S), q # <<>>,
           NEW k, NEW table, NEW after, NEW On, NEW Off,
           k \in after => Head(q) \in On \/ (k \in table /\ Head(q) \notin Off),
           Alive(Tail(q), k, after, On, Off)
    PROVE  Alive(q, k, table, On, Off)
<1>1. /\ Len(q) \in Nat /\ Len(q) > 0 /\ Head(q) = q[1]
      /\ Len(Tail(q)) = Len(q) - 1
      /\ \A i \in 1 .. Len(q) - 1 : Tail(q)[i] = q[i + 1]
  BY HeadTailProperties, LenProperties, EmptySeq
<1>2. PICK n \in 0 .. Len(q) - 1 :
          /\ IF n = 0 THEN k \in after ELSE Tail(q)[n] \in On
          /\ \A m \in n + 1 .. Len(q) - 1 : Tail(q)[m] \notin Off
  BY <1>1 DEF Alive
<1>3. \A m \in n + 2 .. Len(q) : q[m] \notin Off
  <2>1. SUFFICES ASSUME NEW m \in n + 2 .. Len(q)
                 PROVE  q[m] \notin Off
    OBVIOUS
  <2>2. m - 1 \in n + 1 .. Len(q) - 1 /\ m - 1 \in 1 .. Len(q) - 1 /\ (m - 1) + 1 = m
    BY <1>1
  <2>3. QED  BY <1>1, <1>2, <2>2
<1>4. CASE n > 0
  <2>1. n + 1 \in 0 .. Len(q) /\ n + 1 # 0 /\ q[n + 1] \in On
    BY <1>1, <1>2, <1>4
  <2>2. \A m \in (n + 1) + 1 .. Len(q) : q[m] \notin Off
    BY <1>3
  <2>3. QED  BY <2>1, <2>2 DEF Alive
<1>5. CASE n = 0 /\ Head(q) \in On
  <2>1. 1 \in 0 .. Len(q) /\ q[1] \in On /\ \A m \in 1 + 1 .. Len(q) : q[m] \notin Off
    BY <1>1, <1>3, <1>5
  <2>2. QED  BY <2>1 DEF Alive
<1>6. CASE n = 0 /\ k \in table /\ Head(q) \notin Off
  <2>1. \A m \in 0 + 1 .. Len(q) : q[m] \notin Off
    <3>1. SUFFICES ASSUME NEW m \in 1 .. Len(q) PROVE q[m] \notin Off
      OBVIOUS
    <3>2. m = 1 \/ m \in n + 2 .. Len(q)
      BY <1>1, <1>6
    <3>3. QED  BY <1>1, <1>3, <1>6, <3>2
  <2>2. QED  BY <1>1, <1>6, <2>1 DEF Alive
<1>7. QED  BY <1>2, <1>4, <1>5, <1>6
-----------------------------------------------------------------------------
(* Type correctness.                                                       *)

LEMMA EventType ==
    ASSUME UserTypeOK
    PROVE  /\ \A t \in {"KeyPress", "KeyRelease"}, k \in Keys : KeyEvent(t, k) \in Event
           /\ \A t \in {"ButtonPress", "ButtonRelease"}, b \in Buttons \cup {WheelUp, WheelDown} :
                  ButtonEvent(t, b) \in Event
           /\ \A x \in 0 .. MaxX : [type |-> "Motion", x |-> x] \in Event
           /\ \A s \in Sizes : [type |-> "Configure", size |-> s] \in Event
           /\ [type |-> "FocusOut"] \in Event /\ [type |-> "Client"] \in Event
BY DEF UserTypeOK, Event, KeyEvent, ButtonEvent

(* An event that is sent changes nothing the program keeps.                *)
LEMMA SentTypes ==
    ASSUME InputTypeOK, NEW es \in Seq(Event), Send(es), UserTypeOK'
    PROVE  InputTypeOK' /\ Len(queue') >= Len(queue)
<1>1. ProgramTypeOK'
  BY DEF InputTypeOK, ProgramTypeOK, Send, tables, sizes
<1>2. /\ queue' \in Seq(Event) /\ Len(queue') = Len(queue) + Len(es)
      /\ Len(queue) \in Nat /\ Len(es) \in Nat
  BY ConcatProperties, LenProperties DEF InputTypeOK, Send
<1>3. QED  BY <1>1, <1>2 DEF InputTypeOK

LEMMA UserTypes ==
    ASSUME InputTypeOK, InputAssumption, User
    PROVE  InputTypeOK' /\ Len(queue') >= Len(queue)
<1>0. UserTypeOK  BY DEF InputTypeOK
<1>1. ASSUME NEW k \in Keys, PressKey(k) PROVE InputTypeOK' /\ Len(queue') >= Len(queue)
  <2>1. <<KeyEvent("KeyPress", k)>> \in Seq(Event)  BY <1>0, EventType
  <2>2. UserTypeOK'  BY <1>0, <1>1 DEF UserTypeOK, PressKey
  <2>3. QED  BY <1>1, <2>1, <2>2, SentTypes DEF PressKey
<1>2. ASSUME NEW k \in Keys, RepeatKey(k) PROVE InputTypeOK' /\ Len(queue') >= Len(queue)
  <2>1. <<KeyEvent("KeyRelease", k), KeyEvent("KeyPress", k)>> \in Seq(Event)
    BY <1>0, EventType
  <2>2. UserTypeOK'  BY <1>0, <1>2 DEF UserTypeOK, RepeatKey, userVars
  <2>3. QED  BY <1>2, <2>1, <2>2, SentTypes DEF RepeatKey
<1>3. ASSUME NEW k \in Keys, ReleaseKey(k) PROVE InputTypeOK' /\ Len(queue') >= Len(queue)
  <2>1. <<KeyEvent("KeyRelease", k)>> \in Seq(Event) /\ <<>> \in Seq(Event)
    BY <1>0, EventType, EmptySeq
  <2>2. UserTypeOK'  BY <1>0, <1>3 DEF UserTypeOK, ReleaseKey
  <2>3. QED  BY <1>3, <2>1, <2>2, SentTypes DEF ReleaseKey
<1>4. ASSUME NEW b \in Buttons, PressButton(b) PROVE InputTypeOK' /\ Len(queue') >= Len(queue)
  <2>1. <<ButtonEvent("ButtonPress", b)>> \in Seq(Event)  BY <1>0, EventType
  <2>2. UserTypeOK'  BY <1>0, <1>4 DEF UserTypeOK, PressButton
  <2>3. QED  BY <1>4, <2>1, <2>2, SentTypes DEF PressButton
<1>5. ASSUME NEW b \in Buttons, ReleaseButton(b) PROVE InputTypeOK' /\ Len(queue') >= Len(queue)
  <2>1. <<ButtonEvent("ButtonRelease", b)>> \in Seq(Event)  BY <1>0, EventType
  <2>2. UserTypeOK'  BY <1>0, <1>5 DEF UserTypeOK, ReleaseButton
  <2>3. QED  BY <1>5, <2>1, <2>2, SentTypes DEF ReleaseButton
<1>6. ASSUME NEW b \in {WheelUp, WheelDown}, Scroll(b)
      PROVE  InputTypeOK' /\ Len(queue') >= Len(queue)
  <2>1. <<ButtonEvent("ButtonPress", b), ButtonEvent("ButtonRelease", b)>> \in Seq(Event)
    BY <1>0, EventType
  <2>2. UserTypeOK'  BY <1>0, <1>6 DEF UserTypeOK, Scroll
  <2>3. QED  BY <1>6, <2>1, <2>2, SentTypes DEF Scroll
<1>7. ASSUME NEW x \in 0 .. MaxX, MovePointer(x) PROVE InputTypeOK' /\ Len(queue') >= Len(queue)
  <2>1. <<[type |-> "Motion", x |-> x]>> \in Seq(Event)  BY <1>0, EventType
  <2>2. UserTypeOK'
    BY <1>0, <1>7, InputAssumption DEF UserTypeOK, MovePointer, InputAssumption
  <2>3. QED  BY <1>7, <2>1, <2>2, SentTypes DEF MovePointer
<1>8. ASSUME NEW elsewhere \in SUBSET Keys, GainFocus(elsewhere)
      PROVE  InputTypeOK' /\ Len(queue') >= Len(queue)
  <2>1. <<>> \in Seq(Event)  BY EmptySeq
  <2>2. UserTypeOK'  BY <1>0, <1>8 DEF UserTypeOK, GainFocus
  <2>3. QED  BY <1>8, <2>1, <2>2, SentTypes DEF GainFocus
<1>9. ASSUME NEW s \in Sizes, Resize(s) PROVE InputTypeOK' /\ Len(queue') >= Len(queue)
  <2>1. <<[type |-> "Configure", size |-> s]>> \in Seq(Event)  BY <1>0, EventType
  <2>2. UserTypeOK'  BY <1>0, <1>9 DEF UserTypeOK, Resize, userVars
  <2>3. QED  BY <1>9, <2>1, <2>2, SentTypes DEF Resize
<1>10. CASE LoseFocus
  <2>1. <<[type |-> "FocusOut"]>> \in Seq(Event)  BY <1>0, EventType
  <2>2. UserTypeOK'  BY <1>0, <1>10 DEF UserTypeOK, LoseFocus
  <2>3. QED  BY <1>10, <2>1, <2>2, SentTypes DEF LoseFocus
<1>11. CASE CloseButton
  <2>1. <<[type |-> "Client"]>> \in Seq(Event)  BY <1>0, EventType
  <2>2. UserTypeOK'  BY <1>0, <1>11 DEF UserTypeOK, CloseButton, userVars
  <2>3. QED  BY <1>11, <2>1, <2>2, SentTypes DEF CloseButton
<1>12. QED
  BY <1>1, <1>2, <1>3, <1>4, <1>5, <1>6, <1>7, <1>8, <1>9, <1>10, <1>11 DEF User

(* What kind of event is handled tells its fields.                         *)
LEMMA HeadEvent ==
    ASSUME InputTypeOK, queue # <<>>
    PROVE  /\ Head(queue) \in Event
           /\ Tail(queue) \in Seq(Event) /\ Len(Tail(queue)) = Len(queue) - 1
           /\ Len(queue) \in Nat /\ Len(queue) > 0
           /\ Head(queue).type \in {"KeyPress", "KeyRelease"} => Head(queue).key \in Keys
           /\ Head(queue).type \in {"ButtonPress", "ButtonRelease"} =>
                  Head(queue).button \in Buttons \cup {WheelUp, WheelDown}
           /\ Head(queue).type \in {"ButtonPress", "Motion"} => Head(queue).x \in 0 .. MaxX
           /\ Head(queue).type = "Configure" => Head(queue).size \in Sizes
<1>1. /\ Head(queue) \in Event
      /\ Tail(queue) \in Seq(Event) /\ Len(Tail(queue)) = Len(queue) - 1
      /\ Len(queue) \in Nat /\ Len(queue) > 0
  BY HeadTailProperties, LenProperties, EmptySeq DEF InputTypeOK
<1>2. ASSUME NEW e \in Event
      PROVE  /\ e.type \in {"KeyPress", "KeyRelease"} => e.key \in Keys
             /\ e.type \in {"ButtonPress", "ButtonRelease"} =>
                    e.button \in Buttons \cup {WheelUp, WheelDown}
             /\ e.type \in {"ButtonPress", "Motion"} => e.x \in 0 .. MaxX
             /\ e.type = "Configure" => e.size \in Sizes
  BY <1>2 DEF Event
<1>3. QED  BY <1>1, <1>2

LEMMA MessageTypes ==
    ASSUME InputTypeOK, InputAssumption, ProcessMessage
    PROVE  /\ InputTypeOK'
           /\ queue # <<>> /\ queue' = Tail(queue)
           /\ Len(queue) \in Nat /\ Len(queue') = Len(queue) - 1
<1>1. queue # <<>> /\ queue' = Tail(queue) /\ UserTypeOK'
  BY DEF ProcessMessage, ClientMessage, KeyPress, KeyRelease, Motion, ButtonPress,
         ButtonRelease, LostFocus, ConfigureNotify, Handle, userVars, InputTypeOK, UserTypeOK
<1>2. queue' \in Seq(Event) /\ Len(queue) \in Nat /\ Len(queue') = Len(queue) - 1
  BY <1>1, HeadEvent
<1>3. ProgramTypeOK'
  <2> USE DEF InputTypeOK, ProgramTypeOK, tables, sizes
  <2>1. CASE ClientMessage  BY <2>1 DEF ClientMessage
  <2>2. CASE KeyPress
    <3>1. Head(queue).key \in Keys  BY <2>2, <1>1, HeadEvent DEF KeyPress, Handle
    <3>2. QED  BY <2>2, <3>1 DEF KeyPress
  <2>3. CASE KeyRelease  BY <2>3 DEF KeyRelease
  <2>4. CASE Motion
    <3>1. Head(queue).x \in 0 .. MaxX  BY <2>4, <1>1, HeadEvent DEF Motion, Handle
    <3>2. mMouseDownX' \in 0 .. MaxX /\ mAngleX' \in Int
      BY <2>4, <3>1, InputAssumption DEF Motion, InputAssumption
    <3>3. QED  BY <2>4, <3>2 DEF Motion
  <2>5. CASE ButtonPress
    <3>1. Head(queue).x \in 0 .. MaxX /\ Head(queue).button \in Buttons \cup {WheelUp, WheelDown}
      BY <2>5, <1>1, HeadEvent DEF ButtonPress, Handle
    <3>2. Head(queue).button \in MButtons => Head(queue).button \in Buttons
      BY <3>1 DEF MButtons, WheelUp, WheelDown
    <3>3. mMouseButtons' \subseteq Buttons /\ mMouseDownX' \in 0 .. MaxX
      BY <2>5, <3>1, <3>2 DEF ButtonPress
    <3>4. grabbed' \in BOOLEAN /\ mDrawRay' \in BOOLEAN
      BY <2>5 DEF ButtonPress
    <3>5. QED  BY <2>5, <3>3, <3>4 DEF ButtonPress
  <2>6. CASE ButtonRelease
    <3>1. mMouseDownX - (mMouseDownX % 256) \in 0 .. MaxX
      BY InputAssumption DEF InputAssumption
    <3>2. mMouseDownX' \in 0 .. MaxX  BY <2>6, <3>1 DEF ButtonRelease
    <3>3. mMouseButtons' \subseteq Buttons /\ grabbed' \in BOOLEAN
      BY <2>6 DEF ButtonRelease, MouseUp
    <3>4. QED  BY <2>6, <3>2, <3>3 DEF ButtonRelease
  <2>7. CASE LostFocus  BY <2>7 DEF LostFocus, MouseUp
  <2>8. CASE ConfigureNotify
    <3>1. Head(queue).size \in Sizes  BY <2>8, <1>1, HeadEvent DEF ConfigureNotify, Handle
    <3>2. QED  BY <2>8, <3>1 DEF ConfigureNotify
  <2>9. QED  BY <2>1, <2>2, <2>3, <2>4, <2>5, <2>6, <2>7, <2>8 DEF ProcessMessage
<1>4. QED  BY <1>1, <1>2, <1>3 DEF InputTypeOK

LEMMA InitTypes == Init => TypeOK
<1> SUFFICES ASSUME Init PROVE TypeOK
  OBVIOUS
<1>1. queue \in Seq(Event) /\ Len(queue) \in Nat
  <2>1. <<>> \in Seq(Event) /\ [type |-> "Configure", size |-> InitialSize] \in Event
    BY EmptySeq, InputAssumption DEF InputAssumption, Event
  <2>2. <<[type |-> "Configure", size |-> InitialSize]>> \in Seq(Event)  BY <2>1
  <2>3. \/ queue = <<>>
        \/ queue = <<[type |-> "Configure", size |-> InitialSize]>>
    BY DEF Init, InputInit
  <2>4. queue \in Seq(Event)  BY <2>1, <2>2, <2>3
  <2>5. QED  BY <2>4, LenProperties
<1>2. InputTypeOK
  <2>1. UserTypeOK
    <3>1. /\ held \subseteq Keys /\ pressed \subseteq Buttons /\ owed \in Int
          /\ pointer \in 0 .. MaxX /\ wanted \in Int /\ shape \in Sizes
      BY InputAssumption DEF Init, InputInit, InputAssumption
    <3>2. /\ focused \in BOOLEAN /\ dragging \in BOOLEAN
          /\ scrolled \in BOOLEAN
      BY Zenon DEF Init, InputInit
    <3>3. QED  BY <3>1, <3>2 DEF UserTypeOK
  <2>2. ProgramTypeOK
    <3>1. /\ mKeys \subseteq Keys /\ mMouseButtons \subseteq Buttons
          /\ mMouseDownX \in 0 .. MaxX /\ mAngleX \in Int
          /\ mSize \in Sizes /\ viewport \in Sizes
      BY InputAssumption DEF Init, InputInit, InputAssumption
    <3>2. grabbed \in BOOLEAN /\ mClosed \in BOOLEAN /\ mDrawRay \in BOOLEAN
      BY Zenon DEF Init, InputInit
    <3>3. QED  BY <3>1, <3>2 DEF ProgramTypeOK
  <2>3. QED  BY <1>1, <2>1, <2>2 DEF InputTypeOK
<1>3. mFPSAvg \in Seq(0 .. Stamps - 1) /\ stamp \in 0 .. Stamps - 1 /\ runs \in 0 .. mAvgRange
  BY FPSAssumption, EmptySeq DEF Init, FPSInit, FPSAssumption
<1>4. QED  BY <1>1, <1>2, <1>3 DEF Init, TypeOK

LEMMA NextTypes == TypeOK /\ [Next]_vars => TypeOK'
<1> SUFFICES ASSUME TypeOK, [Next]_vars PROVE TypeOK'
  OBVIOUS
<1> USE DEF TypeOK
<1>1. CASE UserActs
  BY <1>1, UserTypes, InputAssumption, LenProperties
  DEF UserActs, fpsVars, playerVars, InputTypeOK
<1>2. CASE Main
  <2>1. CASE argSize = NoSize
    BY <1>2, <2>1 DEF Main, Goto, inputVars, userVars, tables, sizes, fpsVars, playerVars,
           InputTypeOK, UserTypeOK, ProgramTypeOK
  <2>2. CASE argSize # NoSize
    <3>1. argSize \in Sizes /\ SetSize(argSize)
      BY <1>2, <2>2, GameAssumption DEF Main, GameAssumption
    <3>2. queue' \in Seq(Event) /\ Len(queue') >= Len(queue)
          /\ Len(queue) \in Nat /\ Len(queue') \in Nat
      <4>1. [type |-> "Configure", size |-> argSize] \in Event  BY <3>1 DEF Event
      <4>2. QED  BY <3>1, <4>1, AppendProperties, LenProperties DEF SetSize, InputTypeOK
    <3>3. UserTypeOK' /\ ProgramTypeOK'
      BY <3>1 DEF SetSize, userVars, tables, InputTypeOK, UserTypeOK, ProgramTypeOK
    <3>4. QED  BY <1>2, <3>2, <3>3 DEF Main, Goto, fpsVars, playerVars, InputTypeOK
  <2>3. QED  BY <2>1, <2>2
<1>3. CASE Exit
  BY <1>3 DEF Exit, Goto, inputVars, userVars, tables, sizes, fpsVars, playerVars,
         InputTypeOK, UserTypeOK, ProgramTypeOK
<1>4. CASE FrameStart
  <2>1. InputTypeOK' /\ queue' = queue
    BY <1>4 DEF FrameStart, inputVars, userVars, tables, sizes,
           InputTypeOK, UserTypeOK, ProgramTypeOK
  <2>2. stamp' \in 0 .. Stamps - 1 /\ runs' \in 0 .. mAvgRange
    BY <1>4, FPSAssumption DEF FrameStart, Run, FPSAssumption
  <2>3. mFPSAvg' \in Seq(0 .. Stamps - 1)
    <3>1. ASSUME NEW S, NEW q \in Seq(S), NEW s \in S
          PROVE  Cut(Append(q, s)) \in Seq(S)
      <4>1. Append(q, s) \in Seq(S) /\ Append(q, s) # <<>>  BY AppendProperties
      <4>2. Tail(Append(q, s)) \in Seq(S)  BY <4>1, HeadTailProperties
      <4>3. QED  BY <4>1, <4>2 DEF Cut
    <3>2. mFPSAvg \in Seq(0 .. Stamps - 1)
      OBVIOUS
    <3>3. Cut(Append(mFPSAvg, stamp')) \in Seq(0 .. Stamps - 1)
      BY <2>2, <3>1, <3>2
    <3>4. QED  BY <1>4, <3>3 DEF FrameStart, Run
  <2>4. QED  BY <1>4, <2>1, <2>2, <2>3 DEF FrameStart, Goto, playerVars
<1>5. CASE ProcessMessages
  BY <1>5, MessageTypes, InputAssumption DEF ProcessMessages, fpsVars, playerVars
<1>6. CASE FrameEnd
  <2>1. owed' \in Int /\ mDrawRay' \in BOOLEAN
    <3>1. owed \in Int /\ clicks \in Nat  BY DEF InputTypeOK, UserTypeOK
    <3>2. owed - clicks \in Int  BY <3>1
    <3>3. mDrawRay' = FALSE /\ (owed' = owed - clicks \/ owed' = owed)
      BY <1>6 DEF FrameEnd, CastRay
    <3>4. QED  BY <3>1, <3>2, <3>3
  <2>2. InputTypeOK' /\ queue' = queue
    BY <1>6, <2>1 DEF FrameEnd, userVars, tables, sizes, InputTypeOK, UserTypeOK, ProgramTypeOK
  <2>3. PICK move \in Moves :
            /\ travel' = [a \in Axes |-> travel[a] + move[a]]
            /\ CalculatePlayerChunk([a \in Axes |-> position[a] + move[a]])
    BY <1>6 DEF FrameEnd
  <2>4. move \in [Axes -> Int]
    <3>1. ASSUME NEW f \in [Axes -> Steps] PROVE f \in [Axes -> Int]
      <4>1. \A a \in Axes : f[a] \in Int  BY GameAssumption DEF GameAssumption
      <4>2. QED  BY <4>1
    <3>2. [a \in Axes |-> 0] \in [Axes -> Int]
      OBVIOUS
    <3>3. QED  BY <2>3, <3>1, <3>2 DEF Moves
  <2>5. travel' \in [Axes -> Int]  BY <2>3, <2>4
  <2>6. /\ position' \in [Axes -> Int]
        /\ playerChunk' \in [Axes -> Int]
    <3> DEFINE pos == [a \in Axes |-> position[a] + move[a]]
    <3>1. pos \in [Axes -> Int]  BY <2>4
    <3>2. \A a \in Axes : Recentre(pos[a]) \in Int  BY DEF Recentre
    <3>3. Size \in Int  BY GameAssumption DEF GameAssumption
    <3> HIDE DEF pos
    <3>4. \A a \in Axes : /\ pos[a] + Size * Recentre(pos[a]) \in Int
                         /\ playerChunk[a] + Recentre(pos[a]) \in Int
      BY <3>1, <3>2, <3>3
    <3>5. QED  BY <2>3, <3>4 DEF CalculatePlayerChunk, pos
  <2>7. QED  BY <1>6, <2>2, <2>5, <2>6 DEF FrameEnd, Goto, fpsVars
<1>7. CASE UNCHANGED vars
  BY <1>7 DEF vars, inputVars, userVars, tables, sizes, fpsVars, playerVars,
         InputTypeOK, UserTypeOK, ProgramTypeOK
<1>8. QED  BY <1>1, <1>2, <1>3, <1>4, <1>5, <1>6, <1>7 DEF Next, Program

(* Every variable of the game loop keeps its type.                         *)
THEOREM TypeCorrect == Spec => []TypeOK
BY InitTypes, NextTypes, PTL DEF Spec

-----------------------------------------------------------------------------
(* No key stays down in the table.                                         *)

KeyOn(k) == {e \in Event : e.type = "KeyPress" /\ e.key = k}
KeyOff(k) == {e \in Event : e.type = "FocusOut" \/ (e.type = "KeyRelease" /\ e.key = k)}

KeysInv == \A k \in Keys : Alive(queue, k, mKeys, KeyOn(k), KeyOff(k))
                           => k \in held /\ focused

LEMMA KeysSent ==
    ASSUME InputTypeOK, KeysInv, NEW es \in Seq(Event), Send(es),
           NEW k \in Keys,
           (\A j \in 1 .. Len(es) : es[j] \notin KeyOff(k)) /\ k \in held /\ focused
               => k \in held' /\ focused',
           (\E j \in 1 .. Len(es) : /\ es[j] \in KeyOn(k)
                                    /\ \A i \in j + 1 .. Len(es) : es[i] \notin KeyOff(k))
               => k \in held' /\ focused',
           Alive(queue', k, mKeys', KeyOn(k), KeyOff(k))
    PROVE  k \in held' /\ focused'
<1>1. queue' = queue \o es /\ mKeys' = mKeys /\ queue \in Seq(Event)
  BY DEF Send, tables, InputTypeOK
<1>2. Alive(queue \o es, k, mKeys, KeyOn(k), KeyOff(k))
  BY <1>1
<1>3. \/ /\ Alive(queue, k, mKeys, KeyOn(k), KeyOff(k))
         /\ \A j \in 1 .. Len(es) : es[j] \notin KeyOff(k)
      \/ \E j \in 1 .. Len(es) : /\ es[j] \in KeyOn(k)
                                 /\ \A i \in j + 1 .. Len(es) : es[i] \notin KeyOff(k)
  BY <1>1, <1>2, AliveConcat
<1>4. QED  BY <1>3 DEF KeysInv

(* One event is sent.                                                      *)
LEMMA KeysSentOne ==
    ASSUME InputTypeOK, KeysInv, NEW e \in Event, Send(<<e>>),
           NEW k \in Keys,
           e \notin KeyOff(k) /\ k \in held /\ focused => k \in held' /\ focused',
           e \in KeyOn(k) => k \in held' /\ focused',
           Alive(queue', k, mKeys', KeyOn(k), KeyOff(k))
    PROVE  k \in held' /\ focused'
<1> DEFINE es == <<e>>
<1>1. es \in Seq(Event) /\ Len(es) = 1 /\ es[1] = e /\ Send(es)
  OBVIOUS
<1> HIDE DEF es
<1>2. (\A j \in 1 .. Len(es) : es[j] \notin KeyOff(k)) => e \notin KeyOff(k)
  BY <1>1
<1>3. (\E j \in 1 .. Len(es) : es[j] \in KeyOn(k)) => e \in KeyOn(k)
  BY <1>1
<1>4. QED  BY <1>1, <1>2, <1>3, KeysSent

(* The events that are sent press no key, and no key or focus is lost.     *)
LEMMA KeysUntouched ==
    ASSUME InputTypeOK, KeysInv, NEW es \in Seq(Event), Send(es),
           \A j \in 1 .. Len(es) : es[j].type # "KeyPress",
           NEW k \in Keys, held \subseteq held', focused => focused',
           Alive(queue', k, mKeys', KeyOn(k), KeyOff(k))
    PROVE  k \in held' /\ focused'
<1>1. \A j \in 1 .. Len(es) : es[j] \notin KeyOn(k)
  BY DEF KeyOn
<1>2. k \in held /\ focused => k \in held' /\ focused'
  OBVIOUS
<1>3. QED  BY <1>1, <1>2, KeysSent

LEMMA UserKeys ==
    ASSUME InputTypeOK, InputAssumption, KeysInv, User
    PROVE  KeysInv'
<1>0. UserTypeOK  BY DEF InputTypeOK
<1> SUFFICES ASSUME NEW k \in Keys, Alive(queue', k, mKeys', KeyOn(k), KeyOff(k))
             PROVE  k \in held' /\ focused'
  BY DEF KeysInv
<1>1. ASSUME NEW l \in Keys, PressKey(l) PROVE k \in held' /\ focused'
  <2>1. /\ KeyEvent("KeyPress", l) \in Event
        /\ KeyEvent("KeyPress", l) \in KeyOn(k) => k = l
    BY <1>0, EventType DEF KeyOn, KeyEvent
  <2>2. /\ k \in held => k \in held'
        /\ l \in held' /\ focused' = focused /\ focused
        /\ Send(<<KeyEvent("KeyPress", l)>>)
    BY <1>1 DEF PressKey
  <2>3. QED  BY <2>1, <2>2, KeysSentOne
<1>2. ASSUME NEW l \in Keys, RepeatKey(l) PROVE k \in held' /\ focused'
  <2> DEFINE es == <<KeyEvent("KeyRelease", l), KeyEvent("KeyPress", l)>>
  <2>1. es \in Seq(Event)  BY <1>0, EventType
  <2>2. held' = held /\ focused' = focused /\ focused /\ l \in held /\ Send(es)
    BY <1>2 DEF RepeatKey, userVars
  <2>3. \A j \in 1 .. Len(es) : es[j] \in KeyOn(k) => k = l
    BY DEF KeyOn, KeyEvent
  <2> HIDE DEF es
  <2>4. (\E j \in 1 .. Len(es) : es[j] \in KeyOn(k)) => k \in held' /\ focused'
    BY <2>2, <2>3
  <2>5. QED  BY <2>1, <2>2, <2>4, KeysSent
<1>3. ASSUME NEW l \in Keys, ReleaseKey(l) PROVE k \in held' /\ focused'
  <2> DEFINE e == KeyEvent("KeyRelease", l)
  <2>1. held' = held \ {l} /\ focused' = focused /\ Send(IF focused THEN <<e>> ELSE <<>>)
    BY <1>3 DEF ReleaseKey
  <2>2. /\ e \in Event
        /\ e \notin KeyOn(k)
        /\ e \notin KeyOff(k) => k # l
    BY <1>0, EventType DEF KeyOn, KeyOff, KeyEvent
  <2> HIDE DEF e
  <2>3. CASE focused
    <3>1. Send(<<e>>)  BY <2>1, <2>3
    <3>2. e \notin KeyOff(k) /\ k \in held /\ focused => k \in held' /\ focused'
      BY <2>1, <2>2
    <3>3. QED  BY <2>2, <3>1, <3>2, KeysSentOne
  <2>4. CASE ~focused
    <3> DEFINE none == <<>>
    <3>1. none \in Seq(Event) /\ Len(none) = 0 /\ Send(none)  BY <2>1, <2>4, EmptySeq
    <3> HIDE DEF none
    <3>2. ~ \E j \in 1 .. Len(none) : none[j] \in KeyOn(k)
      BY <3>1
    <3>3. QED  BY <2>4, <3>1, <3>2, KeysSent
  <2>5. QED  BY <2>3, <2>4
<1>4. ASSUME NEW b \in Buttons, PressButton(b) PROVE k \in held' /\ focused'
  <2> DEFINE es == <<ButtonEvent("ButtonPress", b)>>
  <2>1. es \in Seq(Event)  BY <1>0, EventType, EmptySeq
  <2>2. \A j \in 1 .. Len(es) : es[j].type # "KeyPress"
    BY DEF ButtonEvent
  <2>3. Send(es)  BY <1>4 DEF PressButton
  <2>4. held \subseteq held' /\ (focused => focused')  BY <1>4 DEF PressButton
  <2> HIDE DEF es
  <2>5. QED  BY <2>1, <2>2, <2>3, <2>4, KeysUntouched
<1>5. ASSUME NEW b \in Buttons, ReleaseButton(b) PROVE k \in held' /\ focused'
  <2> DEFINE es == <<ButtonEvent("ButtonRelease", b)>>
  <2>1. es \in Seq(Event)  BY <1>0, EventType, EmptySeq
  <2>2. \A j \in 1 .. Len(es) : es[j].type # "KeyPress"
    BY DEF ButtonEvent
  <2>3. Send(es)  BY <1>5 DEF ReleaseButton
  <2>4. held \subseteq held' /\ (focused => focused')  BY <1>5 DEF ReleaseButton
  <2> HIDE DEF es
  <2>5. QED  BY <2>1, <2>2, <2>3, <2>4, KeysUntouched
<1>6. ASSUME NEW b \in {WheelUp, WheelDown}, Scroll(b) PROVE k \in held' /\ focused'
  <2> DEFINE es == <<ButtonEvent("ButtonPress", b), ButtonEvent("ButtonRelease", b)>>
  <2>1. es \in Seq(Event)  BY <1>0, EventType, EmptySeq
  <2>2. \A j \in 1 .. Len(es) : es[j].type # "KeyPress"
    BY DEF ButtonEvent
  <2>3. Send(es)  BY <1>6 DEF Scroll
  <2>4. held \subseteq held' /\ (focused => focused')  BY <1>6 DEF Scroll
  <2> HIDE DEF es
  <2>5. QED  BY <2>1, <2>2, <2>3, <2>4, KeysUntouched
<1>7. ASSUME NEW x \in 0 .. MaxX, MovePointer(x) PROVE k \in held' /\ focused'
  <2> DEFINE es == <<[type |-> "Motion", x |-> x]>>
  <2>1. es \in Seq(Event)  BY <1>0, EventType, EmptySeq
  <2>2. \A j \in 1 .. Len(es) : es[j].type # "KeyPress"
    BY DEF ButtonEvent
  <2>3. Send(es)  BY <1>7 DEF MovePointer
  <2>4. held \subseteq held' /\ (focused => focused')  BY <1>7 DEF MovePointer
  <2> HIDE DEF es
  <2>5. QED  BY <2>1, <2>2, <2>3, <2>4, KeysUntouched
<1>8. ASSUME NEW elsewhere \in SUBSET Keys, GainFocus(elsewhere)
      PROVE  k \in held' /\ focused'
  <2> DEFINE es == <<>>
  <2>1. es \in Seq(Event)  BY <1>0, EventType, EmptySeq
  <2>2. \A j \in 1 .. Len(es) : es[j].type # "KeyPress"
    BY DEF ButtonEvent
  <2>3. Send(es)  BY <1>8 DEF GainFocus
  <2>4. held \subseteq held' /\ (focused => focused')  BY <1>8 DEF GainFocus
  <2> HIDE DEF es
  <2>5. QED  BY <2>1, <2>2, <2>3, <2>4, KeysUntouched
<1>9. ASSUME NEW s \in Sizes, Resize(s) PROVE k \in held' /\ focused'
  <2> DEFINE es == <<[type |-> "Configure", size |-> s]>>
  <2>1. es \in Seq(Event)  BY <1>0, EventType, EmptySeq
  <2>2. \A j \in 1 .. Len(es) : es[j].type # "KeyPress"
    BY DEF ButtonEvent
  <2>3. Send(es)  BY <1>9 DEF Resize, userVars
  <2>4. held \subseteq held' /\ (focused => focused')  BY <1>9 DEF Resize, userVars
  <2> HIDE DEF es
  <2>5. QED  BY <2>1, <2>2, <2>3, <2>4, KeysUntouched
<1>10. CASE LoseFocus
  <2> DEFINE e == [type |-> "FocusOut"]
  <2>1. e \in Event /\ e \in KeyOff(k) /\ e \notin KeyOn(k)
    BY <1>0, EventType DEF KeyOn, KeyOff
  <2>2. Send(<<e>>)  BY <1>10 DEF LoseFocus
  <2> HIDE DEF e
  <2>3. QED  BY <2>1, <2>2, KeysSentOne
<1>11. CASE CloseButton
  <2> DEFINE es == <<[type |-> "Client"]>>
  <2>1. es \in Seq(Event)  BY <1>0, EventType, EmptySeq
  <2>2. \A j \in 1 .. Len(es) : es[j].type # "KeyPress"
    BY DEF ButtonEvent
  <2>3. Send(es)  BY <1>11 DEF CloseButton, userVars
  <2>4. held \subseteq held' /\ (focused => focused')  BY <1>11 DEF CloseButton, userVars
  <2> HIDE DEF es
  <2>5. QED  BY <2>1, <2>2, <2>3, <2>4, KeysUntouched
<1>12. QED
  BY <1>1, <1>2, <1>3, <1>4, <1>5, <1>6, <1>7, <1>8, <1>9, <1>10, <1>11 DEF User

LEMMA MessageKeys ==
    ASSUME InputTypeOK, KeysInv, ProcessMessage
    PROVE  KeysInv'
<1> SUFFICES ASSUME NEW k \in Keys, Alive(queue', k, mKeys', KeyOn(k), KeyOff(k))
             PROVE  k \in held' /\ focused'
  BY DEF KeysInv
<1>1. /\ queue # <<>> /\ queue' = Tail(queue) /\ held' = held /\ focused' = focused
      /\ queue \in Seq(Event)
  BY DEF ProcessMessage, ClientMessage, KeyPress, KeyRelease, Motion, ButtonPress,
         ButtonRelease, LostFocus, ConfigureNotify, Handle, userVars, InputTypeOK
<1>2. Head(queue) \in Event  BY <1>1, HeadEvent
<1>3. k \in mKeys' => \/ Head(queue) \in KeyOn(k)
                      \/ k \in mKeys /\ Head(queue) \notin KeyOff(k)
  <2> USE DEF KeyOn, KeyOff
  <2>1. CASE KeyPress  BY <2>1, <1>2 DEF KeyPress, Handle
  <2>2. CASE KeyRelease  BY <2>2, <1>2 DEF KeyRelease, Handle
  <2>3. CASE LostFocus  BY <2>3 DEF LostFocus
  <2>4. CASE ClientMessage \/ Motion \/ ButtonPress \/ ButtonRelease \/ ConfigureNotify
    BY <2>4 DEF ClientMessage, Motion, ButtonPress, ButtonRelease, ConfigureNotify, Handle,
           tables, sizes
  <2>5. QED  BY <2>1, <2>2, <2>3, <2>4 DEF ProcessMessage
<1>4. Alive(Tail(queue), k, mKeys', KeyOn(k), KeyOff(k))
  BY <1>1
<1>5. Alive(queue, k, mKeys, KeyOn(k), KeyOff(k))
  BY <1>1, <1>3, <1>4, AliveTail
<1>6. QED  BY <1>1, <1>5 DEF KeysInv

-----------------------------------------------------------------------------
(* No button stays down in the table.                                      *)

ButtonOn(c) == {e \in Event : e.type = "ButtonPress" /\ e.button = c}
ButtonOff(c) == {e \in Event : e.type = "FocusOut" \/ (e.type = "ButtonRelease" /\ e.button = c)}

ButtonsInv == \A c \in Buttons : Alive(queue, c, mMouseButtons, ButtonOn(c), ButtonOff(c))
                                 => c \in pressed

LEMMA ButtonsSent ==
    ASSUME InputTypeOK, ButtonsInv, NEW es \in Seq(Event), Send(es),
           NEW c \in Buttons,
           (\A j \in 1 .. Len(es) : es[j] \notin ButtonOff(c)) /\ c \in pressed => c \in pressed',
           (\E j \in 1 .. Len(es) : /\ es[j] \in ButtonOn(c)
                                    /\ \A i \in j + 1 .. Len(es) : es[i] \notin ButtonOff(c))
               => c \in pressed',
           Alive(queue', c, mMouseButtons', ButtonOn(c), ButtonOff(c))
    PROVE  c \in pressed'
<1>1. queue' = queue \o es /\ mMouseButtons' = mMouseButtons /\ queue \in Seq(Event)
  BY DEF Send, tables, sizes, InputTypeOK
<1>2. Alive(queue \o es, c, mMouseButtons, ButtonOn(c), ButtonOff(c))
  BY <1>1
<1>3. \/ /\ Alive(queue, c, mMouseButtons, ButtonOn(c), ButtonOff(c))
         /\ \A j \in 1 .. Len(es) : es[j] \notin ButtonOff(c)
      \/ \E j \in 1 .. Len(es) : /\ es[j] \in ButtonOn(c)
                                 /\ \A i \in j + 1 .. Len(es) : es[i] \notin ButtonOff(c)
  BY <1>1, <1>2, AliveConcat
<1>4. QED  BY <1>3 DEF ButtonsInv

(* The events that are sent press none of the three buttons.               *)
LEMMA ButtonsUntouched ==
    ASSUME InputTypeOK, ButtonsInv, NEW es \in Seq(Event), Send(es),
           \A j \in 1 .. Len(es) : es[j].type = "ButtonPress" => es[j].button \notin MButtons,
           NEW c \in Buttons, pressed \subseteq pressed', InputAssumption,
           Alive(queue', c, mMouseButtons', ButtonOn(c), ButtonOff(c))
    PROVE  c \in pressed'
<1>1. c \in MButtons  BY InputAssumption DEF InputAssumption
<1>2. \A j \in 1 .. Len(es) : es[j] \notin ButtonOn(c)
  BY <1>1 DEF ButtonOn
<1>3. QED  BY <1>2, ButtonsSent

LEMMA UserButtons ==
    ASSUME InputTypeOK, InputAssumption, ButtonsInv, User
    PROVE  ButtonsInv'
<1>0. UserTypeOK  BY DEF InputTypeOK
<1> SUFFICES ASSUME NEW c \in Buttons, Alive(queue', c, mMouseButtons', ButtonOn(c), ButtonOff(c))
             PROVE  c \in pressed'
  BY DEF ButtonsInv
<1>1. ASSUME NEW k \in Keys, PressKey(k) PROVE c \in pressed'
  <2> DEFINE es == <<KeyEvent("KeyPress", k)>>
  <2>1. es \in Seq(Event)  BY <1>0, EventType, EmptySeq
  <2>2. \A j \in 1 .. Len(es) : es[j].type = "ButtonPress" => es[j].button \notin MButtons
    BY DEF KeyEvent, ButtonEvent, MButtons, WheelUp, WheelDown
  <2>3. Send(es) /\ pressed' = pressed  BY <1>1 DEF PressKey
  <2> HIDE DEF es
  <2>4. QED  BY <2>1, <2>2, <2>3, ButtonsUntouched
<1>2. ASSUME NEW k \in Keys, RepeatKey(k) PROVE c \in pressed'
  <2> DEFINE es == <<KeyEvent("KeyRelease", k), KeyEvent("KeyPress", k)>>
  <2>1. es \in Seq(Event)  BY <1>0, EventType, EmptySeq
  <2>2. \A j \in 1 .. Len(es) : es[j].type = "ButtonPress" => es[j].button \notin MButtons
    BY DEF KeyEvent, ButtonEvent, MButtons, WheelUp, WheelDown
  <2>3. Send(es) /\ pressed' = pressed  BY <1>2 DEF RepeatKey, userVars
  <2> HIDE DEF es
  <2>4. QED  BY <2>1, <2>2, <2>3, ButtonsUntouched
<1>3. ASSUME NEW k \in Keys, ReleaseKey(k) PROVE c \in pressed'
  <2> DEFINE es == IF focused THEN <<KeyEvent("KeyRelease", k)>> ELSE <<>>
  <2>1. es \in Seq(Event)  BY <1>0, EventType, EmptySeq
  <2>2. \A j \in 1 .. Len(es) : es[j].type = "ButtonPress" => es[j].button \notin MButtons
    BY DEF KeyEvent, ButtonEvent, MButtons, WheelUp, WheelDown
  <2>3. Send(es) /\ pressed' = pressed  BY <1>3 DEF ReleaseKey
  <2> HIDE DEF es
  <2>4. QED  BY <2>1, <2>2, <2>3, ButtonsUntouched
<1>4. ASSUME NEW b \in Buttons, PressButton(b) PROVE c \in pressed'
  <2> DEFINE es == <<ButtonEvent("ButtonPress", b)>>
  <2>1. es \in Seq(Event)  BY <1>0, EventType
  <2>2. Send(es) /\ pressed' = pressed \cup {b}  BY <1>4 DEF PressButton
  <2>3. \A j \in 1 .. Len(es) : es[j] \in ButtonOn(c) => c = b
    BY DEF ButtonOn, ButtonEvent
  <2> HIDE DEF es
  <2>4. (\E j \in 1 .. Len(es) : es[j] \in ButtonOn(c)) => c \in pressed'
    BY <2>2, <2>3
  <2>5. QED  BY <2>1, <2>2, <2>4, ButtonsSent
<1>5. ASSUME NEW b \in Buttons, ReleaseButton(b) PROVE c \in pressed'
  <2> DEFINE es == <<ButtonEvent("ButtonRelease", b)>>
  <2>1. es \in Seq(Event)  BY <1>0, EventType
  <2>2. Send(es) /\ pressed' = pressed \ {b}  BY <1>5 DEF ReleaseButton
  <2>3. \A j \in 1 .. Len(es) : es[j] \notin ButtonOn(c)
    BY DEF ButtonOn, ButtonEvent
  <2>4. (\A j \in 1 .. Len(es) : es[j] \notin ButtonOff(c)) => c # b
    BY <2>1 DEF ButtonOff, ButtonEvent
  <2> HIDE DEF es
  <2>5. QED  BY <2>1, <2>2, <2>3, <2>4, ButtonsSent
<1>6. ASSUME NEW b \in {WheelUp, WheelDown}, Scroll(b) PROVE c \in pressed'
  <2> DEFINE es == <<ButtonEvent("ButtonPress", b), ButtonEvent("ButtonRelease", b)>>
  <2>1. es \in Seq(Event)  BY <1>0, EventType, EmptySeq
  <2>2. \A j \in 1 .. Len(es) : es[j].type = "ButtonPress" => es[j].button \notin MButtons
    BY DEF KeyEvent, ButtonEvent, MButtons, WheelUp, WheelDown
  <2>3. Send(es) /\ pressed' = pressed  BY <1>6 DEF Scroll
  <2> HIDE DEF es
  <2>4. QED  BY <2>1, <2>2, <2>3, ButtonsUntouched
<1>7. ASSUME NEW x \in 0 .. MaxX, MovePointer(x) PROVE c \in pressed'
  <2> DEFINE es == <<[type |-> "Motion", x |-> x]>>
  <2>1. es \in Seq(Event)  BY <1>0, EventType, EmptySeq
  <2>2. \A j \in 1 .. Len(es) : es[j].type = "ButtonPress" => es[j].button \notin MButtons
    BY DEF KeyEvent, ButtonEvent, MButtons, WheelUp, WheelDown
  <2>3. Send(es) /\ pressed' = pressed  BY <1>7 DEF MovePointer
  <2> HIDE DEF es
  <2>4. QED  BY <2>1, <2>2, <2>3, ButtonsUntouched
<1>8. ASSUME NEW elsewhere \in SUBSET Keys, GainFocus(elsewhere) PROVE c \in pressed'
  <2> DEFINE es == <<>>
  <2>1. es \in Seq(Event)  BY <1>0, EventType, EmptySeq
  <2>2. \A j \in 1 .. Len(es) : es[j].type = "ButtonPress" => es[j].button \notin MButtons
    BY DEF KeyEvent, ButtonEvent, MButtons, WheelUp, WheelDown
  <2>3. Send(es) /\ pressed' = pressed  BY <1>8 DEF GainFocus
  <2> HIDE DEF es
  <2>4. QED  BY <2>1, <2>2, <2>3, ButtonsUntouched
<1>9. ASSUME NEW z \in Sizes, Resize(z) PROVE c \in pressed'
  <2> DEFINE es == <<[type |-> "Configure", size |-> z]>>
  <2>1. es \in Seq(Event)  BY <1>0, EventType, EmptySeq
  <2>2. \A j \in 1 .. Len(es) : es[j].type = "ButtonPress" => es[j].button \notin MButtons
    BY DEF KeyEvent, ButtonEvent, MButtons, WheelUp, WheelDown
  <2>3. Send(es) /\ pressed' = pressed  BY <1>9 DEF Resize, userVars
  <2> HIDE DEF es
  <2>4. QED  BY <2>1, <2>2, <2>3, ButtonsUntouched
<1>10. CASE LoseFocus
  <2> DEFINE es == <<[type |-> "FocusOut"]>>
  <2>1. es \in Seq(Event)  BY <1>0, EventType, EmptySeq
  <2>2. \A j \in 1 .. Len(es) : es[j].type = "ButtonPress" => es[j].button \notin MButtons
    BY DEF KeyEvent, ButtonEvent, MButtons, WheelUp, WheelDown
  <2>3. Send(es) /\ pressed' = pressed  BY <1>10 DEF LoseFocus
  <2> HIDE DEF es
  <2>4. QED  BY <2>1, <2>2, <2>3, ButtonsUntouched
<1>11. CASE CloseButton
  <2> DEFINE es == <<[type |-> "Client"]>>
  <2>1. es \in Seq(Event)  BY <1>0, EventType, EmptySeq
  <2>2. \A j \in 1 .. Len(es) : es[j].type = "ButtonPress" => es[j].button \notin MButtons
    BY DEF KeyEvent, ButtonEvent, MButtons, WheelUp, WheelDown
  <2>3. Send(es) /\ pressed' = pressed  BY <1>11 DEF CloseButton, userVars
  <2> HIDE DEF es
  <2>4. QED  BY <2>1, <2>2, <2>3, ButtonsUntouched
<1>12. QED
  BY <1>1, <1>2, <1>3, <1>4, <1>5, <1>6, <1>7, <1>8, <1>9, <1>10, <1>11 DEF User

LEMMA MessageButtons ==
    ASSUME InputTypeOK, InputAssumption, ButtonsInv, ProcessMessage
    PROVE  ButtonsInv'
<1> SUFFICES ASSUME NEW c \in Buttons, Alive(queue', c, mMouseButtons', ButtonOn(c), ButtonOff(c))
             PROVE  c \in pressed'
  BY DEF ButtonsInv
<1>1. /\ queue # <<>> /\ queue' = Tail(queue) /\ pressed' = pressed
      /\ queue \in Seq(Event)
  BY DEF ProcessMessage, ClientMessage, KeyPress, KeyRelease, Motion, ButtonPress,
         ButtonRelease, LostFocus, ConfigureNotify, Handle, userVars, InputTypeOK
<1>2. Head(queue) \in Event  BY <1>1, HeadEvent
<1>3. c \in mMouseButtons' => \/ Head(queue) \in ButtonOn(c)
                              \/ c \in mMouseButtons /\ Head(queue) \notin ButtonOff(c)
  <2> USE DEF ButtonOn, ButtonOff
  <2>1. CASE ButtonPress  BY <2>1, <1>2 DEF ButtonPress, Handle
  <2>2. CASE ButtonRelease  BY <2>2, <1>2 DEF ButtonRelease, MouseUp, Handle
  <2>3. CASE LostFocus
    BY <2>3, InputAssumption DEF LostFocus, MouseUp, InputAssumption
  <2>4. CASE ClientMessage \/ Motion \/ KeyPress \/ KeyRelease \/ ConfigureNotify
    BY <2>4 DEF ClientMessage, Motion, KeyPress, KeyRelease, ConfigureNotify, Handle,
           tables, sizes
  <2>5. QED  BY <2>1, <2>2, <2>3, <2>4 DEF ProcessMessage
<1>4. Alive(Tail(queue), c, mMouseButtons', ButtonOn(c), ButtonOff(c))
  BY <1>1
<1>5. Alive(queue, c, mMouseButtons, ButtonOn(c), ButtonOff(c))
  BY <1>1, <1>3, <1>4, AliveTail
<1>6. QED  BY <1>1, <1>5 DEF ButtonsInv

(* The grab follows the table at every step.                               *)
GrabInv == grabbed <=> mMouseButtons # {}

LEMMA MessageGrab ==
    ASSUME InputTypeOK, GrabInv, ProcessMessage
    PROVE  GrabInv'
<1> USE DEF GrabInv
<1>1. CASE ButtonPress  BY <1>1 DEF ButtonPress
<1>2. CASE ButtonRelease  BY <1>2 DEF ButtonRelease, MouseUp
<1>3. CASE LostFocus  BY <1>3 DEF LostFocus, MouseUp
<1>4. CASE ClientMessage \/ Motion \/ KeyPress \/ KeyRelease \/ ConfigureNotify
  BY <1>4 DEF ClientMessage, Motion, KeyPress, KeyRelease, ConfigureNotify, tables
<1>5. QED  BY <1>1, <1>2, <1>3, <1>4 DEF ProcessMessage

-----------------------------------------------------------------------------
(* The viewport follows the window's size.                                 *)

SizeOn(s) == {e \in Event : e.type = "Configure" /\ e.size = s}
SizeOff == {e \in Event : e.type = "Configure"}

SizesInv == \A s \in Sizes : Alive(queue, s, {mSize}, SizeOn(s), SizeOff) => s = shape

LEMMA SizesSent ==
    ASSUME InputTypeOK, SizesInv, NEW es \in Seq(Event), Send(es),
           NEW s \in Sizes,
           (\A j \in 1 .. Len(es) : es[j] \notin SizeOff) /\ s = shape => s = shape',
           (\E j \in 1 .. Len(es) : /\ es[j] \in SizeOn(s)
                                    /\ \A i \in j + 1 .. Len(es) : es[i] \notin SizeOff)
               => s = shape',
           Alive(queue', s, {mSize}', SizeOn(s), SizeOff)
    PROVE  s = shape'
<1>1. queue' = queue \o es /\ {mSize}' = {mSize} /\ queue \in Seq(Event)
  BY DEF Send, tables, sizes, InputTypeOK
<1>2. Alive(queue \o es, s, {mSize}, SizeOn(s), SizeOff)
  BY <1>1
<1>3. \/ /\ Alive(queue, s, {mSize}, SizeOn(s), SizeOff)
         /\ \A j \in 1 .. Len(es) : es[j] \notin SizeOff
      \/ \E j \in 1 .. Len(es) : /\ es[j] \in SizeOn(s)
                                 /\ \A i \in j + 1 .. Len(es) : es[i] \notin SizeOff
  BY <1>1, <1>2, AliveConcat
<1>4. QED  BY <1>3 DEF SizesInv

(* The events that are sent report no size.                                *)
LEMMA SizesUntouched ==
    ASSUME InputTypeOK, SizesInv, NEW es \in Seq(Event), Send(es),
           \A j \in 1 .. Len(es) : es[j].type # "Configure",
           NEW s \in Sizes, shape' = shape,
           Alive(queue', s, {mSize}', SizeOn(s), SizeOff)
    PROVE  s = shape'
<1>1. \A j \in 1 .. Len(es) : es[j] \notin SizeOn(s)
  BY DEF SizeOn
<1>2. QED  BY <1>1, SizesSent

LEMMA UserSizes ==
    ASSUME InputTypeOK, InputAssumption, SizesInv, User
    PROVE  SizesInv'
<1>0. UserTypeOK  BY DEF InputTypeOK
<1> SUFFICES ASSUME NEW s \in Sizes, Alive(queue', s, {mSize}', SizeOn(s), SizeOff)
             PROVE  s = shape'
  BY DEF SizesInv
<1>1. ASSUME NEW k \in Keys, PressKey(k) PROVE s = shape'
  <2> DEFINE es == <<KeyEvent("KeyPress", k)>>
  <2>1. es \in Seq(Event)  BY <1>0, EventType, EmptySeq
  <2>2. \A j \in 1 .. Len(es) : es[j].type # "Configure"
    BY DEF KeyEvent, ButtonEvent
  <2>3. Send(es) /\ shape' = shape  BY <1>1 DEF PressKey
  <2> HIDE DEF es
  <2>4. QED  BY <2>1, <2>2, <2>3, SizesUntouched
<1>2. ASSUME NEW k \in Keys, RepeatKey(k) PROVE s = shape'
  <2> DEFINE es == <<KeyEvent("KeyRelease", k), KeyEvent("KeyPress", k)>>
  <2>1. es \in Seq(Event)  BY <1>0, EventType, EmptySeq
  <2>2. \A j \in 1 .. Len(es) : es[j].type # "Configure"
    BY DEF KeyEvent, ButtonEvent
  <2>3. Send(es) /\ shape' = shape  BY <1>2 DEF RepeatKey, userVars
  <2> HIDE DEF es
  <2>4. QED  BY <2>1, <2>2, <2>3, SizesUntouched
<1>3. ASSUME NEW k \in Keys, ReleaseKey(k) PROVE s = shape'
  <2> DEFINE es == IF focused THEN <<KeyEvent("KeyRelease", k)>> ELSE <<>>
  <2>1. es \in Seq(Event)  BY <1>0, EventType, EmptySeq
  <2>2. \A j \in 1 .. Len(es) : es[j].type # "Configure"
    BY DEF KeyEvent, ButtonEvent
  <2>3. Send(es) /\ shape' = shape  BY <1>3 DEF ReleaseKey
  <2> HIDE DEF es
  <2>4. QED  BY <2>1, <2>2, <2>3, SizesUntouched
<1>4. ASSUME NEW b \in Buttons, PressButton(b) PROVE s = shape'
  <2> DEFINE es == <<ButtonEvent("ButtonPress", b)>>
  <2>1. es \in Seq(Event)  BY <1>0, EventType, EmptySeq
  <2>2. \A j \in 1 .. Len(es) : es[j].type # "Configure"
    BY DEF KeyEvent, ButtonEvent
  <2>3. Send(es) /\ shape' = shape  BY <1>4 DEF PressButton
  <2> HIDE DEF es
  <2>4. QED  BY <2>1, <2>2, <2>3, SizesUntouched
<1>5. ASSUME NEW b \in Buttons, ReleaseButton(b) PROVE s = shape'
  <2> DEFINE es == <<ButtonEvent("ButtonRelease", b)>>
  <2>1. es \in Seq(Event)  BY <1>0, EventType, EmptySeq
  <2>2. \A j \in 1 .. Len(es) : es[j].type # "Configure"
    BY DEF KeyEvent, ButtonEvent
  <2>3. Send(es) /\ shape' = shape  BY <1>5 DEF ReleaseButton
  <2> HIDE DEF es
  <2>4. QED  BY <2>1, <2>2, <2>3, SizesUntouched
<1>6. ASSUME NEW b \in {WheelUp, WheelDown}, Scroll(b) PROVE s = shape'
  <2> DEFINE es == <<ButtonEvent("ButtonPress", b), ButtonEvent("ButtonRelease", b)>>
  <2>1. es \in Seq(Event)  BY <1>0, EventType, EmptySeq
  <2>2. \A j \in 1 .. Len(es) : es[j].type # "Configure"
    BY DEF KeyEvent, ButtonEvent
  <2>3. Send(es) /\ shape' = shape  BY <1>6 DEF Scroll
  <2> HIDE DEF es
  <2>4. QED  BY <2>1, <2>2, <2>3, SizesUntouched
<1>7. ASSUME NEW x \in 0 .. MaxX, MovePointer(x) PROVE s = shape'
  <2> DEFINE es == <<[type |-> "Motion", x |-> x]>>
  <2>1. es \in Seq(Event)  BY <1>0, EventType, EmptySeq
  <2>2. \A j \in 1 .. Len(es) : es[j].type # "Configure"
    BY DEF KeyEvent, ButtonEvent
  <2>3. Send(es) /\ shape' = shape  BY <1>7 DEF MovePointer
  <2> HIDE DEF es
  <2>4. QED  BY <2>1, <2>2, <2>3, SizesUntouched
<1>8. ASSUME NEW elsewhere \in SUBSET Keys, GainFocus(elsewhere) PROVE s = shape'
  <2> DEFINE es == <<>>
  <2>1. es \in Seq(Event)  BY <1>0, EventType, EmptySeq
  <2>2. \A j \in 1 .. Len(es) : es[j].type # "Configure"
    BY DEF KeyEvent, ButtonEvent
  <2>3. Send(es) /\ shape' = shape  BY <1>8 DEF GainFocus
  <2> HIDE DEF es
  <2>4. QED  BY <2>1, <2>2, <2>3, SizesUntouched
<1>9. ASSUME NEW z \in Sizes, Resize(z) PROVE s = shape'
  <2> DEFINE es == <<[type |-> "Configure", size |-> z]>>
  <2>1. es \in Seq(Event)  BY <1>0, EventType
  <2>2. Send(es) /\ shape' = z  BY <1>9 DEF Resize
  <2>3. /\ \A j \in 1 .. Len(es) : es[j] \in SizeOn(s) => s = z
        /\ 1 \in 1 .. Len(es) /\ es[1] \in SizeOff
    BY <2>1 DEF SizeOn, SizeOff
  <2> HIDE DEF es
  <2>4. (\E j \in 1 .. Len(es) : es[j] \in SizeOn(s)) => s = shape'
    BY <2>2, <2>3
  <2>5. QED  BY <2>1, <2>2, <2>3, <2>4, SizesSent
<1>10. CASE LoseFocus
  <2> DEFINE es == <<[type |-> "FocusOut"]>>
  <2>1. es \in Seq(Event)  BY <1>0, EventType, EmptySeq
  <2>2. \A j \in 1 .. Len(es) : es[j].type # "Configure"
    BY DEF KeyEvent, ButtonEvent
  <2>3. Send(es) /\ shape' = shape  BY <1>10 DEF LoseFocus
  <2> HIDE DEF es
  <2>4. QED  BY <2>1, <2>2, <2>3, SizesUntouched
<1>11. CASE CloseButton
  <2> DEFINE es == <<[type |-> "Client"]>>
  <2>1. es \in Seq(Event)  BY <1>0, EventType, EmptySeq
  <2>2. \A j \in 1 .. Len(es) : es[j].type # "Configure"
    BY DEF KeyEvent, ButtonEvent
  <2>3. Send(es) /\ shape' = shape  BY <1>11 DEF CloseButton, userVars
  <2> HIDE DEF es
  <2>4. QED  BY <2>1, <2>2, <2>3, SizesUntouched
<1>12. QED
  BY <1>1, <1>2, <1>3, <1>4, <1>5, <1>6, <1>7, <1>8, <1>9, <1>10, <1>11 DEF User

LEMMA MessageSizes ==
    ASSUME InputTypeOK, SizesInv, viewport = mSize, ProcessMessage
    PROVE  SizesInv' /\ viewport' = mSize'
<1>1. /\ queue # <<>> /\ queue' = Tail(queue) /\ shape' = shape
      /\ queue \in Seq(Event)
  BY DEF ProcessMessage, ClientMessage, KeyPress, KeyRelease, Motion, ButtonPress,
         ButtonRelease, LostFocus, ConfigureNotify, Handle, InputTypeOK
<1>2. Head(queue) \in Event  BY <1>1, HeadEvent
<1>3. ASSUME NEW s \in Sizes
      PROVE  s \in {mSize}' => \/ Head(queue) \in SizeOn(s)
                               \/ s \in {mSize} /\ Head(queue) \notin SizeOff
  <2> USE DEF SizeOn, SizeOff
  <2>1. CASE ConfigureNotify  BY <2>1, <1>2 DEF ConfigureNotify, Handle
  <2>2. CASE ~ConfigureNotify
    BY <2>2 DEF ProcessMessage, ClientMessage, KeyPress, KeyRelease, Motion, ButtonPress,
           ButtonRelease, LostFocus, Handle, sizes
  <2>3. QED  BY <2>1, <2>2
<1>4. ASSUME NEW s \in Sizes, Alive(queue', s, {mSize}', SizeOn(s), SizeOff)
      PROVE  s = shape'
  <2>1. Alive(Tail(queue), s, {mSize}', SizeOn(s), SizeOff)  BY <1>1, <1>4
  <2>2. Alive(queue, s, {mSize}, SizeOn(s), SizeOff)  BY <1>1, <1>3, <2>1, AliveTail
  <2>3. QED  BY <1>1, <2>2 DEF SizesInv
<1>5. viewport' = mSize'
  BY DEF ProcessMessage, ClientMessage, KeyPress, KeyRelease, Motion, ButtonPress,
         ButtonRelease, LostFocus, ConfigureNotify, sizes
<1>6. QED  BY <1>4, <1>5 DEF SizesInv

-----------------------------------------------------------------------------
(* Clicks and rays.                                                        *)

(* The clicks in the queue can be counted.                                 *)
LEMMA WaitingTypes ==
    ASSUME InputTypeOK
    PROVE  IsFiniteSet(Waiting) /\ Cardinality(Waiting) \in Nat
<1>1. Len(queue) \in Nat  BY LenProperties DEF InputTypeOK
<1>2. IsFiniteSet(1 .. Len(queue))  BY <1>1, FS_Interval
<1>3. Waiting \in SUBSET (1 .. Len(queue))  BY DEF Waiting
<1>4. QED  BY <1>2, <1>3, FS_Subset, FS_CardinalityType

(* What a sent event adds to them.                                         *)
LEMMA SentWaiting ==
    ASSUME InputTypeOK, NEW es \in Seq(Event), queue' = queue \o es
    PROVE  /\ (\A j \in 1 .. Len(es) : ~IsClick(es[j])) => Waiting' = Waiting
           /\ Len(es) = 1 /\ IsClick(es[1])
                => /\ Waiting' = Waiting \cup {Len(queue) + 1}
                   /\ Len(queue) + 1 \notin Waiting
<1>1. /\ queue \in Seq(Event) /\ Len(queue) \in Nat /\ Len(es) \in Nat
  BY LenProperties DEF InputTypeOK
<1>2. /\ Len(queue') = Len(queue) + Len(es)
      /\ \A i \in 1 .. Len(queue) + Len(es) :
            queue'[i] = IF i <= Len(queue) THEN queue[i] ELSE es[i - Len(queue)]
  BY <1>1, ConcatProperties
<1>3. Waiting' = {n \in 1 .. Len(queue) + Len(es) : IsClick(queue'[n])}
  BY <1>2 DEF Waiting, IsClick
<1>4. ASSUME \A j \in 1 .. Len(es) : ~IsClick(es[j]) PROVE Waiting' = Waiting
  <2>1. ASSUME NEW n \in 1 .. Len(queue) + Len(es)
        PROVE  IsClick(queue'[n]) <=> n <= Len(queue) /\ IsClick(queue[n])
    <3>1. CASE n <= Len(queue)  BY <1>2, <3>1
    <3>2. CASE ~(n <= Len(queue))
      <4>1. n - Len(queue) \in 1 .. Len(es)  BY <1>1, <3>2
      <4>2. ~IsClick(es[n - Len(queue)])  BY <1>4, <4>1
      <4>3. queue'[n] = es[n - Len(queue)]  BY <1>2, <3>2
      <4>4. QED  BY <3>2, <4>2, <4>3
    <3>3. QED  BY <3>1, <3>2
  <2>2. ASSUME NEW n
        PROVE  n \in 1 .. Len(queue) <=> n \in 1 .. Len(queue) + Len(es) /\ n <= Len(queue)
    BY <1>1
  <2>3. QED  BY <1>3, <2>1, <2>2 DEF Waiting
<1>5. ASSUME Len(es) = 1, IsClick(es[1])
      PROVE  Waiting' = Waiting \cup {Len(queue) + 1} /\ Len(queue) + 1 \notin Waiting
  <2>1. Len(queue) + 1 \notin 1 .. Len(queue)
        /\ 1 .. Len(queue) + Len(es) = (1 .. Len(queue)) \cup {Len(queue) + 1}
    BY <1>1, <1>5
  <2>2. \A n \in 1 .. Len(queue) : queue'[n] = queue[n]
    BY <1>1, <1>2
  <2>3. IsClick(queue'[Len(queue) + 1])
    <3>1. Len(queue) + 1 \in 1 .. Len(queue) + Len(es) /\ ~(Len(queue) + 1 <= Len(queue))
          /\ (Len(queue) + 1) - Len(queue) = 1
      BY <1>1, <1>5
    <3>2. queue'[Len(queue) + 1] = es[1]  BY <1>2, <3>1
    <3>3. QED  BY <1>5, <3>2
  <2>4. QED  BY <1>3, <2>1, <2>2, <2>3 DEF Waiting
<1>6. QED  BY <1>4, <1>5

(* An event that is no click leaves what is owed, ...                      *)
LEMMA RaySent ==
    ASSUME InputTypeOK, ClickOwesRay, NEW es \in Seq(Event), Send(es),
           \A j \in 1 .. Len(es) : ~IsClick(es[j]), owed' = owed, clicks' = clicks
    PROVE  ClickOwesRay'
<1>1. queue' = queue \o es /\ mDrawRay' = mDrawRay  BY DEF Send
<1>2. Waiting' = Waiting  BY <1>1, SentWaiting
<1>3. QED  BY <1>1, <1>2 DEF ClickOwesRay

(* ... and a click is owed a ray.                                          *)
LEMMA ClickSent ==
    ASSUME InputTypeOK, ClickOwesRay, clicks \in Nat,
           NEW es \in Seq(Event), Send(es), Len(es) = 1, IsClick(es[1]),
           owed' = owed + 1, clicks' = clicks
    PROVE  ClickOwesRay'
<1>1. queue' = queue \o es /\ mDrawRay' = mDrawRay  BY DEF Send
<1>2. Waiting' = Waiting \cup {Len(queue) + 1} /\ Len(queue) + 1 \notin Waiting
  BY <1>1, SentWaiting
<1>3. Cardinality(Waiting') = Cardinality(Waiting) + 1
  BY <1>2, WaitingTypes, FS_AddElement
<1>4. owed = Cardinality(Waiting) + clicks /\ Cardinality(Waiting) \in Nat
  BY WaitingTypes DEF ClickOwesRay
<1>5. owed' = Cardinality(Waiting') + clicks'
  BY <1>3, <1>4
<1>6. QED  BY <1>1, <1>5 DEF ClickOwesRay

LEMMA UserRay ==
    ASSUME InputTypeOK, ClickOwesRay, clicks \in Nat, User, clicks' = clicks
    PROVE  ClickOwesRay'
<1>0. UserTypeOK  BY DEF InputTypeOK
<1>4. ASSUME NEW b \in Buttons, PressButton(b) PROVE ClickOwesRay'
  <2> DEFINE es == <<ButtonEvent("ButtonPress", b)>>
  <2>1. es \in Seq(Event)  BY <1>0, EventType
  <2>2. Send(es) /\ owed' = IF b = RMB THEN owed + 1 ELSE owed
    BY <1>4 DEF PressButton
  <2>3. Len(es) = 1 /\ (IsClick(es[1]) <=> b = RMB)
    BY DEF IsClick, ButtonEvent
  <2> HIDE DEF es
  <2>4. CASE b = RMB  BY <2>1, <2>2, <2>3, <2>4, ClickSent
  <2>5. CASE b # RMB
    <3>1. \A j \in 1 .. Len(es) : ~IsClick(es[j])  BY <2>3, <2>5
    <3>2. QED  BY <2>1, <2>2, <2>5, <3>1, RaySent
  <2>6. QED  BY <2>4, <2>5
<1>1. ASSUME NEW k \in Keys, PressKey(k) PROVE ClickOwesRay'
  <2> DEFINE es == <<KeyEvent("KeyPress", k)>>
  <2>1. es \in Seq(Event)  BY <1>0, EventType, EmptySeq
  <2>2. \A j \in 1 .. Len(es) : ~IsClick(es[j])
    BY DEF IsClick, KeyEvent, ButtonEvent, WheelUp, WheelDown, RMB
  <2>3. Send(es) /\ owed' = owed  BY <1>1 DEF PressKey
  <2> HIDE DEF es
  <2>4. QED  BY <2>1, <2>2, <2>3, RaySent
<1>2. ASSUME NEW k \in Keys, RepeatKey(k) PROVE ClickOwesRay'
  <2> DEFINE es == <<KeyEvent("KeyRelease", k), KeyEvent("KeyPress", k)>>
  <2>1. es \in Seq(Event)  BY <1>0, EventType, EmptySeq
  <2>2. \A j \in 1 .. Len(es) : ~IsClick(es[j])
    BY DEF IsClick, KeyEvent, ButtonEvent, WheelUp, WheelDown, RMB
  <2>3. Send(es) /\ owed' = owed  BY <1>2 DEF RepeatKey
  <2> HIDE DEF es
  <2>4. QED  BY <2>1, <2>2, <2>3, RaySent
<1>3. ASSUME NEW k \in Keys, ReleaseKey(k) PROVE ClickOwesRay'
  <2> DEFINE es == IF focused THEN <<KeyEvent("KeyRelease", k)>> ELSE <<>>
  <2>1. es \in Seq(Event)  BY <1>0, EventType, EmptySeq
  <2>2. \A j \in 1 .. Len(es) : ~IsClick(es[j])
    BY DEF IsClick, KeyEvent, ButtonEvent, WheelUp, WheelDown, RMB
  <2>3. Send(es) /\ owed' = owed  BY <1>3 DEF ReleaseKey
  <2> HIDE DEF es
  <2>4. QED  BY <2>1, <2>2, <2>3, RaySent
<1>5. ASSUME NEW b \in Buttons, ReleaseButton(b) PROVE ClickOwesRay'
  <2> DEFINE es == <<ButtonEvent("ButtonRelease", b)>>
  <2>1. es \in Seq(Event)  BY <1>0, EventType, EmptySeq
  <2>2. \A j \in 1 .. Len(es) : ~IsClick(es[j])
    BY DEF IsClick, KeyEvent, ButtonEvent, WheelUp, WheelDown, RMB
  <2>3. Send(es) /\ owed' = owed  BY <1>5 DEF ReleaseButton
  <2> HIDE DEF es
  <2>4. QED  BY <2>1, <2>2, <2>3, RaySent
<1>6. ASSUME NEW b \in {WheelUp, WheelDown}, Scroll(b) PROVE ClickOwesRay'
  <2> DEFINE es == <<ButtonEvent("ButtonPress", b), ButtonEvent("ButtonRelease", b)>>
  <2>1. es \in Seq(Event)  BY <1>0, EventType, EmptySeq
  <2>2. \A j \in 1 .. Len(es) : ~IsClick(es[j])
    BY DEF IsClick, KeyEvent, ButtonEvent, WheelUp, WheelDown, RMB
  <2>3. Send(es) /\ owed' = owed  BY <1>6 DEF Scroll
  <2> HIDE DEF es
  <2>4. QED  BY <2>1, <2>2, <2>3, RaySent
<1>7. ASSUME NEW x \in 0 .. MaxX, MovePointer(x) PROVE ClickOwesRay'
  <2> DEFINE es == <<[type |-> "Motion", x |-> x]>>
  <2>1. es \in Seq(Event)  BY <1>0, EventType, EmptySeq
  <2>2. \A j \in 1 .. Len(es) : ~IsClick(es[j])
    BY DEF IsClick, KeyEvent, ButtonEvent, WheelUp, WheelDown, RMB
  <2>3. Send(es) /\ owed' = owed  BY <1>7 DEF MovePointer
  <2> HIDE DEF es
  <2>4. QED  BY <2>1, <2>2, <2>3, RaySent
<1>8. ASSUME NEW elsewhere \in SUBSET Keys, GainFocus(elsewhere) PROVE ClickOwesRay'
  <2> DEFINE es == <<>>
  <2>1. es \in Seq(Event)  BY <1>0, EventType, EmptySeq
  <2>2. \A j \in 1 .. Len(es) : ~IsClick(es[j])
    BY DEF IsClick, KeyEvent, ButtonEvent, WheelUp, WheelDown, RMB
  <2>3. Send(es) /\ owed' = owed  BY <1>8 DEF GainFocus
  <2> HIDE DEF es
  <2>4. QED  BY <2>1, <2>2, <2>3, RaySent
<1>9. ASSUME NEW z \in Sizes, Resize(z) PROVE ClickOwesRay'
  <2> DEFINE es == <<[type |-> "Configure", size |-> z]>>
  <2>1. es \in Seq(Event)  BY <1>0, EventType, EmptySeq
  <2>2. \A j \in 1 .. Len(es) : ~IsClick(es[j])
    BY DEF IsClick, KeyEvent, ButtonEvent, WheelUp, WheelDown, RMB
  <2>3. Send(es) /\ owed' = owed  BY <1>9 DEF Resize
  <2> HIDE DEF es
  <2>4. QED  BY <2>1, <2>2, <2>3, RaySent
<1>10. CASE LoseFocus
  <2> DEFINE es == <<[type |-> "FocusOut"]>>
  <2>1. es \in Seq(Event)  BY <1>0, EventType, EmptySeq
  <2>2. \A j \in 1 .. Len(es) : ~IsClick(es[j])
    BY DEF IsClick, KeyEvent, ButtonEvent, WheelUp, WheelDown, RMB
  <2>3. Send(es) /\ owed' = owed  BY <1>10 DEF LoseFocus
  <2> HIDE DEF es
  <2>4. QED  BY <2>1, <2>2, <2>3, RaySent
<1>11. CASE CloseButton
  <2> DEFINE es == <<[type |-> "Client"]>>
  <2>1. es \in Seq(Event)  BY <1>0, EventType, EmptySeq
  <2>2. \A j \in 1 .. Len(es) : ~IsClick(es[j])
    BY DEF IsClick, KeyEvent, ButtonEvent, WheelUp, WheelDown, RMB
  <2>3. Send(es) /\ owed' = owed  BY <1>11 DEF CloseButton
  <2> HIDE DEF es
  <2>4. QED  BY <2>1, <2>2, <2>3, RaySent
<1>12. QED
  BY <1>1, <1>2, <1>3, <1>4, <1>5, <1>6, <1>7, <1>8, <1>9, <1>10, <1>11 DEF User

LEMMA MessageRay ==
    ASSUME InputTypeOK, ClickOwesRay, clicks \in Nat, ProcessMessage,
           clicks' = IF IsClick(Head(queue)) THEN clicks + 1 ELSE clicks
    PROVE  ClickOwesRay'
<1>1. queue # <<>> /\ queue' = Tail(queue) /\ owed' = owed
  BY DEF ProcessMessage, ClientMessage, KeyPress, KeyRelease, Motion, ButtonPress,
         ButtonRelease, LostFocus, ConfigureNotify, Handle
<1>2. /\ Len(queue) \in Nat /\ Len(queue) > 0 /\ Head(queue) = queue[1]
      /\ Len(queue') = Len(queue) - 1
      /\ \A i \in 1 .. Len(queue) - 1 : queue'[i] = queue[i + 1]
  BY <1>1, HeadTailProperties, LenProperties, EmptySeq DEF InputTypeOK
<1>3. mDrawRay' <=> mDrawRay \/ IsClick(Head(queue))
  <2>1. CASE ButtonPress
    <3>1. Head(queue).type = "ButtonPress"  BY <2>1 DEF ButtonPress, Handle
    <3>2. CASE Head(queue).button \in MButtons
      <4>1. mDrawRay' = (mDrawRay \/ Head(queue).button = RMB)
        BY <2>1, <3>2 DEF ButtonPress
      <4>2. QED  BY <3>1, <4>1 DEF IsClick
    <3>3. CASE Head(queue).button \notin MButtons
      <4>1. mDrawRay' = mDrawRay /\ Head(queue).button # RMB
        BY <2>1, <3>3 DEF ButtonPress, MButtons, RMB
      <4>2. QED  BY <4>1 DEF IsClick
    <3>4. QED  BY <3>2, <3>3
  <2>2. CASE ~ButtonPress
    BY <2>2 DEF ProcessMessage, ClientMessage, KeyPress, KeyRelease, Motion,
           ButtonRelease, LostFocus, ConfigureNotify, Handle, IsClick
  <2>3. QED  BY <2>1, <2>2
<1>4. mDrawRay' <=> clicks' > 0
  <2>1. mDrawRay <=> clicks > 0  BY DEF ClickOwesRay
  <2>2. clicks' > 0 <=> clicks > 0 \/ IsClick(Head(queue))
    BY SMT
  <2>3. QED  BY <1>3, <2>1, <2>2, Zenon
<1>5. /\ Cardinality(Waiting) = Cardinality(Waiting')
                                + (IF IsClick(Head(queue)) THEN 1 ELSE 0)
      /\ Cardinality(Waiting') \in Nat
  <2> DEFINE Later == Waiting \ {1}
             f == [n \in Later |-> n - 1]
  <2>1. /\ IsFiniteSet(Later)
        /\ Cardinality(Later) = IF 1 \in Waiting THEN Cardinality(Waiting) - 1
                                                 ELSE Cardinality(Waiting)
    BY WaitingTypes, FS_RemoveElement
  <2>2. Waiting' = {n \in 1 .. Len(queue) - 1 : IsClick(queue[n + 1])}
    BY <1>2 DEF Waiting, IsClick
  <2>3. f \in Bijection(Later, Waiting')
    <3>1. ASSUME NEW n \in Later PROVE n - 1 \in Waiting'
      <4>1. n \in 2 .. Len(queue) /\ IsClick(queue[n])  BY <1>2 DEF Waiting
      <4>2. n - 1 \in 1 .. Len(queue) - 1 /\ (n - 1) + 1 = n  BY <1>2, <4>1
      <4>3. QED  BY <2>2, <4>1, <4>2
    <3>2. ASSUME NEW n \in Waiting' PROVE n + 1 \in Later /\ (n + 1) - 1 = n
      <4>1. n \in 1 .. Len(queue) - 1 /\ IsClick(queue[n + 1])  BY <2>2
      <4>2. n + 1 \in 1 .. Len(queue) /\ n + 1 # 1 /\ (n + 1) - 1 = n  BY <1>2, <4>1
      <4>3. QED  BY <4>1, <4>2 DEF Waiting
    <3>3. Later \subseteq Int  BY <1>2 DEF Waiting
    <3>4. f \in [Later -> Waiting']  BY <3>1
    <3>5. \A a, b \in Later : f[a] = f[b] => a = b  BY <3>3
    <3>6. \A n \in Waiting' : n + 1 \in Later /\ f[n + 1] = n  BY <3>2
    <3>7. QED  BY <3>4, <3>5, <3>6 DEF Bijection, Injection, Surjection, IsInjective
  <2>4. Cardinality(Waiting') = Cardinality(Later)
    BY <2>1, <2>3, FS_Bijection DEF ExistsBijection
  <2>5. 1 \in Waiting <=> IsClick(Head(queue))
    BY <1>2 DEF Waiting
  <2> HIDE DEF Later
  <2>6. Cardinality(Waiting) \in Nat /\ Cardinality(Later) \in Nat
    BY <2>1, WaitingTypes, FS_CardinalityType
  <2>7. CASE IsClick(Head(queue))
    <3>1. Cardinality(Later) = Cardinality(Waiting) - 1  BY <2>1, <2>5, <2>7
    <3>2. QED  BY <2>4, <2>6, <2>7, <3>1
  <2>8. CASE ~IsClick(Head(queue))
    <3>1. Cardinality(Later) = Cardinality(Waiting)  BY <2>1, <2>5, <2>8
    <3>2. QED  BY <2>4, <2>6, <2>8, <3>1
  <2>9. QED  BY <2>7, <2>8
<1>6. Cardinality(Waiting) \in Nat /\ Cardinality(Waiting') \in Nat
  BY <1>5, WaitingTypes
<1>7. owed' = Cardinality(Waiting') + clicks'
  BY <1>1, <1>5, <1>6 DEF ClickOwesRay
<1>8. QED  BY <1>4, <1>7 DEF ClickOwesRay

-----------------------------------------------------------------------------
(* The theorems.                                                           *)

(* A step of the program that handles no event leaves the tables and the   *)
(* queue, but for main's SetSize.                                          *)
LEMMA Untouched ==
    ASSUME Exit \/ FrameStart \/ FrameEnd \/ UNCHANGED vars
    PROVE  /\ UNCHANGED <<userVars, tables, sizes, shape, queue, argSize>>
           /\ UNCHANGED playerVars \/ FrameEnd
           /\ UNCHANGED <<owed, mDrawRay>> \/ FrameEnd
BY DEF Exit, FrameStart, FrameEnd, vars, inputVars

KeysAndButtons == KeysInv /\ ButtonsInv /\ GrabInv

LEMMA InitTables == Init => KeysAndButtons
<1> SUFFICES ASSUME Init PROVE KeysAndButtons
  OBVIOUS
<1>1. /\ mKeys = {} /\ mMouseButtons = {} /\ grabbed = FALSE
      /\ \/ queue = <<>>
         \/ queue = <<[type |-> "Configure", size |-> InitialSize]>>
  BY DEF Init, InputInit
<1>2. \A n \in 1 .. Len(queue) : queue[n].type = "Configure"
  BY <1>1
<1>3. KeysInv /\ ButtonsInv
  BY <1>1, <1>2 DEF KeysInv, ButtonsInv, Alive, KeyOn, ButtonOn
<1>4. QED  BY <1>1, <1>3 DEF KeysAndButtons, GrabInv

LEMMA NextTables == TypeOK /\ KeysAndButtons /\ [Next]_vars => KeysAndButtons'
<1> SUFFICES ASSUME TypeOK, KeysAndButtons, [Next]_vars PROVE KeysAndButtons'
  OBVIOUS
<1>0. InputTypeOK /\ KeysInv /\ ButtonsInv /\ GrabInv
  BY DEF TypeOK, KeysAndButtons
<1>1. CASE UserActs
  <2>1. User /\ KeysInv' /\ ButtonsInv'
    BY <1>0, <1>1, UserKeys, UserButtons, InputAssumption DEF UserActs
  <2>2. UNCHANGED tables
    BY <2>1 DEF User, PressKey, RepeatKey, ReleaseKey, PressButton, ReleaseButton, Scroll,
           MovePointer, LoseFocus, GainFocus, Resize, CloseButton, Send
  <2>3. QED  BY <1>0, <2>1, <2>2 DEF KeysAndButtons, GrabInv, tables
<1>2. CASE Main /\ argSize # NoSize
  <2>1. SetSize(argSize) /\ UNCHANGED <<userVars, tables>>
    BY <1>2 DEF Main, SetSize
  <2>2. argSize \in Sizes
    BY <1>2, GameAssumption DEF TypeOK, GameAssumption
  <2> DEFINE e == [type |-> "Configure", size |-> argSize]
  <2>3. e \in Event  BY <2>2 DEF Event
  <2>4. queue' = queue \/ queue' = Append(queue, e)
    BY <2>1 DEF SetSize
  <2>5. \A c : e \notin KeyOn(c) /\ e \notin ButtonOn(c)
    BY DEF KeyOn, ButtonOn
  <2> HIDE DEF e
  <2>6. CASE queue' = queue
    BY <1>0, <2>1, <2>6 DEF KeysAndButtons, KeysInv, ButtonsInv, GrabInv, userVars, tables
  <2>7. CASE queue' = Append(queue, e)
    <3> DEFINE es == <<e>>
    <3>1. /\ queue' = queue \o es /\ queue \in Seq(Event) /\ es \in Seq(Event)
          /\ \A j \in 1 .. Len(es) : es[j] = e
      BY <1>0, <2>3, <2>7, AppendIsConcat DEF InputTypeOK
    <3> HIDE DEF es
    <3>2. ASSUME NEW c, NEW table, NEW On, NEW Off, e \notin On,
                 Alive(queue', c, table, On, Off)
          PROVE  Alive(queue, c, table, On, Off)
      <4>1. Alive(queue \o es, c, table, On, Off)  BY <3>1, <3>2
      <4>2. ~ \E j \in 1 .. Len(es) : es[j] \in On  BY <3>1, <3>2
      <4>3. QED  BY <3>1, <4>1, <4>2, AliveConcat
    <3>3. KeysInv'
      BY <1>0, <2>1, <2>5, <3>2 DEF KeysInv, userVars, tables
    <3>4. ButtonsInv'
      BY <1>0, <2>1, <2>5, <3>2 DEF ButtonsInv, userVars, tables
    <3>5. QED  BY <1>0, <2>1, <3>3, <3>4 DEF KeysAndButtons, GrabInv, tables
  <2>8. QED  BY <2>4, <2>6, <2>7
<1>3. CASE ProcessMessages
  BY <1>0, <1>3, MessageKeys, MessageButtons, MessageGrab, InputAssumption
  DEF ProcessMessages, KeysAndButtons
<1>4. CASE Exit \/ FrameStart \/ FrameEnd \/ UNCHANGED vars
  BY <1>0, <1>4, Untouched DEF KeysAndButtons, KeysInv, ButtonsInv, GrabInv, userVars, tables
<1>5. CASE Main /\ argSize = NoSize
  BY <1>0, <1>5 DEF Main, inputVars, KeysAndButtons, KeysInv, ButtonsInv, GrabInv, userVars, tables
<1>6. QED  BY <1>1, <1>2, <1>3, <1>4, <1>5 DEF Next, Program

(* No key is stuck in the table: NoStuckKey.                               *)
THEOREM KeysCorrect == Spec => []NoStuckKey
<1>1. KeysAndButtons /\ TypeOK => NoStuckKey
  <2> SUFFICES ASSUME KeysAndButtons, TypeOK, queue = <<>>, NEW k \in mKeys
               PROVE  k \in held /\ focused
    BY DEF NoStuckKey, TypeOK, InputTypeOK, ProgramTypeOK
  <2>1. k \in Keys  BY DEF TypeOK, InputTypeOK, ProgramTypeOK
  <2>2. Alive(<<>>, k, mKeys, KeyOn(k), KeyOff(k))  BY AliveEmpty
  <2>3. QED  BY <2>1, <2>2 DEF KeysAndButtons, KeysInv
<1>2. QED  BY <1>1, InitTables, NextTables, TypeCorrect, PTL DEF Spec

(* No button is, and the grab ends with the last: GrabEndsWithButtons.     *)
THEOREM ButtonsCorrect == Spec => []GrabEndsWithButtons
<1>1. KeysAndButtons /\ TypeOK => GrabEndsWithButtons
  <2> SUFFICES ASSUME KeysAndButtons, TypeOK, queue = <<>>
               PROVE  mMouseButtons \subseteq pressed /\ (grabbed <=> mMouseButtons # {})
    BY DEF GrabEndsWithButtons
  <2>1. ASSUME NEW c \in mMouseButtons PROVE c \in pressed
    <3>1. c \in Buttons  BY DEF TypeOK, InputTypeOK, ProgramTypeOK
    <3>2. Alive(<<>>, c, mMouseButtons, ButtonOn(c), ButtonOff(c))  BY AliveEmpty
    <3>3. QED  BY <3>1, <3>2 DEF KeysAndButtons, ButtonsInv
  <2>2. QED  BY <2>1 DEF KeysAndButtons, GrabInv
<1>2. QED  BY <1>1, InitTables, NextTables, TypeCorrect, PTL DEF Spec

(* With no size given as arguments the viewport has the window's size once *)
(* the events are handled: ViewportFollowsUser.                            *)
ViewportInv == argSize = NoSize => SizesInv /\ viewport = mSize

(* The viewport has followed every size the user gave the window, once all *)
(* its events are handled.                                                 *)
THEOREM ViewportCorrect == Spec => []ViewportFollowsUser
<1>1. Init => ViewportInv
  <2> SUFFICES ASSUME Init PROVE SizesInv /\ viewport = mSize
    BY DEF ViewportInv
  <2>1. /\ mSize = shape /\ viewport = mSize
        /\ \/ queue = <<>>
           \/ queue = <<[type |-> "Configure", size |-> shape]>>
    BY DEF Init, InputInit
  <2>2. \A n \in 1 .. Len(queue) : queue[n].size = shape
    BY <2>1
  <2>3. QED  BY <2>1, <2>2 DEF SizesInv, Alive, SizeOn
<1>2. TypeOK /\ ViewportInv /\ [Next]_vars => ViewportInv'
  <2> SUFFICES ASSUME TypeOK, ViewportInv, [Next]_vars, argSize' = NoSize
               PROVE  SizesInv' /\ viewport' = mSize'
    BY DEF ViewportInv
  <2>0. argSize = NoSize
    BY DEF Next, UserActs, Program, Main, Exit, FrameStart, ProcessMessages, FrameEnd, vars
  <2>1. InputTypeOK /\ SizesInv /\ viewport = mSize
    BY <2>0 DEF TypeOK, ViewportInv
  <2>2. CASE UserActs
    <3>1. User /\ SizesInv'
      BY <2>1, <2>2, UserSizes, InputAssumption DEF UserActs
    <3>2. UNCHANGED sizes
      BY <3>1 DEF User, PressKey, RepeatKey, ReleaseKey, PressButton, ReleaseButton, Scroll,
             MovePointer, LoseFocus, GainFocus, Resize, CloseButton, Send
    <3>3. QED  BY <2>1, <3>1, <3>2 DEF sizes
  <2>3. CASE ProcessMessages
    BY <2>1, <2>3, MessageSizes DEF ProcessMessages
  <2>4. CASE Main
    BY <2>0, <2>1, <2>4 DEF Main, inputVars, sizes, SizesInv
  <2>5. CASE Exit \/ FrameStart \/ FrameEnd \/ UNCHANGED vars
    BY <2>1, <2>5, Untouched DEF SizesInv, sizes
  <2>6. QED  BY <2>2, <2>3, <2>4, <2>5 DEF Next, Program
<1>3. ViewportInv /\ TypeOK => ViewportFollowsUser
  <2> SUFFICES ASSUME ViewportInv, TypeOK, argSize = NoSize, queue = <<>>
               PROVE  viewport = shape
    BY DEF ViewportFollowsUser
  <2>1. mSize \in Sizes  BY DEF TypeOK, InputTypeOK, ProgramTypeOK
  <2>2. Alive(<<>>, mSize, {mSize}, SizeOn(mSize), SizeOff)  BY AliveEmpty
  <2>3. QED  BY <2>1, <2>2 DEF ViewportInv, SizesInv
<1>4. QED  BY <1>1, <1>2, <1>3, TypeCorrect, PTL DEF Spec

(* A frame casts a ray if and only if it handled a click, and no click     *)
(* outlives the frame that handles it: ClickOwesRay.                       *)
THEOREM ClicksCorrect == Spec => []ClickOwesRay
<1>1. Init => ClickOwesRay
  <2> SUFFICES ASSUME Init PROVE ClickOwesRay
    OBVIOUS
  <2>1. Waiting = {}
    <3>1. \/ queue = <<>>
          \/ queue = <<[type |-> "Configure", size |-> InitialSize]>>
      BY DEF Init, InputInit
    <3>2. QED  BY <3>1 DEF Waiting, IsClick
  <2>2. Cardinality(Waiting) = 0  BY <2>1, FS_EmptySet
  <2>3. QED  BY <2>2 DEF Init, InputInit, ClickOwesRay
<1>2. TypeOK /\ ClickOwesRay /\ [Next]_vars => ClickOwesRay'
  <2> SUFFICES ASSUME TypeOK, ClickOwesRay, [Next]_vars PROVE ClickOwesRay'
    OBVIOUS
  <2>0. InputTypeOK /\ clicks \in Nat /\ owed \in Int
    BY DEF TypeOK, InputTypeOK, UserTypeOK
  <2>1. CASE UserActs  BY <2>0, <2>1, UserRay DEF UserActs
  <2>2. CASE Main /\ argSize # NoSize
    <3>1. SetSize(argSize) /\ clicks' = clicks  BY <2>2 DEF Main
    <3> DEFINE e == [type |-> "Configure", size |-> argSize]
    <3>2. owed' = owed /\ mDrawRay' = mDrawRay /\ (queue' = queue \/ queue' = Append(queue, e))
      BY <3>1 DEF SetSize
    <3>3. e \in Event /\ ~IsClick(e)
      BY <2>2, GameAssumption DEF TypeOK, GameAssumption, Event, IsClick
    <3> HIDE DEF e
    <3>4. queue' = Append(queue, e) => Waiting' = Waiting
      <4> SUFFICES ASSUME queue' = Append(queue, e) PROVE Waiting' = Waiting
        OBVIOUS
      <4>1. /\ Len(queue') = Len(queue) + 1 /\ queue'[Len(queue) + 1] = e
            /\ \A i \in 1 .. Len(queue) : queue'[i] = queue[i]
            /\ Len(queue) \in Nat
        BY <2>0, <3>3, AppendProperties, LenProperties DEF InputTypeOK
      <4>2. 1 .. Len(queue') = (1 .. Len(queue)) \cup {Len(queue) + 1}  BY <4>1
      <4>3. QED  BY <3>3, <4>1, <4>2 DEF Waiting, IsClick
    <3>5. Waiting' = Waiting  BY <3>2, <3>4 DEF Waiting
    <3>6. QED  BY <3>1, <3>2, <3>5 DEF ClickOwesRay
  <2>3. CASE ProcessMessages
    BY <2>0, <2>3, MessageRay DEF ProcessMessages
  <2>4. CASE FrameEnd
    <3>1. queue' = queue /\ clicks' = 0 /\ mDrawRay' = FALSE
          /\ owed' = IF mDrawRay THEN owed - clicks ELSE owed
      BY <2>4 DEF FrameEnd, CastRay
    <3>2. Waiting' = Waiting  BY <3>1 DEF Waiting
    <3>3. owed = Cardinality(Waiting) + clicks /\ (mDrawRay <=> clicks > 0)
          /\ Cardinality(Waiting) \in Nat
      BY <2>0, WaitingTypes DEF ClickOwesRay
    <3>4. owed' = Cardinality(Waiting)
      <4>1. CASE clicks > 0
        <5>1. owed' = owed - clicks  BY <3>1, <3>3, <4>1
        <5>2. QED  BY <2>0, <3>3, <5>1
      <4>2. CASE clicks = 0
        <5>1. owed' = owed  BY <2>0, <3>1, <3>3, <4>2
        <5>2. QED  BY <3>3, <4>2, <5>1
      <4>3. QED  BY <2>0, <4>1, <4>2
    <3>5. QED  BY <3>1, <3>2, <3>3, <3>4 DEF ClickOwesRay
  <2>5. CASE Exit \/ FrameStart \/ UNCHANGED vars \/ (Main /\ argSize = NoSize)
    <3>1. UNCHANGED <<queue, owed, mDrawRay, clicks>>
      BY <2>5 DEF Exit, FrameStart, Main, vars, inputVars
    <3>2. Waiting' = Waiting  BY <3>1 DEF Waiting
    <3>3. QED  BY <3>1, <3>2 DEF ClickOwesRay
  <2>6. QED  BY <2>1, <2>2, <2>3, <2>4, <2>5 DEF Next, Program
<1>3. QED  BY <1>1, <1>2, TypeCorrect, PTL DEF Spec

(* The player is where it walked to: TravelKept.                           *)
THEOREM TravelCorrect == Spec => []TravelKept
<1>1. Init => TravelKept
  BY GameAssumption DEF Init, TravelKept, GameAssumption
<1>2. TypeOK /\ TravelKept /\ [Next]_vars => TravelKept'
  <2> SUFFICES ASSUME TypeOK, TravelKept, [Next]_vars PROVE TravelKept'
    OBVIOUS
  <2>1. CASE FrameEnd
    <3>1. PICK move \in Moves :
              /\ travel' = [a \in Axes |-> travel[a] + move[a]]
              /\ CalculatePlayerChunk([a \in Axes |-> position[a] + move[a]])
      BY <2>1 DEF FrameEnd
    <3>2. ASSUME NEW a \in Axes PROVE position'[a] = travel'[a] + Size * playerChunk'[a]
      <4>1. move[a] \in Int
        <5>1. CASE mKeys = {}  BY <3>1, <5>1 DEF Moves
        <5>2. CASE mKeys # {}
          <6>1. move \in [Axes -> Steps]  BY <3>1, <5>2 DEF Moves
          <6>2. QED  BY <6>1, GameAssumption DEF GameAssumption
        <5>3. QED  BY <5>1, <5>2
      <4>2. /\ position[a] \in Int /\ playerChunk[a] \in Int /\ travel[a] \in Int
            /\ Size \in Int
        BY GameAssumption DEF TypeOK, GameAssumption
      <4> DEFINE p == position[a] + move[a]
                 r == Recentre(p)
      <4>3. r \in {-1, 0, 1}  BY DEF Recentre
      <4>4. /\ travel'[a] = travel[a] + move[a]
            /\ position'[a] = p + Size * r
            /\ playerChunk'[a] = playerChunk[a] + r
        BY <3>1 DEF CalculatePlayerChunk
      <4>5. position[a] = travel[a] + Size * playerChunk[a]
        BY DEF TravelKept
      <4> HIDE DEF r
      <4>6. Size * (playerChunk[a] + r) = Size * playerChunk[a] + Size * r
        BY <4>2, <4>3
      <4>7. /\ Size * playerChunk[a] \in Int /\ Size * r \in Int
        BY <4>2, <4>3
      <4>8. QED  BY <4>1, <4>2, <4>4, <4>5, <4>6, <4>7
    <3>3. QED  BY <3>2 DEF TravelKept
  <2>2. CASE ~FrameEnd
    BY <2>2 DEF Next, UserActs, Program, Main, Exit, FrameStart, ProcessMessages, vars,
           playerVars, TravelKept
  <2>3. QED  BY <2>1, <2>2
<1>3. QED  BY <1>1, <1>2, TypeCorrect, PTL DEF Spec

-----------------------------------------------------------------------------
(* Drags.  DragFollowsHand would need the sum of the movements in a queue; *)
(* instead, a forecast lists what the program will believe after each of   *)
(* the events waiting.  It ends with what the hand has done.               *)

DragState == [drag : BOOLEAN, angle : Int, origin : Int]

(* The origin matters in a drag only.                                      *)
StateOf(drag, angle, x) == [drag |-> drag, angle |-> angle,
                            origin |-> IF drag THEN x ELSE 0]

Believed == StateOf(LMB \in mMouseButtons, mAngleX, mMouseDownX)
Done == StateOf(dragging, wanted, pointer)

(* What the program believes after event e, if it believed s before.       *)
After(s, e) ==
    IF e.type = "Motion"
      THEN IF s.drag THEN StateOf(TRUE, s.angle - (e.x - s.origin), e.x) ELSE s
    ELSE IF e.type = "ButtonPress"
      THEN IF e.button = LMB THEN StateOf(TRUE, s.angle, e.x) ELSE s
    ELSE IF e.type = "FocusOut" THEN StateOf(FALSE, s.angle, 0)
    ELSE IF e.type = "ButtonRelease"
      THEN IF e.button = LMB THEN StateOf(FALSE, s.angle, 0) ELSE s
    ELSE s

(* The event that may spoil the origin of a drag.                          *)
Spoils(s, e) == s.drag /\ e.type = "ButtonRelease" /\ e.button = WheelDown

IsForecast(F, q, s, t) ==
    /\ F \in [0 .. Len(q) -> DragState]
    /\ F[0] = s /\ F[Len(q)] = t
    /\ \A n \in 1 .. Len(q) : F[n] = After(F[n - 1], q[n]) /\ ~ Spoils(F[n - 1], q[n])

Leads(q, s, t) == \E F \in [0 .. Len(q) -> DragState] : IsForecast(F, q, s, t)

DragInv == scrolled \/ Leads(queue, Believed, Done)

LEMMA AfterTyped ==
    ASSUME NEW s \in DragState, NEW e \in Event, InputAssumption
    PROVE  After(s, e) \in DragState
<1>1. /\ e.type \in {"ButtonPress", "Motion"} => e.x \in Int
  BY DEF Event
<1>2. s.drag \in BOOLEAN /\ s.angle \in Int /\ s.origin \in Int
  BY DEF DragState
<1>3. CASE e.type = "Motion"
  <2>1. s.angle - (e.x - s.origin) \in Int
    BY <1>1, <1>2, <1>3
  <2>2. QED  BY <1>1, <1>3, <2>1 DEF After, StateOf, DragState
<1>4. CASE e.type # "Motion"
  BY <1>1, <1>2, <1>4 DEF After, StateOf, DragState
<1>5. QED  BY <1>3, <1>4

(* Nothing waits: what is believed is what was done.                       *)
LEMMA LeadsNowhere ==
    ASSUME NEW s \in DragState, NEW t \in DragState
    PROVE  Leads(<<>>, s, t) <=> s = t
<1>1. Len(<<>>) = 0 /\ 0 .. 0 = {0} /\ 1 .. 0 = {}
  BY EmptySeq
<1>2. ASSUME Leads(<<>>, s, t) PROVE s = t
  BY <1>1, <1>2 DEF Leads, IsForecast
<1>3. ASSUME s = t PROVE Leads(<<>>, s, t)
  <2> DEFINE F == [n \in {0} |-> s]
  <2>1. F \in [0 .. Len(<<>>) -> DragState] /\ IsForecast(F, <<>>, s, t)
    BY <1>1, <1>3 DEF IsForecast
  <2>2. QED  BY <2>1 DEF Leads
<1>4. QED  BY <1>2, <1>3

(* One more event waits.                                                   *)
LEMMA LeadsOn ==
    ASSUME NEW q \in Seq(Event), NEW s \in DragState, NEW t \in DragState,
           NEW e \in Event, Leads(q, s, t), ~ Spoils(t, e), InputAssumption
    PROVE  Leads(Append(q, e), s, After(t, e))
<1>1. PICK F \in [0 .. Len(q) -> DragState] : IsForecast(F, q, s, t)
  BY DEF Leads
<1>2. /\ Len(q) \in Nat /\ Len(Append(q, e)) = Len(q) + 1
      /\ Append(q, e)[Len(q) + 1] = e
      /\ \A i \in 1 .. Len(q) : Append(q, e)[i] = q[i]
  BY AppendProperties, LenProperties
<1> DEFINE G == [n \in 0 .. Len(q) + 1 |-> IF n <= Len(q) THEN F[n] ELSE After(t, e)]
<1>3. G \in [0 .. Len(q) + 1 -> DragState]
  <2>1. After(t, e) \in DragState  BY AfterTyped
  <2>2. \A n \in 0 .. Len(q) + 1 : n <= Len(q) => n \in 0 .. Len(q)
    BY <1>2
  <2>3. QED  BY <2>1, <2>2
<1>4. /\ G[0] = s /\ G[Len(q) + 1] = After(t, e) /\ G[Len(q)] = t
  <2>1. F[0] = s /\ F[Len(q)] = t  BY <1>1 DEF IsForecast
  <2>2. 0 \in 0 .. Len(q) + 1 /\ Len(q) + 1 \in 0 .. Len(q) + 1 /\ Len(q) \in 0 .. Len(q) + 1
        /\ 0 <= Len(q) /\ ~ (Len(q) + 1 <= Len(q)) /\ Len(q) <= Len(q)
    BY <1>2
  <2>3. QED  BY <2>1, <2>2
<1>5. ASSUME NEW n \in 1 .. Len(q) + 1
      PROVE  G[n] = After(G[n - 1], Append(q, e)[n]) /\ ~ Spoils(G[n - 1], Append(q, e)[n])
  <2>1. CASE n = Len(q) + 1
    <3>1. n - 1 = Len(q)  BY <1>2, <2>1
    <3>2. G[n] = After(t, e) /\ G[n - 1] = t /\ Append(q, e)[n] = e
      BY <1>2, <1>4, <2>1, <3>1
    <3> HIDE DEF G
    <3>3. QED  BY <3>2
  <2>2. CASE n # Len(q) + 1
    <3>1. n \in 1 .. Len(q) /\ n - 1 \in 0 .. Len(q) + 1 /\ n \in 0 .. Len(q) + 1
          /\ n <= Len(q) /\ n - 1 <= Len(q)
      BY <1>2, <2>2
    <3>2. G[n] = F[n] /\ G[n - 1] = F[n - 1] /\ Append(q, e)[n] = q[n]
      BY <1>2, <3>1
    <3>3. F[n] = After(F[n - 1], q[n]) /\ ~ Spoils(F[n - 1], q[n])
      BY <1>1, <3>1 DEF IsForecast
    <3> HIDE DEF G
    <3>4. QED  BY <3>2, <3>3
  <2>3. QED  BY <2>1, <2>2
<1> HIDE DEF G
<1>6. IsForecast(G, Append(q, e), s, After(t, e))
  BY <1>2, <1>3, <1>4, <1>5 DEF IsForecast
<1>7. QED  BY <1>2, <1>3, <1>6 DEF Leads

(* The oldest event is handled.                                            *)
LEMMA LeadsFromHead ==
    ASSUME NEW q \in Seq(Event), q # <<>>, NEW s \in DragState, NEW t \in DragState,
           Leads(q, s, t)
    PROVE  Leads(Tail(q), After(s, Head(q)), t) /\ ~ Spoils(s, Head(q))
<1>1. PICK F \in [0 .. Len(q) -> DragState] : IsForecast(F, q, s, t)
  BY DEF Leads
<1>2. /\ Len(q) \in Nat /\ Len(q) > 0 /\ Head(q) = q[1]
      /\ Len(Tail(q)) = Len(q) - 1
      /\ \A i \in 1 .. Len(q) - 1 : Tail(q)[i] = q[i + 1]
  BY HeadTailProperties, LenProperties, EmptySeq
<1> DEFINE G == [n \in 0 .. Len(q) - 1 |-> F[n + 1]]
<1>3. G \in [0 .. Len(q) - 1 -> DragState]
  <2>1. \A n \in 0 .. Len(q) - 1 : n + 1 \in 0 .. Len(q)
    BY <1>2
  <2>2. QED  BY <2>1
<1>4. F[1] = After(s, Head(q)) /\ ~ Spoils(s, Head(q))
  <2>1. 1 \in 1 .. Len(q) /\ 1 - 1 = 0  BY <1>2
  <2>2. F[1] = After(F[1 - 1], q[1]) /\ ~ Spoils(F[1 - 1], q[1]) /\ F[0] = s
    BY <1>1, <2>1 DEF IsForecast
  <2>3. QED  BY <1>2, <2>1, <2>2
<1>5. G[0] = After(s, Head(q)) /\ G[Len(q) - 1] = t
  <2>1. 0 \in 0 .. Len(q) - 1 /\ Len(q) - 1 \in 0 .. Len(q) - 1
        /\ 0 + 1 = 1 /\ (Len(q) - 1) + 1 = Len(q)
    BY <1>2
  <2>2. F[Len(q)] = t  BY <1>1 DEF IsForecast
  <2>3. QED  BY <1>4, <2>1, <2>2
<1>6. ASSUME NEW n \in 1 .. Len(q) - 1
      PROVE  G[n] = After(G[n - 1], Tail(q)[n]) /\ ~ Spoils(G[n - 1], Tail(q)[n])
  <2>1. n \in 0 .. Len(q) - 1 /\ n - 1 \in 0 .. Len(q) - 1 /\ n + 1 \in 1 .. Len(q)
        /\ (n - 1) + 1 = n /\ (n + 1) - 1 = n
    BY <1>2
  <2>2. G[n] = F[n + 1] /\ G[n - 1] = F[n] /\ Tail(q)[n] = q[n + 1]
    BY <1>2, <2>1
  <2>3. F[n + 1] = After(F[(n + 1) - 1], q[n + 1]) /\ ~ Spoils(F[(n + 1) - 1], q[n + 1])
    BY <1>1, <2>1 DEF IsForecast
  <2>4. F[n + 1] = After(F[n], q[n + 1]) /\ ~ Spoils(F[n], q[n + 1])
    BY <2>1, <2>3
  <2> HIDE DEF G
  <2>5. QED  BY <2>2, <2>4
<1> HIDE DEF G
<1>7. IsForecast(G, Tail(q), After(s, Head(q)), t)
  BY <1>2, <1>3, <1>5, <1>6 DEF IsForecast
<1>8. QED  BY <1>2, <1>3, <1>4, <1>7 DEF Leads

LEMMA StatesTyped ==
    ASSUME InputTypeOK, InputAssumption
    PROVE  Believed \in DragState /\ Done \in DragState
<1>1. /\ mAngleX \in Int /\ mMouseDownX \in Int /\ wanted \in Int /\ pointer \in Int
      /\ dragging \in BOOLEAN
  BY DEF InputTypeOK, UserTypeOK, ProgramTypeOK, InputAssumption
<1>2. QED  BY <1>1 DEF Believed, Done, StateOf, DragState

(* The user sends one event that does to the forecast what it did to the   *)
(* hand, or two or none that are no part of a drag.                        *)
LEMMA DragSentOne ==
    ASSUME InputTypeOK, InputAssumption, DragInv, NEW e \in Event, Send(<<e>>),
           scrolled' = scrolled, ~ Spoils(Done, e), Done' = After(Done, e)
    PROVE  DragInv'
<1>1. /\ queue \in Seq(Event) /\ queue' = Append(queue, e) /\ Believed' = Believed
  BY AppendIsConcat DEF Send, tables, InputTypeOK, Believed, StateOf
<1>2. Believed \in DragState /\ Done \in DragState  BY StatesTyped
<1>3. QED  BY <1>1, <1>2, LeadsOn DEF DragInv

LEMMA DragSentNothing ==
    ASSUME InputTypeOK, DragInv, Send(<<>>), scrolled' = scrolled, Done' = Done
    PROVE  DragInv'
<1>1. queue' = queue /\ Believed' = Believed
  BY ConcatEmptySeq DEF Send, tables, InputTypeOK, Believed, StateOf
<1>2. QED  BY <1>1 DEF DragInv

LEMMA DragSentTwo ==
    ASSUME InputTypeOK, InputAssumption, DragInv, NEW a \in Event, NEW b \in Event,
           Send(<<a, b>>), scrolled' = scrolled, Done' = Done,
           After(Done, a) = Done, After(Done, b) = Done,
           ~ Spoils(Done, a), ~ Spoils(Done, b)
    PROVE  DragInv'
<1>1. /\ queue \in Seq(Event) /\ Believed' = Believed
      /\ queue' = queue \o <<a, b>>
  BY DEF Send, tables, InputTypeOK, Believed, StateOf
<1>2. Believed \in DragState /\ Done \in DragState  BY StatesTyped
<1>3. /\ queue' = Append(Append(queue, a), b)
      /\ Append(queue, a) \in Seq(Event)
  <2>1. Append(queue, a) \in Seq(Event)  BY <1>1, AppendProperties
  <2>2. queue \o <<a, b>> = Append(Append(queue, a), b)  BY <1>1
  <2>3. QED  BY <1>1, <2>1, <2>2
<1>4. CASE scrolled  BY <1>4 DEF DragInv
<1>5. CASE ~ scrolled
  <2>1. Leads(Append(queue, a), Believed, Done)
    BY <1>1, <1>2, <1>5, LeadsOn DEF DragInv
  <2>2. Leads(queue', Believed, Done)
    BY <1>2, <1>3, <2>1, LeadsOn
  <2>3. QED  BY <1>1, <2>2 DEF DragInv
<1>6. QED  BY <1>4, <1>5

LEMMA UserDrags ==
    ASSUME InputTypeOK, InputAssumption, DragInv, User
    PROVE  DragInv'
<1>0. UserTypeOK  BY DEF InputTypeOK
<1> USE DEF Done
<1>1. ASSUME NEW k \in Keys, PressKey(k) PROVE DragInv'
  <2> DEFINE e == KeyEvent("KeyPress", k)
  <2>1. e \in Event /\ After(Done, e) = Done /\ ~ Spoils(Done, e)
    BY <1>0, EventType DEF After, Spoils, KeyEvent
  <2>2. Send(<<e>>) /\ Done' = Done /\ scrolled' = scrolled
    BY <1>1 DEF PressKey, StateOf
  <2> HIDE DEF e, Done
  <2>3. QED  BY <2>1, <2>2, DragSentOne
<1>2. ASSUME NEW k \in Keys, RepeatKey(k) PROVE DragInv'
  <2> DEFINE a == KeyEvent("KeyRelease", k)
             b == KeyEvent("KeyPress", k)
  <2>1. /\ a \in Event /\ After(Done, a) = Done /\ ~ Spoils(Done, a)
        /\ b \in Event /\ After(Done, b) = Done /\ ~ Spoils(Done, b)
    BY <1>0, EventType DEF After, Spoils, KeyEvent
  <2>2. Send(<<a, b>>) /\ Done' = Done /\ scrolled' = scrolled
    BY <1>2 DEF RepeatKey, StateOf, userVars
  <2> HIDE DEF a, b, Done
  <2>3. QED  BY <2>1, <2>2, DragSentTwo
<1>3. ASSUME NEW k \in Keys, ReleaseKey(k) PROVE DragInv'
  <2> DEFINE e == KeyEvent("KeyRelease", k)
  <2>1. e \in Event /\ After(Done, e) = Done /\ ~ Spoils(Done, e)
    BY <1>0, EventType DEF After, Spoils, KeyEvent
  <2>2. /\ Send(IF focused THEN <<e>> ELSE <<>>)
        /\ Done' = Done /\ scrolled' = scrolled
    BY <1>3 DEF ReleaseKey, StateOf
  <2> HIDE DEF e, Done
  <2>3. CASE focused  BY <2>1, <2>2, <2>3, DragSentOne
  <2>4. CASE ~ focused  BY <2>2, <2>4, DragSentNothing
  <2>5. QED  BY <2>3, <2>4
<1>4. ASSUME NEW b \in Buttons, PressButton(b) PROVE DragInv'
  <2> DEFINE e == ButtonEvent("ButtonPress", b)
  <2>1. e \in Event /\ ~ Spoils(Done, e)
    BY <1>0, EventType DEF Spoils, ButtonEvent
  <2>2. Done' = After(Done, e)
    <3>1. CASE b = LMB  BY <1>4, <3>1 DEF PressButton, After, StateOf, ButtonEvent
    <3>2. CASE b # LMB
      <4>1. dragging' = dragging
        BY <1>0, <1>4, <3>2 DEF PressButton, UserTypeOK
      <4>2. QED  BY <1>4, <3>2, <4>1 DEF PressButton, After, StateOf, ButtonEvent
    <3>3. QED  BY <3>1, <3>2
  <2>3. Send(<<e>>) /\ scrolled' = scrolled  BY <1>4 DEF PressButton
  <2> HIDE DEF e, Done
  <2>4. QED  BY <2>1, <2>2, <2>3, DragSentOne
<1>5. ASSUME NEW b \in Buttons, ReleaseButton(b) PROVE DragInv'
  <2> DEFINE e == ButtonEvent("ButtonRelease", b)
  <2>1. e \in Event /\ ~ Spoils(Done, e)
    <3>1. b # WheelDown  BY InputAssumption DEF InputAssumption, MButtons, WheelDown
    <3>2. QED  BY <1>0, <3>1, EventType DEF Spoils, ButtonEvent
  <2>2. Done' = After(Done, e)
    <3>1. CASE b = LMB
      <4>1. dragging' = FALSE  BY <1>5, <3>1 DEF ReleaseButton
      <4>2. QED  BY <1>5, <3>1, <4>1 DEF ReleaseButton, After, StateOf, ButtonEvent
    <3>2. CASE b # LMB
      <4>1. dragging' = dragging
        BY <1>0, <1>5, <3>2 DEF ReleaseButton, UserTypeOK
      <4>2. QED  BY <1>5, <3>2, <4>1 DEF ReleaseButton, After, StateOf, ButtonEvent
    <3>3. QED  BY <3>1, <3>2
  <2>3. Send(<<e>>) /\ scrolled' = scrolled  BY <1>5 DEF ReleaseButton
  <2> HIDE DEF e, Done
  <2>4. QED  BY <2>1, <2>2, <2>3, DragSentOne
<1>6. ASSUME NEW b \in {WheelUp, WheelDown}, Scroll(b) PROVE DragInv'
  <2> DEFINE p == ButtonEvent("ButtonPress", b)
             r == ButtonEvent("ButtonRelease", b)
  <2>1. /\ p \in Event /\ After(Done, p) = Done /\ ~ Spoils(Done, p)
        /\ r \in Event /\ After(Done, r) = Done
    <3>1. b # LMB  BY DEF WheelUp, WheelDown, LMB
    <3>2. QED  BY <1>0, <3>1, EventType DEF After, Spoils, ButtonEvent
  <2>2. Send(<<p, r>>) /\ Done' = Done  BY <1>6 DEF Scroll, StateOf
  <2>3. CASE dragging /\ b = WheelDown
    BY <1>6, <2>3 DEF Scroll, DragInv
  <2>4. CASE ~ (dragging /\ b = WheelDown)
    <3>1. scrolled' = scrolled
      BY <1>0, <1>6, <2>4 DEF Scroll, UserTypeOK
    <3>2. ~ Spoils(Done, r)
      BY <2>4 DEF Spoils, ButtonEvent, StateOf
    <3> HIDE DEF p, r, Done
    <3>3. QED  BY <2>1, <2>2, <3>1, <3>2, DragSentTwo
  <2>5. QED  BY <2>3, <2>4
<1>7. ASSUME NEW x \in 0 .. MaxX, MovePointer(x) PROVE DragInv'
  <2> DEFINE e == [type |-> "Motion", x |-> x]
  <2>1. e \in Event /\ ~ Spoils(Done, e)
    BY <1>0, EventType DEF Spoils
  <2>2. Done' = After(Done, e)
    <3>1. dragging' = dragging /\ pointer' = x
          /\ wanted' = IF dragging THEN wanted - (x - pointer) ELSE wanted
      BY <1>7 DEF MovePointer
    <3>2. CASE dragging  BY <3>1, <3>2 DEF After, StateOf
    <3>3. CASE ~ dragging  BY <3>1, <3>3 DEF After, StateOf
    <3>4. QED  BY <3>2, <3>3
  <2>3. Send(<<e>>) /\ scrolled' = scrolled  BY <1>7 DEF MovePointer
  <2> HIDE DEF e, Done
  <2>4. QED  BY <2>1, <2>2, <2>3, DragSentOne
<1>8. ASSUME NEW elsewhere \in SUBSET Keys, GainFocus(elsewhere) PROVE DragInv'
  <2>1. Send(<<>>) /\ Done' = Done /\ scrolled' = scrolled
    BY <1>8 DEF GainFocus, StateOf
  <2> HIDE DEF Done
  <2>2. QED  BY <2>1, DragSentNothing
<1>9. ASSUME NEW s \in Sizes, Resize(s) PROVE DragInv'
  <2> DEFINE e == [type |-> "Configure", size |-> s]
  <2>1. e \in Event /\ After(Done, e) = Done /\ ~ Spoils(Done, e)
    BY <1>0, EventType DEF After, Spoils
  <2>2. Send(<<e>>) /\ Done' = Done /\ scrolled' = scrolled
    BY <1>9 DEF Resize, StateOf, userVars
  <2> HIDE DEF e, Done
  <2>3. QED  BY <2>1, <2>2, DragSentOne
<1>10. CASE LoseFocus
  <2> DEFINE e == [type |-> "FocusOut"]
  <2>1. e \in Event /\ ~ Spoils(Done, e)
    BY <1>0, EventType DEF Spoils
  <2>2. Done' = After(Done, e)  BY <1>10 DEF LoseFocus, After, StateOf
  <2>3. Send(<<e>>) /\ scrolled' = scrolled  BY <1>10 DEF LoseFocus
  <2> HIDE DEF e, Done
  <2>4. QED  BY <2>1, <2>2, <2>3, DragSentOne
<1>11. CASE CloseButton
  <2> DEFINE e == [type |-> "Client"]
  <2>1. e \in Event /\ After(Done, e) = Done /\ ~ Spoils(Done, e)
    BY <1>0, EventType DEF After, Spoils
  <2>2. Send(<<e>>) /\ Done' = Done /\ scrolled' = scrolled
    BY <1>11 DEF CloseButton, StateOf, userVars
  <2> HIDE DEF e, Done
  <2>3. QED  BY <2>1, <2>2, DragSentOne
<1>12. QED
  BY <1>1, <1>2, <1>3, <1>4, <1>5, <1>6, <1>7, <1>8, <1>9, <1>10, <1>11 DEF User

(* An event that spoils no drag does to the tables what After says.        *)
LEMMA MessageDrags ==
    ASSUME InputTypeOK, InputAssumption, DragInv, ProcessMessage
    PROVE  DragInv'
<1>1. /\ queue # <<>> /\ queue' = Tail(queue) /\ queue \in Seq(Event)
      /\ Done' = Done /\ scrolled' = scrolled
  BY DEF ProcessMessage, ClientMessage, KeyPress, KeyRelease, Motion, ButtonPress,
         ButtonRelease, LostFocus, ConfigureNotify, Handle, userVars, InputTypeOK, Done, StateOf
<1>2. SUFFICES ASSUME ~ scrolled PROVE Leads(Tail(queue), Believed', Done)
  BY <1>1 DEF DragInv
<1>3. Believed \in DragState /\ Done \in DragState  BY StatesTyped
<1> DEFINE e == Head(queue)
<1>4. Leads(Tail(queue), After(Believed, e), Done) /\ ~ Spoils(Believed, e)
  BY <1>1, <1>2, <1>3, LeadsFromHead DEF DragInv
<1>5. Believed' = After(Believed, e)
  <2>1. CASE Motion
    <3>1. /\ e.type = "Motion" /\ mMouseButtons' = mMouseButtons /\ mMouseDownX' = e.x
          /\ mAngleX' = IF LMB \in mMouseButtons THEN mAngleX - (e.x - mMouseDownX) ELSE mAngleX
      BY <2>1 DEF Motion, Handle
    <3> HIDE DEF e
    <3>2. CASE LMB \in mMouseButtons  BY <3>1, <3>2 DEF Believed, After, StateOf
    <3>3. CASE LMB \notin mMouseButtons  BY <3>1, <3>3 DEF Believed, After, StateOf
    <3>4. QED  BY <3>2, <3>3
  <2>2. CASE ButtonPress
    <3>1. /\ e.type = "ButtonPress" /\ mAngleX' = mAngleX
          /\ IF e.button \in MButtons
               THEN /\ mMouseButtons' = mMouseButtons \cup {e.button}
                    /\ mMouseDownX' = IF e.button = LMB THEN e.x ELSE mMouseDownX
               ELSE UNCHANGED <<mMouseButtons, mMouseDownX>>
      BY <2>2 DEF ButtonPress, Handle
    <3> HIDE DEF e
    <3>2. CASE e.button = LMB
      <4>1. e.button \in MButtons  BY <3>2 DEF LMB, MButtons
      <4>2. QED  BY <3>1, <3>2, <4>1 DEF Believed, After, StateOf
    <3>3. CASE e.button # LMB
      <4>1. mMouseDownX' = mMouseDownX /\ (LMB \in mMouseButtons' <=> LMB \in mMouseButtons)
        BY <3>1, <3>3
      <4>2. QED  BY <3>1, <3>3, <4>1 DEF Believed, After, StateOf
    <3>4. QED  BY <3>2, <3>3
  <2>3. CASE ButtonRelease
    <3>1. /\ e.type = "ButtonRelease" /\ mAngleX' = mAngleX
          /\ mMouseButtons' = mMouseButtons \ {e.button}
          /\ e.button # WheelDown => mMouseDownX' = mMouseDownX
      BY <2>3 DEF ButtonRelease, MouseUp, Handle
    <3> HIDE DEF e
    <3>2. CASE e.button = LMB
      <4>1. (LMB \in mMouseButtons') = FALSE  BY <3>1, <3>2
      <4>2. Believed' = StateOf(FALSE, mAngleX, 0)
        BY <3>1, <4>1 DEF Believed, StateOf
      <4>3. After(Believed, e) = StateOf(FALSE, mAngleX, 0)
        BY <3>1, <3>2 DEF Believed, After, StateOf
      <4>4. QED  BY <4>2, <4>3
    <3>3. CASE e.button # LMB
      <4>1. LMB \in mMouseButtons' <=> LMB \in mMouseButtons  BY <3>1, <3>3
      <4>2. LMB \in mMouseButtons => mMouseDownX' = mMouseDownX
        BY <1>4, <3>1 DEF Spoils, Believed, StateOf
      <4>3. QED  BY <3>1, <3>3, <4>1, <4>2 DEF Believed, After, StateOf
    <3>4. QED  BY <3>2, <3>3
  <2>4. CASE LostFocus
    <3>1. e.type = "FocusOut" /\ mAngleX' = mAngleX /\ LMB \notin mMouseButtons'
      BY <2>4 DEF LostFocus, Handle, MouseUp, MButtons, LMB
    <3> HIDE DEF e
    <3>2. (LMB \in mMouseButtons') = FALSE  BY <3>1
    <3>3. Believed' = StateOf(FALSE, mAngleX, 0)
      BY <3>1, <3>2 DEF Believed, StateOf
    <3>4. After(Believed, e) = StateOf(FALSE, mAngleX, 0)
      BY <3>1 DEF Believed, After, StateOf
    <3>5. QED  BY <3>3, <3>4
  <2>5. CASE ClientMessage \/ KeyPress \/ KeyRelease \/ ConfigureNotify
    <3>1. /\ e.type \in {"Client", "KeyPress", "KeyRelease", "Configure"}
          /\ UNCHANGED <<mMouseButtons, mMouseDownX, mAngleX>>
      BY <2>5 DEF ClientMessage, KeyPress, KeyRelease, ConfigureNotify, Handle, tables
    <3> HIDE DEF e
    <3>2. QED  BY <3>1 DEF Believed, After, StateOf
  <2>6. QED  BY <2>1, <2>2, <2>3, <2>4, <2>5 DEF ProcessMessage
<1>6. QED  BY <1>4, <1>5

(* The player turns by what the hand dragged: DragFollowsHand.             *)
THEOREM DragsCorrect == Spec => []DragFollowsHand
<1>1. Init => DragInv
  <2> SUFFICES ASSUME Init PROVE Leads(queue, Believed, Done)
    BY DEF DragInv
  <2> DEFINE e == [type |-> "Configure", size |-> InitialSize]
  <2>1. Believed = StateOf(FALSE, 0, 0) /\ Done = StateOf(FALSE, 0, 0)
    <3>1. /\ mMouseButtons = {} /\ mAngleX = 0 /\ dragging = FALSE /\ wanted = 0
      BY DEF Init, InputInit
    <3>2. (LMB \in mMouseButtons) = FALSE  BY <3>1
    <3>3. QED  BY <3>1, <3>2 DEF Believed, Done, StateOf
  <2>2. StateOf(FALSE, 0, 0) \in DragState  BY DEF StateOf, DragState
  <2>3. Leads(<<>>, Believed, Done)  BY <2>1, <2>2, LeadsNowhere
  <2>4. CASE queue = <<>>  BY <2>3, <2>4
  <2>5. CASE queue = <<e>>
    <3>1. e \in Event  BY InputAssumption DEF Event, InputAssumption
    <3>2. After(Done, e) = Done /\ ~ Spoils(Done, e)  BY DEF After, Spoils
    <3>3. <<>> \in Seq(Event) /\ queue = Append(<<>>, e)  BY <2>5, <3>1, EmptySeq
    <3> HIDE DEF e
    <3>4. QED  BY <2>1, <2>2, <2>3, <3>1, <3>2, <3>3, LeadsOn, InputAssumption
  <2>6. QED  BY <2>4, <2>5 DEF Init, InputInit
<1>2. TypeOK /\ DragInv /\ [Next]_vars => DragInv'
  <2> SUFFICES ASSUME TypeOK, DragInv, [Next]_vars PROVE DragInv'
    OBVIOUS
  <2>0. InputTypeOK  BY DEF TypeOK
  <2>1. CASE UserActs
    BY <2>0, <2>1, UserDrags, InputAssumption DEF UserActs
  <2>2. CASE ProcessMessages
    BY <2>0, <2>2, MessageDrags, InputAssumption DEF ProcessMessages
  <2>3. CASE Main /\ argSize # NoSize
    <3>1. SetSize(argSize)  BY <2>3 DEF Main
    <3> DEFINE e == [type |-> "Configure", size |-> argSize]
    <3>2. /\ Done' = Done /\ Believed' = Believed /\ scrolled' = scrolled
          /\ queue' = queue \/ queue' = Append(queue, e)
      BY <3>1 DEF SetSize, userVars, tables, Done, Believed, StateOf
    <3>3. e \in Event /\ After(Done, e) = Done /\ ~ Spoils(Done, e)
      BY <2>3, GameAssumption DEF TypeOK, GameAssumption, Event, After, Spoils
    <3> HIDE DEF e
    <3>4. Believed \in DragState /\ Done \in DragState /\ queue \in Seq(Event)
      BY <2>0, StatesTyped, InputAssumption DEF InputTypeOK
    <3>5. CASE queue' = queue  BY <3>2, <3>5 DEF DragInv
    <3>6. CASE queue' = Append(queue, e)
      BY <3>2, <3>3, <3>4, <3>6, LeadsOn, InputAssumption DEF DragInv
    <3>7. QED  BY <3>2, <3>5, <3>6
  <2>4. CASE Main /\ argSize = NoSize
    BY <2>4 DEF Main, inputVars, userVars, tables, DragInv, Believed, Done, StateOf
  <2>5. CASE Exit \/ FrameStart \/ FrameEnd \/ UNCHANGED vars
    <3>1. UNCHANGED <<userVars, tables, queue>>  BY <2>5, Untouched
    <3>2. QED  BY <3>1 DEF userVars, tables, DragInv, Believed, Done, StateOf
  <2>6. QED  BY <2>1, <2>2, <2>3, <2>4, <2>5 DEF Next, Program
<1>3. TypeOK /\ DragInv => DragFollowsHand
  <2> SUFFICES ASSUME TypeOK, DragInv, queue = <<>>, ~ scrolled PROVE mAngleX = wanted
    BY DEF DragFollowsHand
  <2>1. Believed \in DragState /\ Done \in DragState
    BY StatesTyped, InputAssumption DEF TypeOK
  <2>2. Believed = Done  BY <2>1, LeadsNowhere DEF DragInv
  <2>3. QED  BY <2>2 DEF Believed, Done, StateOf
<1>4. QED  BY <1>1, <1>2, <1>3, TypeCorrect, PTL DEF Spec

-----------------------------------------------------------------------------
(* The deque of frame rates holds the stamps of the latest calls of Run.   *)

FPSInv == /\ Len(mFPSAvg) = runs
          /\ \A n \in 1 .. runs : mFPSAvg[n] = (stamp + (n - runs)) % Stamps

(* Within one turn of the counter, % adds Stamps or leaves the number.     *)
LEMMA ModOneTurn ==
    ASSUME NEW S \in Nat \ {0}, NEW v \in Int, -S <= v, v < S
    PROVE  v % S = IF v < 0 THEN v + S ELSE v
<1>1. CASE v >= 0
  BY <1>1
<1>2. CASE v < 0
  BY <1>2
<1>3. QED  BY <1>1, <1>2

LEMMA NextStamp ==
    ASSUME NEW S \in Nat \ {0}, NEW s \in 0 .. S - 1
    PROVE  (s + 1) % S = IF s = S - 1 THEN 0 ELSE s + 1
<1>1. CASE s = S - 1
  BY <1>1
<1>2. CASE s # S - 1
  BY <1>2
<1>3. QED  BY <1>1, <1>2

(* A call of the past keeps its stamp when the counter goes on.            *)
LEMMA StampKept ==
    ASSUME NEW S \in Nat \ {0}, NEW s \in 0 .. S - 1, NEW d \in Int, d <= 0, d > 1 - S
    PROVE  (s + d) % S = (((s + 1) % S) + (d - 1)) % S
<1>1. (s + d) % S = IF s + d < 0 THEN s + d + S ELSE s + d
  <2>1. s + d \in Int /\ -S <= s + d /\ s + d < S
    OBVIOUS
  <2>2. QED  BY <2>1, ModOneTurn
<1>2. CASE s = S - 1
  <2>1. (s + 1) % S = 0  BY <1>2, NextStamp
  <2>2. (0 + (d - 1)) % S = d - 1 + S
    <3> DEFINE v == 0 + (d - 1)
    <3>1. v \in Int /\ -S <= v /\ v < S /\ v < 0 /\ v + S = d - 1 + S
      OBVIOUS
    <3> HIDE DEF v
    <3>2. v % S = v + S  BY <3>1, ModOneTurn
    <3>3. QED  BY <3>1, <3>2 DEF v
  <2>3. s + d >= 0 /\ s + d = d - 1 + S
    BY <1>2
  <2>4. QED  BY <1>1, <2>1, <2>2, <2>3
<1>3. CASE s # S - 1
  <2>1. (s + 1) % S = s + 1  BY <1>3, NextStamp
  <2>2. (s + 1) + (d - 1) = s + d
    OBVIOUS
  <2>3. QED  BY <2>1, <2>2
<1>4. QED  BY <1>2, <1>3

(* One stamp is appended, and the oldest may then be dropped.              *)
LEMMA Appended ==
    ASSUME NEW S, NEW q \in Seq(S), NEW s \in S
    PROVE  /\ Append(q, s) # <<>> /\ Len(Append(q, s)) = Len(q) + 1
           /\ Append(q, s)[Len(q) + 1] = s
           /\ \A n \in 1 .. Len(q) : Append(q, s)[n] = q[n]
           /\ Len(Tail(Append(q, s))) = Len(q)
           /\ \A n \in 1 .. Len(q) : Tail(Append(q, s))[n] = Append(q, s)[n + 1]
<1>1. /\ Append(q, s) \in Seq(S) /\ Append(q, s) # <<>>
      /\ Len(Append(q, s)) = Len(q) + 1 /\ Len(q) \in Nat
      /\ Append(q, s)[Len(q) + 1] = s
      /\ \A n \in 1 .. Len(q) : Append(q, s)[n] = q[n]
  BY AppendProperties, LenProperties
<1> DEFINE a == Append(q, s)
<1> HIDE DEF a
<1>2. /\ Len(Tail(a)) = Len(a) - 1
      /\ \A n \in 1 .. Len(a) - 1 : Tail(a)[n] = a[n + 1]
  BY <1>1, HeadTailProperties DEF a
<1>3. Len(a) - 1 = Len(q)  BY <1>1 DEF a
<1>4. QED  BY <1>1, <1>2, <1>3 DEF a

LEMMA RunStamps ==
    ASSUME TypeOK, FPSInv, Run
    PROVE  FPSInv'
<1>1. /\ mAvgRange \in Nat /\ mAvgRange > 0 /\ Stamps \in Nat \ {0} /\ Stamps > mAvgRange + 1
      /\ stamp \in 0 .. Stamps - 1 /\ runs \in 0 .. mAvgRange
      /\ stamp' = (stamp + 1) % Stamps /\ stamp' \in 0 .. Stamps - 1
  BY FPSAssumption DEF TypeOK, FPSAssumption, Run
<1> DEFINE app == Append(mFPSAvg, stamp')
<1>2. /\ app # <<>> /\ Len(app) = runs + 1
      /\ app[runs + 1] = stamp'
      /\ \A n \in 1 .. runs : app[n] = mFPSAvg[n]
      /\ Len(Tail(app)) = runs
      /\ \A n \in 1 .. runs : Tail(app)[n] = app[n + 1]
  <2>1. mFPSAvg \in Seq(0 .. Stamps - 1) /\ Len(mFPSAvg) = runs
    BY DEF TypeOK, FPSInv
  <2>2. QED  BY <1>1, <2>1, Appended
<1> HIDE DEF app
<1>3. \A n \in 1 .. runs + 1 : app[n] = (stamp' + (n - (runs + 1))) % Stamps
  <2> SUFFICES ASSUME NEW n \in 1 .. runs + 1
               PROVE  app[n] = (stamp' + (n - (runs + 1))) % Stamps
    OBVIOUS
  <2>1. CASE n = runs + 1
    <3>1. stamp' + (n - (runs + 1)) = stamp'  BY <1>1, <2>1
    <3> DEFINE v == stamp'
    <3>2. v % Stamps = v
      <4>1. v \in Int /\ -Stamps <= v /\ v < Stamps /\ ~ (v < 0)  BY <1>1
      <4> HIDE DEF v
      <4>2. QED  BY <1>1, <4>1, ModOneTurn
    <3>3. QED  BY <1>2, <2>1, <3>1, <3>2
  <2>2. CASE n # runs + 1
    <3>1. n \in 1 .. runs /\ n - runs \in Int /\ n - runs <= 0 /\ n - runs > 1 - Stamps
          /\ (n - runs) - 1 = n - (runs + 1)
      BY <1>1, <2>2
    <3>2. app[n] = (stamp + (n - runs)) % Stamps
      BY <1>2, <3>1 DEF FPSInv
    <3>3. (stamp + (n - runs)) % Stamps = (stamp' + ((n - runs) - 1)) % Stamps
      BY <1>1, <3>1, StampKept
    <3>4. QED  BY <3>1, <3>2, <3>3
  <2>3. QED  BY <2>1, <2>2
<1>4. CASE runs < mAvgRange
  <2>1. runs' = runs + 1 /\ mFPSAvg' = app
    BY <1>1, <1>2, <1>4 DEF Run, Cut, app
  <2>2. QED  BY <1>2, <1>3, <2>1 DEF FPSInv
<1>5. CASE runs = mAvgRange
  <2>1. runs' = runs /\ mFPSAvg' = Tail(app)
    BY <1>1, <1>2, <1>5 DEF Run, Cut, app
  <2>3. ASSUME NEW n \in 1 .. runs
        PROVE  Tail(app)[n] = (stamp' + (n - runs)) % Stamps
    <3>1. n + 1 \in 1 .. runs + 1 /\ (n + 1) - (runs + 1) = n - runs
      BY <1>1
    <3>2. app[n + 1] = (stamp' + ((n + 1) - (runs + 1))) % Stamps
      BY <1>3, <3>1
    <3>3. QED  BY <1>2, <3>1, <3>2
  <2>4. QED  BY <1>2, <2>1, <2>3 DEF FPSInv
<1>6. QED  BY <1>1, <1>4, <1>5

(* The average is of the last calls of Run, all of them and no other:      *)
(* AverageOfLastRuns.                                                      *)
THEOREM AverageCorrect == Spec => []AverageOfLastRuns
<1>1. Init => FPSInv
  BY DEF Init, FPSInit, FPSInv
<1>2. TypeOK /\ FPSInv /\ [Next]_vars => FPSInv'
  <2> SUFFICES ASSUME TypeOK, FPSInv, [Next]_vars PROVE FPSInv'
    OBVIOUS
  <2>1. CASE FrameStart  BY <2>1, RunStamps DEF FrameStart
  <2>2. CASE ~ FrameStart
    BY <2>2 DEF Next, UserActs, Program, Main, Exit, ProcessMessages, FrameEnd, vars,
           fpsVars, FPSInv
  <2>3. QED  BY <2>1, <2>2
<1>3. TypeOK /\ FPSInv => AverageOfLastRuns
  <2> SUFFICES ASSUME TypeOK, FPSInv PROVE AverageOfLastRuns
    OBVIOUS
  <2>1. runs \in 0 .. mAvgRange /\ mAvgRange \in Nat /\ Len(mFPSAvg) = runs
    BY FPSAssumption DEF TypeOK, FPSInv, FPSAssumption
  <2>2. CASE runs < mAvgRange
    BY <2>1, <2>2 DEF AverageOfLastRuns, GetAvgFrameCount
  <2>3. CASE runs = mAvgRange
    <3> DEFINE old(n) == (stamp + n) % Stamps
    <3>1. ASSUME NEW n \in 1 .. runs
          PROVE  n - runs \in (1 - mAvgRange) .. 0 /\ mFPSAvg[n] = old(n - runs)
      BY <2>1, <2>3 DEF FPSInv
    <3>2. ASSUME NEW n \in (1 - mAvgRange) .. 0
          PROVE  n + runs \in 1 .. runs /\ mFPSAvg[n + runs] = old(n)
      <4>1. n + runs \in 1 .. runs /\ (n + runs) - runs = n  BY <2>1, <2>3
      <4>2. mFPSAvg[n + runs] = old((n + runs) - runs)  BY <3>1, <4>1
      <4> HIDE DEF old
      <4>3. QED  BY <4>1, <4>2
    <3> HIDE DEF old
    <3>3. {mFPSAvg[n] : n \in 1 .. runs} = {old(n) : n \in (1 - mAvgRange) .. 0}
      BY <3>1, <3>2
    <3>4. QED  BY <2>1, <2>3, <3>3 DEF AverageOfLastRuns, GetAvgFrameCount, old
  <2>4. QED  BY <2>1, <2>2, <2>3
<1>4. QED  BY <1>1, <1>2, <1>3, TypeCorrect, PTL DEF Spec

-----------------------------------------------------------------------------
(* Two places along an axis: a player inside the middle chunk stays where  *)
(* it is, one outside comes nearer, and never past the far end of the      *)
(* chunk, from where it would be put back again.                           *)
Settling(p, q) == /\ p \in -Half .. Half => q = p
                  /\ p > Half => -Half <= q /\ q < p
                  /\ p < -Half => p < q /\ q <= Half

(* One frame's shift of CalculatePlayerChunk settles, also for a Size that *)
(* is odd, where two halves are not the whole chunk.                       *)
LEMMA ShiftSettles ==
    ASSUME NEW p \in Int
    PROVE  Settling(p, p + Size * Recentre(p))
<1>1. Size \in Nat \ {0} /\ Half \in Nat /\ (Size = 2 * Half \/ Size = 2 * Half + 1)
  BY GameAssumption DEF Half
<1>2. CASE p > Half
  <2>1. Recentre(p) = -1 /\ Size * (-1) = -Size
    BY <1>1, <1>2 DEF Recentre
  <2>2. -Half <= p + (-Size) /\ p + (-Size) < p /\ ~(p < -Half) /\ p \notin -Half .. Half
    BY <1>1, <1>2
  <2>3. QED  BY <1>2, <2>1, <2>2 DEF Settling
<1>3. CASE p < -Half
  <2>1. Recentre(p) = 1 /\ Size * 1 = Size
    BY <1>1, <1>3 DEF Recentre
  <2>2. p + Size <= Half /\ p < p + Size /\ ~(p > Half) /\ p \notin -Half .. Half
    BY <1>1, <1>3
  <2>3. QED  BY <1>3, <2>1, <2>2 DEF Settling
<1>4. CASE p \in -Half .. Half
  <2>1. Recentre(p) = 0 /\ Size * 0 = 0 /\ p + 0 = p
    BY <1>1, <1>4 DEF Recentre
  <2>2. ~(p > Half) /\ ~(p < -Half)
    BY <1>1, <1>4
  <2>3. QED  BY <1>4, <2>1, <2>2 DEF Settling
<1>5. QED  BY <1>1, <1>2, <1>3, <1>4

(* While no key is down, each frame brings a player that is outside the    *)
(* middle chunk nearer to it and leaves one inside where it is, and        *)
(* nothing else moves it: it does not swing from side to side, however far *)
(* the keys took it.  With frames that go on (FramesGoOn) this is what     *)
(* makes SettlesInMiddle true, distances being whole numbers.              *)
Settle == mKeys = {} => IF FrameEnd THEN \A a \in Axes : Settling(position[a], position'[a])
                                    ELSE UNCHANGED position

(* CalculatePlayerChunk settles a player whose keys are up, frame by frame.*)
THEOREM NeverSwings == Spec => [][Settle]_vars
<1>1. ASSUME TypeOK, FrameEnd, mKeys = {}, NEW a \in Axes
      PROVE  Settling(position[a], position'[a])
  <2>1. PICK move \in Moves :
            CalculatePlayerChunk([b \in Axes |-> position[b] + move[b]])
    BY <1>1 DEF FrameEnd
  <2>2. position[a] \in Int /\ move[a] = 0 /\ position[a] + 0 = position[a]
    BY <1>1, <2>1 DEF TypeOK, Moves
  <2>3. position'[a] = position[a] + Size * Recentre(position[a])
    BY <2>1, <2>2 DEF CalculatePlayerChunk
  <2>4. QED  BY <2>2, <2>3, ShiftSettles
<1>2. ASSUME Next, ~FrameEnd
      PROVE  UNCHANGED position
  BY <1>2 DEF Next, UserActs, Program, Main, Exit, FrameStart, ProcessMessages, playerVars
<1>3. TypeOK /\ [Next]_vars => [Settle]_vars
  BY <1>1, <1>2 DEF Settle
<1>4. QED  BY <1>3, TypeCorrect, PTL DEF Spec
=============================================================================
