----------------------------- MODULE WindowInput ------------------------------
(***************************************************************************)
(* Input of the X window (Common/Linux/Window.cpp) and what GameWindow     *)
(* makes of it.  The user and the X server act at any time and leave       *)
(* events in a queue; ProcessMessages handles them later, one by one, and  *)
(* keeps tables of the keys and buttons it believes to be down.            *)
(*                                                                         *)
(* Assumed of the X server: a key's events reach the window while it has   *)
(* the focus, a press and its release both reach the window under the      *)
(* pointer, and gaining the focus sends no key events.  The y coordinate,  *)
(* treated like x, the full-screen switch and titles are left out.         *)
(***************************************************************************)
EXTENDS Integers, Sequences, FiniteSets

CONSTANTS Keys,         \* the keys the game looks at
          Buttons,      \* those of the mouse's three buttons there are
          Sizes,        \* window sizes
          InitialSize,  \* 800 x 600
          MaxX,         \* the pointer is at 0 .. MaxX
          MaxAngle,     \* bound: how far the user turns
          MaxQueue      \* bound: events waiting in the queue

LMB == 0
RMB == 2
MButtons == 0 .. 2
WheelUp == 3
WheelDown == 4

ASSUME InputAssumption == /\ Buttons \subseteq MButtons
                          /\ InitialSize \in Sizes
                          /\ MaxX \in Nat /\ MaxAngle \in Nat /\ MaxQueue \in Nat

VARIABLES held, pressed,  \* the keys and buttons that are physically down
          focused,        \* the window has the keyboard focus
          pointer,        \* where the pointer is
          shape,          \* the size the window has on the screen
          queue,          \* the events not yet handled, oldest first
          dragging,       \* the left button is down, and no focus was lost since
          wanted,         \* the angle the hand has turned while dragging
          owed,           \* the clicks of the right button no ray has answered
          scrolled,       \* the wheel was turned in the middle of a drag
          mKeys, mMouseButtons,  \* the tables: what is believed to be down
          mMouseDownX,    \* entry 0, the origin of the next drag
          grabbed,        \* XGrabPointer is in effect
          mClosed, mSize, \* closed; mWidth and mHeight
          viewport,       \* the size OpenGL draws
          mAngleX,        \* the player's angle, in pixels dragged
          mDrawRay        \* GameManager's request to cast a ray

userVars == <<held, pressed, focused, pointer, dragging, wanted, scrolled>>
tables == <<mKeys, mMouseButtons, mMouseDownX, grabbed, mAngleX>>
sizes == <<mClosed, mSize, viewport>>

(* The window belongs to GameManager, a function-local static whose memory *)
(* is zero before its constructors run: so are the table entries that they *)
(* leave alone.  A window manager may or may not report the first size.    *)
InputInit ==
    /\ held = {} /\ pressed = {} /\ focused = FALSE /\ pointer = 0
    /\ shape = InitialSize
    /\ queue \in {<<>>, <<[type |-> "Configure", size |-> InitialSize]>>}
    /\ dragging = FALSE /\ wanted = 0 /\ owed = 0 /\ scrolled = FALSE
    /\ mKeys = {} /\ mMouseButtons = {} /\ mMouseDownX = 0 /\ grabbed = FALSE
    /\ mClosed = FALSE /\ mSize = InitialSize /\ viewport = InitialSize
    /\ mAngleX = 0 /\ mDrawRay = FALSE

-----------------------------------------------------------------------------
(* The user and the X server.                                              *)

Send(events) == /\ ~mClosed
                /\ queue' = queue \o events
                /\ Len(queue') <= MaxQueue
                /\ UNCHANGED <<tables, sizes, mDrawRay>>

KeyEvent(t, k) == [type |-> t, key |-> k]
ButtonEvent(t, b) == [type |-> t, button |-> b, x |-> pointer]

PressKey(k) == /\ k \notin held /\ focused
               /\ held' = held \cup {k}
               /\ Send(<<KeyEvent("KeyPress", k)>>)
               /\ UNCHANGED <<pressed, focused, pointer, shape, dragging,
                              wanted, owed, scrolled>>

(* A key that is kept down repeats: the server sends a release and a press.*)
RepeatKey(k) == /\ k \in held /\ focused
                /\ Send(<<KeyEvent("KeyRelease", k), KeyEvent("KeyPress", k)>>)
                /\ UNCHANGED <<userVars, shape, owed>>

ReleaseKey(k) == /\ k \in held
                 /\ held' = held \ {k}
                 /\ Send(IF focused THEN <<KeyEvent("KeyRelease", k)>> ELSE <<>>)
                 /\ UNCHANGED <<pressed, focused, pointer, shape, dragging,
                                wanted, owed, scrolled>>

PressButton(b) == /\ b \notin pressed
                  /\ pressed' = pressed \cup {b}
                  /\ dragging' = (dragging \/ b = LMB)
                  /\ owed' = IF b = RMB THEN owed + 1 ELSE owed
                  /\ Send(<<ButtonEvent("ButtonPress", b)>>)
                  /\ UNCHANGED <<held, focused, pointer, shape, wanted, scrolled>>

ReleaseButton(b) == /\ b \in pressed
                    /\ pressed' = pressed \ {b}
                    /\ dragging' = (dragging /\ b # LMB)
                    /\ Send(<<ButtonEvent("ButtonRelease", b)>>)
                    /\ UNCHANGED <<held, focused, pointer, shape, wanted, owed,
                                   scrolled>>

(* A turn of the wheel is the press and release of a button of its own.    *)
(* Bound: one turn down in the middle of a drag.                           *)
Scroll(b) == /\ b = WheelDown /\ dragging => ~scrolled
             /\ Send(<<ButtonEvent("ButtonPress", b), ButtonEvent("ButtonRelease", b)>>)
             /\ scrolled' = (scrolled \/ (dragging /\ b = WheelDown))
             /\ UNCHANGED <<held, pressed, focused, pointer, shape, dragging,
                            wanted, owed>>

MovePointer(x) == /\ x # pointer
                  /\ pointer' = x
                  /\ wanted' = IF dragging THEN wanted - (x - pointer) ELSE wanted
                  /\ wanted' \in -MaxAngle .. MaxAngle
                  /\ Send(<<[type |-> "Motion", x |-> x]>>)
                  /\ UNCHANGED <<held, pressed, focused, shape, dragging, owed,
                                 scrolled>>

LoseFocus == /\ focused /\ focused' = FALSE
             /\ dragging' = FALSE
             /\ Send(<<[type |-> "FocusOut"]>>)
             /\ UNCHANGED <<held, pressed, pointer, shape, wanted, owed, scrolled>>

(* Keys may be held when the focus comes: they were pressed elsewhere.     *)
GainFocus(elsewhere) == /\ ~focused /\ focused' = TRUE
                        /\ held' = held \cup elsewhere
                        /\ Send(<<>>)
                        /\ UNCHANGED <<pressed, pointer, shape, dragging, wanted,
                                       owed, scrolled>>

(* A move of the window reports its size, too.                             *)
Resize(s) == /\ shape' = s
             /\ Send(<<[type |-> "Configure", size |-> s]>>)
             /\ UNCHANGED <<userVars, owed>>

CloseButton == /\ Send(<<[type |-> "Client"]>>)
               /\ UNCHANGED <<userVars, shape, owed>>

User == \/ \E k \in Keys : PressKey(k) \/ RepeatKey(k) \/ ReleaseKey(k)
        \/ \E b \in Buttons : PressButton(b) \/ ReleaseButton(b)
        \/ \E b \in {WheelUp, WheelDown} : Scroll(b)
        \/ \E x \in 0 .. MaxX : MovePointer(x)
        \/ \E elsewhere \in SUBSET Keys : GainFocus(elsewhere)
        \/ \E s \in Sizes : Resize(s)
        \/ LoseFocus
        \/ CloseButton

-----------------------------------------------------------------------------
(* ProcessMessages: one action per kind of event, on the oldest event.     *)

Handle(type) == /\ queue # <<>> /\ Head(queue).type = type
                /\ queue' = Tail(queue)
                /\ UNCHANGED <<userVars, shape, owed>>

ClientMessage == /\ Handle("Client")
                 /\ mClosed' = TRUE
                 /\ UNCHANGED <<tables, mSize, viewport, mDrawRay>>

KeyPress == /\ Handle("KeyPress")
            /\ mKeys' = mKeys \cup {Head(queue).key}
            /\ UNCHANGED <<mMouseButtons, mMouseDownX, grabbed, mAngleX, sizes, mDrawRay>>

KeyRelease == /\ Handle("KeyRelease")
              /\ mKeys' = mKeys \ {Head(queue).key}
              /\ UNCHANGED <<mMouseButtons, mMouseDownX, grabbed, mAngleX, sizes, mDrawRay>>

(* MouseMove and OnMouseMove.  The origin moves along with or without drag.*)
MotionStoresDelta == LET x == Head(queue).x IN
    /\ Handle("Motion")
    /\ mAngleX' = IF LMB \in mMouseButtons
                  THEN mAngleX - (x - mMouseDownX) ELSE mAngleX
    /\ mMouseDownX' = x - mMouseDownX
    /\ UNCHANGED <<mKeys, mMouseButtons, grabbed, sizes, mDrawRay>>

MotionDragOnly ==
    LET x == Head(queue).x IN
    /\ Handle("Motion")
    /\ IF LMB \in mMouseButtons
       THEN mAngleX' = mAngleX - (x - mMouseDownX) /\ UNCHANGED mMouseDownX
       ELSE mMouseDownX' = x /\ UNCHANGED mAngleX
    /\ UNCHANGED <<mKeys, mMouseButtons, grabbed, sizes, mDrawRay>>

Motion == LET x == Head(queue).x IN
          /\ Handle("Motion")
          /\ mAngleX' = IF LMB \in mMouseButtons
                        THEN mAngleX - (x - mMouseDownX) ELSE mAngleX
          /\ mMouseDownX' = x
          /\ UNCHANGED <<mKeys, mMouseButtons, grabbed, sizes, mDrawRay>>

IsClick(e) == e.type = "ButtonPress" /\ e.button = RMB
Waiting == {n \in 1 .. Len(queue) : IsClick(queue[n])}

(* MouseDown and OnMouseDown; the wheel goes to OnScroll, which is empty.  *)
ButtonPress ==
    LET e == Head(queue) IN
    /\ Handle("ButtonPress")
    /\ IF e.button \in MButtons
       THEN /\ grabbed' = TRUE
            /\ mMouseButtons' = mMouseButtons \cup {e.button}
            /\ mMouseDownX' = IF e.button = LMB THEN e.x ELSE mMouseDownX
            /\ mDrawRay' = (mDrawRay \/ e.button = RMB)
       ELSE UNCHANGED <<grabbed, mMouseButtons, mMouseDownX, mDrawRay>>
    /\ UNCHANGED <<mKeys, mAngleX, sizes>>

(* MouseUp ungrabs the pointer when the table shows no button down.        *)
MouseUpAny(buttons) == /\ mMouseButtons' = mMouseButtons \ buttons
                       /\ grabbed' = FALSE

MouseUp(buttons) == /\ mMouseButtons' = mMouseButtons \ buttons
                    /\ grabbed' = (grabbed /\ mMouseButtons' # {})

(* No range test here: a turn of the wheel clears entry 3 or 4 of a table  *)
(* of three.  After the table come a byte of padding and the lowest byte   *)
(* of mMouseDownX[0]; a build may lay them out otherwise.                  *)
ButtonRelease ==
    LET b == Head(queue).button IN
    /\ Handle("ButtonRelease")
    /\ MouseUp({b})
    /\ mMouseDownX' \in {mMouseDownX} \cup
            IF b = WheelDown THEN {mMouseDownX - (mMouseDownX % 256)} ELSE {}
    /\ UNCHANGED <<mKeys, mAngleX, sizes, mDrawRay>>

LostFocusKeepKeys == /\ Handle("FocusOut")
                     /\ MouseUp(MButtons)
                     /\ UNCHANGED <<mKeys, mMouseDownX, mAngleX, sizes, mDrawRay>>

LostFocus == /\ Handle("FocusOut")
             /\ MouseUp(MButtons)
             /\ mKeys' = {}
             /\ UNCHANGED <<mMouseDownX, mAngleX, sizes, mDrawRay>>

(* OnResize hands the size on to Renderer's ResizeViewport.                *)
ConfigureKeepViewport == /\ Handle("Configure")
                         /\ mSize' = Head(queue).size
                         /\ UNCHANGED <<viewport, tables, mClosed, mDrawRay>>

ConfigureNotify == /\ Handle("Configure")
                   /\ LET s == Head(queue).size IN
                      IF s # mSize THEN mSize' = s /\ viewport' = s
                                   ELSE UNCHANGED <<mSize, viewport>>
                   /\ UNCHANGED <<tables, mClosed, mDrawRay>>

ProcessMessage == \/ ClientMessage \/ KeyPress \/ KeyRelease \/ Motion
                  \/ ButtonPress \/ ButtonRelease \/ LostFocus \/ ConfigureNotify

(* SetSize, called from main with the size the user gave.                  *)
SetSize(s) == /\ mSize' = s
              /\ shape' = s
              /\ queue' = IF s = shape THEN queue
                          ELSE Append(queue, [type |-> "Configure", size |-> s])
              /\ UNCHANGED <<userVars, owed, tables, mClosed, viewport, mDrawRay>>

-----------------------------------------------------------------------------
(* Every variable has its type.                                            *)
Event == [type : {"KeyPress", "KeyRelease"}, key : Keys]
         \cup [type : {"ButtonPress", "ButtonRelease"},
                button : Buttons \cup {WheelUp, WheelDown}, x : 0 .. MaxX]
         \cup [type : {"Motion"}, x : 0 .. MaxX]
         \cup [type : {"Configure"}, size : Sizes]
         \cup [type : {"FocusOut", "Client"}]

UserTypeOK == /\ held \subseteq Keys /\ pressed \subseteq Buttons
              /\ focused \in BOOLEAN /\ dragging \in BOOLEAN
              /\ scrolled \in BOOLEAN /\ owed \in Int
              /\ pointer \in 0 .. MaxX /\ wanted \in Int /\ shape \in Sizes
ProgramTypeOK == /\ mKeys \subseteq Keys /\ mMouseButtons \subseteq Buttons
                 /\ grabbed \in BOOLEAN /\ mClosed \in BOOLEAN /\ mDrawRay \in BOOLEAN
                 /\ mMouseDownX \in 0 .. MaxX /\ mAngleX \in Int
                 /\ mSize \in Sizes /\ viewport \in Sizes
InputTypeOK == UserTypeOK /\ ProgramTypeOK /\ queue \in Seq(Event)

(* Once the events are handled, a key the table shows is down in the       *)
(* focused window: however presses, repeats and changes of focus interleave*)
(* with ProcessMessages, the player never walks on with no key held.       *)
NoStuckKey == queue = <<>> => mKeys \subseteq held /\ (mKeys # {} => focused)

(* The same for the mouse: a button the table shows is down, and the grab  *)
(* that confines the pointer to the window lasts as long as one of them.   *)
GrabEndsWithButtons ==
    queue = <<>> => mMouseButtons \subseteq pressed /\ (grabbed <=> mMouseButtons # {})

(* "scale the deltas to produce a rotation angle" (GameWindow.cpp:92): the *)
(* player turns by exactly what the hand dragged, although the deltas are  *)
(* taken between events handled frames after they happened, and buttons,   *)
(* focus and pointer moved meanwhile.  A wheel turned down in the middle   *)
(* of a drag is the exception: see ButtonRelease.                          *)
DragFollowsHand == queue = <<>> /\ ~scrolled => mAngleX = wanted
=============================================================================
