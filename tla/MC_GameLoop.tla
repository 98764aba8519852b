----------------------------- MODULE MC_GameLoop ------------------------------
(* A small window, and chunks that a fast player crosses two at a time.    *)
(* In a behaviour the user touches the keys, the mouse or the window's     *)
(* frame, or clicks without moving the mouse; the focus may go with each.  *)
(* Clicks may pile up, so that a frame handles two of the right button.    *)
EXTENDS GameLoop, TLC

MCSteps == {-10, 0, 10}

VARIABLE hand

Sends == [keys  |-> {"KeyPress", "KeyRelease", "FocusOut", "Client"},
          mouse |-> {"ButtonPress", "ButtonRelease", "Motion", "FocusOut"},
          click |-> {"ButtonPress", "ButtonRelease", "FocusOut"},
          frame |-> {"Configure", "Client", "ButtonPress", "ButtonRelease"}]

Waits == [keys |-> 2, mouse |-> 2, click |-> MaxQueue, frame |-> 2]

MCInit == Init /\ hand \in DOMAIN Sends /\ (hand # "frame" => queue = <<>>)

MCUser == /\ UserActs
          /\ queue' # queue => /\ queue'[Len(queue')].type \in Sends[hand]
                              /\ Len(queue') <= Waits[hand]
          /\ hand # "keys" => held' = {}

MCNext == (MCUser \/ Program) /\ UNCHANGED hand

MCSpec == MCInit /\ [][MCNext]_<<vars, hand>> /\ WF_vars(Program)
=============================================================================
