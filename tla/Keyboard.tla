------------------------------ MODULE Keyboard ------------------------------
(***************************************************************************)
(* What keyboardHandler makes of the codes of the keyboard: the shift keys *)
(* and caps lock, and the characters typed. The keyboard itself sends the  *)
(* codes: one for a key that goes down, one for a key that comes up, the   *)
(* first again while a key is held, and for a grey key a prefix, and codes *)
(* that pretend to release the shift keys that are held.                   *)
(*                                                                         *)
(* "a" stands for the keys that type a letter or a sign, "up" for the grey *)
(* keys whose codes, but for the prefix, are those of a keypad digit. What *)
(* Backspace and Enter do is in LineInput, the page keys are in Screen.    *)
(***************************************************************************)
EXTENDS Integers, Sequences

CONSTANTS
  QueueSize,   \* codes the keyboard can keep, 16
  Repeating,   \* keys that are held for long enough to be repeated
  MaxEvents    \* bound: keys that go down, come up or are repeated

Shifts == {"lshift", "rshift"}
Keys == Shifts \cup {"caps", "a", "up"}

ASSUME KeyboardAssumption ==
  /\ QueueSize \in Nat
  /\ Repeating \subseteq Keys
  /\ MaxEvents \in Nat

VARIABLES
  lshift, rshift, capsLock,
  tempBuffer,   \* the characters typed
  held,         \* the keys that are down
  queue,        \* the codes that the keyboard has not sent yet
  meant,        \* history: the text and the state of caps lock that were meant
  lost,         \* history: has the keyboard had more codes than it can keep?
  capsRepeated, \* history: has caps lock been held until it was repeated?
  events

driverVars == <<lshift, rshift, capsLock, tempBuffer>>
keyboardVars == <<held, queue, meant, lost, capsRepeated, events>>

Down(key) == [key |-> key, up |-> FALSE]
Up(key) == [key |-> key, up |-> TRUE]
Prefix == Up("e0")

KeyboardInit ==
  /\ lshift = FALSE /\ rshift = FALSE /\ capsLock = FALSE
  /\ tempBuffer = <<>>
  /\ held = {}
  /\ queue = <<>>
  /\ meant = [text |-> <<>>, caps |-> FALSE]
  /\ lost = FALSE
  /\ capsRepeated = FALSE
  /\ events = 0

-----------------------------------------------------------------------------
(* The keyboard. *)

(* The shift keys that are held, as codes of a grey key release or press   *)
(* them: each behind a prefix.                                             *)
Pretend(up) ==
  (IF "lshift" \in held THEN <<Prefix, [key |-> "lshift", up |-> up]>> ELSE <<>>)
    \o (IF "rshift" \in held THEN <<Prefix, [key |-> "rshift", up |-> up]>> ELSE <<>>)

DownCodes(key) ==
  IF key = "up" THEN Pretend(TRUE) \o <<Prefix, Down("up")>> ELSE <<Down(key)>>

UpCodes(key) ==
  IF key = "up" THEN <<Prefix, Up("up")>> \o Pretend(FALSE) ELSE <<Up(key)>>

(* A grey key repeats its own code and no pretended one. *)
RepeatCodes(key) ==
  IF key = "up" THEN <<Prefix, Down("up")>> ELSE <<Down(key)>>

Send(codes) ==
  IF Len(queue) + Len(codes) <= QueueSize
  THEN queue' = queue \o codes /\ UNCHANGED lost
  ELSE lost' = TRUE /\ UNCHANGED queue

(* While a grey key is down the shift keys count as released. *)
Shifted(caps) == ("up" \notin held /\ held \cap Shifts # {}) \/ caps

Meant(m, key) ==
  CASE key = "a"    -> [m EXCEPT !.text = Append(@, IF Shifted(m.caps) THEN "A" ELSE "a")]
    [] key = "up"   -> [m EXCEPT !.text = Append(@, "8")]
    [] key = "caps" -> [m EXCEPT !.caps = ~@]
    [] OTHER        -> m

(* No shift key moves while a grey key is down: the keyboard would send    *)
(* real codes among the pretended ones.                                    *)
Press(key) ==
  /\ key \notin held
  /\ "up" \in held => key \notin Shifts
  /\ held' = held \cup {key}
  /\ Send(DownCodes(key))
  /\ meant' = Meant(meant, key)
  /\ UNCHANGED capsRepeated

(* Caps lock is meant to change once, however long its key is held. *)
Repeat(key) ==
  /\ key \in held \cap Repeating
  /\ "up" \in held => key \notin Shifts
  /\ Send(RepeatCodes(key))
  /\ meant' = IF key = "caps" THEN meant ELSE Meant(meant, key)
  /\ capsRepeated' = (capsRepeated \/ key = "caps")
  /\ UNCHANGED held

Release(key) ==
  /\ key \in held
  /\ "up" \in held => key \notin Shifts
  /\ held' = held \ {key}
  /\ Send(UpCodes(key))
  /\ UNCHANGED <<meant, capsRepeated>>

Typist ==
  /\ events < MaxEvents
  /\ events' = events + 1
  /\ \E key \in Keys : Press(key) \/ Repeat(key) \/ Release(key)

-----------------------------------------------------------------------------
(* The driver. *)

(* The two tables differ where a key types two characters. The prefix is   *)
(* behind the end of both: whatever character is found there, it belongs   *)
(* to a key that comes up, and types nothing.                              *)
KeyChar(key) ==
  CASE key = "a"  -> IF lshift \/ rshift \/ capsLock THEN "A" ELSE "a"
    [] key = "up" -> "8"
    [] OTHER      -> "none"

SysKey(code) ==
  /\ lshift' = IF code.key = "lshift" THEN ~code.up ELSE lshift
  /\ rshift' = IF code.key = "rshift" THEN ~code.up ELSE rshift
  /\ capsLock' = IF code = Down("caps") THEN ~capsLock ELSE capsLock

(* Mutant of KeyboardHandler: a key that comes up types its character too. *)
KeyboardHandlerUp(code) ==
  IF KeyChar(code.key) = "none"
  THEN SysKey(code) /\ UNCHANGED tempBuffer
  ELSE tempBuffer' = Append(tempBuffer, KeyChar(code.key)) /\ UNCHANGED <<lshift, rshift, capsLock>>

KeyboardHandler(code) ==
  IF KeyChar(code.key) = "none"
  THEN SysKey(code) /\ UNCHANGED tempBuffer
  ELSE /\ UNCHANGED <<lshift, rshift, capsLock>>
       /\ tempBuffer' = IF code.up THEN tempBuffer
                        ELSE Append(tempBuffer, KeyChar(code.key))
=============================================================================
