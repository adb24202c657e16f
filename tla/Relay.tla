------------------------------- MODULE Relay -------------------------------
(***************************************************************************)
(* What a relayed connection promises, without buffers, windows or          *)
(* callbacks: each direction delivers the bytes it accepted in order, and   *)
(* ends "done" only when it has delivered all of them; otherwise it is     *)
(* "cut".                                                                  *)
(***************************************************************************)
EXTENDS Integers, Sequences

VARIABLES
    upIn, upOut,      \* number of bytes accepted, bytes delivered: to SOCKS
    downIn, downOut,  \* the same, to the application
    up, down          \* "idle", "open", "done" or "cut"

relayVars == <<upIn, upOut, downIn, downOut, up, down>>

FirstBytes(n) == [i \in 1..n |-> i]

RelayInit ==
    /\ upIn = 0 /\ upOut = <<>> /\ downIn = 0 /\ downOut = <<>>
    /\ up = "idle" /\ down = "idle"

Connect ==
    /\ up # "open" /\ down # "open"
    /\ upIn' = 0 /\ upOut' = <<>> /\ downIn' = 0 /\ downOut' = <<>>
    /\ up' = "open" /\ down' = "open"

(* One step of a direction: accept more, deliver the next bytes, and       *)
(* possibly end.  A direction may deliver and end in one step.             *)
Direction(in, out, inNext, outNext, state, stateNext) ==
    /\ inNext >= in
    /\ Len(outNext) \in Len(out)..inNext
    /\ outNext = FirstBytes(Len(outNext))
    /\ stateNext = state \/ (state = "open" /\ stateNext \in {"done", "cut"})
    /\ state # "open" => inNext = in /\ outNext = out
    /\ stateNext = "done" => Len(outNext) = inNext

Relaying ==
    /\ Direction(upIn, upOut, upIn', upOut', up, up')
    /\ Direction(downIn, downOut, downIn', downOut', down, down')

RelaySpec == RelayInit /\ [][Connect \/ Relaying]_relayVars
=============================================================================
