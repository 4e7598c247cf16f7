---------------------------- MODULE AlertChannels ----------------------------
(***************************************************************************)
(* Outbound delivery of one alert (src/apex/alerts/channels.py).           *)
(* A handler either reports success, reports failure or raises; _Channel   *)
(* turns the last two, and a missing handler, into the same receipt.  The  *)
(* set `delivered' holds the channels whose handler reported success.      *)
(***************************************************************************)
EXTENDS Sequences, FiniteSets

Channel == {"voice", "push", "sms", "email"}

(* The receipt _Channel.send returns for one attempt. *)
Send(channel, alert, delivered) ==
    [channel |-> channel, alert |-> alert, delivered |-> channel \in delivered]

(* A fallback that forgets to look at the push receipt. *)
DispatchWithoutFallback(alert, useVoice, delivered) ==
    (IF useVoice THEN <<Send("voice", alert, delivered)>> ELSE <<>>)
        \o <<Send("push", alert, delivered), Send("email", alert, delivered)>>

(* Voice only for L4, then push, then SMS if push failed, then e-mail. *)
Dispatch(alert, useVoice, delivered) ==
    (IF useVoice THEN <<Send("voice", alert, delivered)>> ELSE <<>>)
        \o <<Send("push", alert, delivered)>>
        \o (IF "push" \in delivered THEN <<>> ELSE <<Send("sms", alert, delivered)>>)
        \o <<Send("email", alert, delivered)>>
=============================================================================
