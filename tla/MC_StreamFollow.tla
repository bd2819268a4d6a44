--------------------------- MODULE MC_StreamFollow ---------------------------
(***************************************************************************)
(* Values for the constants of StreamFollow: two Rumble URLs, which share  *)
(* the channel key "rumble", and a Twitch channel.                         *)
(***************************************************************************)
EXTENDS StreamFollow

RumbleDests == {"rumble/a", "rumble/b"}
MCDests == RumbleDests \cup {"twitch/c"}
MCChannels == {"rumble", "c"}
MCChannelOf == [d \in MCDests |-> IF d \in RumbleDests THEN "rumble" ELSE "c"]
OneDest == {"rumble/a"}
OneChannelOf == [d \in OneDest |-> "rumble"]
RumbleChannelOf == [d \in RumbleDests |-> "rumble"]
=============================================================================
