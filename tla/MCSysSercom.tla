---------------------------- MODULE MCSysSercom ----------------------------
(* Small instances of SysSercom for TLC.                                   *)
EXTENDS SysSercom

CONSTANTS shell, boot, kbd

Kbd == [kind |-> "kbd", first |-> 1, count |-> 1, value |-> "a"]
Write(v) == [kind |-> "eepromWrite", first |-> 1, count |-> 2, value |-> v]
Read == [kind |-> "eepromRead", first |-> 1, count |-> 2, value |-> "a"]

\* One client writes, another reads, the keyboard is scanned.
OneWriter ==
  [c \in Clients |->
     CASE c = shell -> {Write("a")}
       [] c = boot  -> {Read}
       [] c = kbd   -> {Kbd}]
=============================================================================
