---------------------------- MODULE MCConfiguration ----------------------------
(***************************************************************************)
(* An instance of Configuration for TLC: some options of user.ini with     *)
(* names that are part of each other, and some that are not.               *)
(***************************************************************************)
EXTENDS Configuration

SomeSymbols ==
    {"DEBUG_INFO", "DEBUG_INFO_DWARF4", "KASAN", "KASAN_INLINE", "INFO", "RELR", "TIMEOUT"}
Same == { <<n, n>> : n \in SomeSymbols }
Starts == Same \cup {<<"DEBUG_INFO", "DEBUG_INFO_DWARF4">>, <<"KASAN", "KASAN_INLINE">>}
Parts == Starts \cup { <<"INFO", n>> : n \in {"DEBUG_INFO", "DEBUG_INFO_DWARF4"} }

\* Of user.ini's arguments, as many as tell the cases apart.
Args ==
    [ generic   |-> << <<"-e", "DEBUG_INFO">>, <<"-e", "DEBUG_INFO_DWARF4">>, <<"-d", "RELR">> >>,
      syzkaller |-> << <<"-e", "KASAN">>, <<"-e", "KASAN_INLINE">>, <<"--set-val", "TIMEOUT">> >>,
      custom    |-> << <<"-e", "RELR">>, <<"-d", "DEBUG_INFO_DWARF4">> >>,
      config    |-> << >> ]

Pairs == {"-e", "-d"} \X {"DEBUG_INFO", "DEBUG_INFO_DWARF4", "KASAN", "INFO", "RELR", "TIMEOUT"}
ShortExtras == { <<>> } \cup { << p >> : p \in Pairs }
LongExtras == ShortExtras \cup { << p, q >> : p \in Pairs, q \in Pairs }
================================================================================
