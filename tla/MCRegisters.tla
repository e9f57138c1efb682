---------------------------- MODULE MCRegisters -----------------------------
(***************************************************************************)
(* Instances of Registers for TLC: every fault by itself, faults that come *)
(* and go together, a log that overflows, and settings at their edges.     *)
(***************************************************************************)
EXTENDS Registers

Part(name, means, asks) == [name |-> name, means |-> means, asks |-> asks]

\* Two faults of the same bit, two of different requests, and the filler.
Together == {{1, 161}, {161, 352}, {20, 339, 464}}

\* A leap day, an unknown id, a day that never was and a midnight.
MCEvents ==
    <<[id |-> 1, at |-> <<2024, 2, 29, 23, 59, 58>>, good |-> TRUE],
      [id |-> 56, at |-> <<2024, 2, 29, 23, 59, 59>>, good |-> FALSE],
      [id |-> 467, at |-> <<2024, 3, 1, 0, 0, 0>>, good |-> TRUE],
      [id |-> 2, at |-> <<2023, 2, 29, 12, 0, 0>>, good |-> FALSE]>>

Midnight == <<2024, 12, 31, 23, 59, 59>>
NewYear == <<2025, 1, 1, 0, 0, 0>>

MCParts ==
    {Part("state", SUBSET faults, {}) : faults \in Together \cup {{i} : i \in 1..480}}
    \cup {Part("fault_log", 0..14, {}),
          Part("clock", {NoDate, Midnight, NewYear}, {Midnight, <<2028, 2, 29, 0, 0, 1>>}),
          Part("feed_in", {<<0, 0>>}, {<<1, 100>>, <<2, 6553500>>, <<1, 150>>}),
          Part("active_power", {<<FALSE, 2000>>},
               {<<TRUE, -1>>, <<TRUE, 1>>, <<FALSE, 3>>, <<TRUE, 2000>>, <<TRUE, 2002>>}),
          Part("eps", {0}, {1, 2}),
          Part("passive_timeout", {<<0, 0>>}, {<<65535, 1>>, <<65536, 0>>, <<-1, 1>>}),
          Part("passive_power", {<<0, 0, 0>>},
               {<<-1, -65536, 65536>>, <<2147483647, -2147483647 - 1, -1>>})}
=============================================================================
