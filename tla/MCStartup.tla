------------------------------ MODULE MCStartup ------------------------------
(***************************************************************************)
(* Startup with the real ranges of the system clock and two small PHCs, on *)
(* files of a few keys.                                                    *)
(***************************************************************************)
EXTENDS Startup

MCPhcMaxAdj == [A |-> 3, B |-> 5]
MCHertz == {100, 1024}
MCFound(clk, hz) ==
    IF clk = "realtime"
    THEN [tick : {NominalTick(hz), NominalTick(hz) + 2}, freq : {-7}]
    ELSE [tick : {0}, freq : {IF clk = "A" THEN -2 ELSE 3}]
MCAsked(max) ==
    {0, -2, max, -max, 1 - max, 50001, 499999, -500000, 500001, 511999}
MCSteps == {-6, -5, -1, 0, 4, 5}

Words(ws) == [word : ws, int : {0}, num : {0}]
Decimal(word, int, num) == [word |-> word, int |-> int, num |-> num]

MCNamesIn(name) ==
    CASE name = "" -> {"logging", "servo", "device", "other"}
      [] name = "logging" -> {"use_syslog", "use_stdout"}
      [] name = "servo" -> {"type", "pi_proportional_const", "pi_integral_norm_max",
                            "pi_proportional_norm_max", "typo"}
      [] name = "device" -> {"freq_device", "tod_device", "tsproc_mode",
                             "delay_filter", "delay_filter_length"}
      [] OTHER -> {"device", "logSyncInterval"}

MCTextsOf(name) ==
    CASE name = "use_syslog" -> {Decimal("1", 1, 1000)}
      [] name = "use_stdout" -> {Decimal("2", 2, 2000), Decimal("256", 256, 256000)}
      [] name = "type" -> Words({"linreg", "ntp"})
      [] name = "pi_integral_norm_max" -> {Decimal("2.5", 2, 2500)}
      [] name \in {"pi_proportional_const", "pi_proportional_norm_max"} ->
             {Decimal("0.5", 0, 500)}
      [] name = "freq_device" -> Words({"A", "dev/no_clock_at_the_end_of_a_long_path"})
      [] name = "tod_device" -> Words({"A", "B"})
      [] name = "tsproc_mode" -> Words({"raw_weight", "raw weight"})
      [] name = "delay_filter" -> Words({"moving_median"})
      [] name = "delay_filter_length" -> {Decimal("2.9", 2, 2900), Decimal("-1", -1, -1000)}
      [] OTHER -> Words({"pi"})
=============================================================================
