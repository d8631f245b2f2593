---------------------------- MODULE ConfigTables ----------------------------
(***************************************************************************)
(* The tables of config.c: the fields of each section of the configuration *)
(* file, and how the text of a value becomes a number.                     *)
(*                                                                         *)
(* A text is what the code can make of it: the word, the number that       *)
(* atoi() reads, and the one that strtod() reads, in thousandths (both 0   *)
(* for a word).  An enumerator is its number.  The defaults of the tables  *)
(* are left out: nothing reads them.                                       *)
(***************************************************************************)
EXTENDS Integers, Sequences

Text == [word : STRING, int : Int, num : Int]

INT_MAX == 2147483647
INT_MIN == -INT_MAX - 1
DBL_MAX == INT_MAX     \* greater than any number of a file
DBL_MIN == 1           \* the smallest positive one

servo_types == <<"pi", "linreg", "ntpshm">>
tsproc_types == <<"filter", "raw", "filter_weight", "raw_weight">>
delay_filters == <<"moving_average", "moving_median">>

\* The constructors of struct field_info
Number(var_type, min, max) == [var_type |-> var_type, min |-> min, max |-> max]
Integer(min, max) == Number("INTEGER", min, max)
Double(min, max) == Number("DOUBLE", min, max)
Str == [var_type |-> "STRING"]
Enum(list) == [var_type |-> "ENUM", enum_list |-> list]

logger_tbl ==
    [logging_level |-> Integer(0, 7), use_syslog |-> Integer(0, 1),
     msg_tag |-> Str, use_stdout |-> Integer(0, 1)]

servo_config_tbl ==
    [type |-> Enum(servo_types),
     software_timestamp |-> Integer(0, 1),
     max_frequency |-> Integer(0, INT_MAX),
     step_threshold |-> Double(0, DBL_MAX),
     first_step_threshold |-> Double(0, DBL_MAX),
     servo_offset_threshold |-> Integer(0, INT_MAX),
     servo_num_offset_values |-> Integer(0, INT_MAX),
     pi_proportional_const |-> Double(0, DBL_MAX),
     pi_integral_const |-> Double(0, DBL_MAX),
     pi_proportional_scale |-> Double(0, DBL_MAX),
     pi_proportional_exponent |-> Double(DBL_MIN, DBL_MAX),
     pi_proportional_norm_max |-> Double(DBL_MIN, DBL_MAX),
     pi_integral_scale |-> Double(0, DBL_MAX),
     pi_integral_exponent |-> Double(DBL_MIN, DBL_MAX),
     pi_integral_norm_max |-> Double(DBL_MIN, 2000),
     ntp_shm_segment |-> Integer(INT_MIN, INT_MAX),
     logMinDelayReqInterval |-> Integer(-128, 127),
     logSyncInterval |-> Integer(-128, 127)]

device_tbl ==
    [tod_device |-> Str, freq_device |-> Str, monitor_uds_address |-> Str,
     poll_time |-> Integer(0, 255),
     tsproc_mode |-> Enum(tsproc_types),
     delay_filter |-> Enum(delay_filters),
     delay_filter_length |-> Integer(1, INT_MAX)]

Sections == {"logging", "servo", "device"}

Table(section) ==
    CASE section = "logging" -> logger_tbl
      [] section = "servo" -> servo_config_tbl
      [] section = "device" -> device_tbl

\* The values of the members that are smaller than an int: uint8_t, uint16_t
Width ==
    [logging_level |-> 256, use_syslog |-> 256, use_stdout |-> 256,
     software_timestamp |-> 256, poll_time |-> 65536]

\* The longest string of a member that is an array of characters
Chars ==
    [msg_tag |-> 15, tod_device |-> 31, freq_device |-> 31,
     monitor_uds_address |-> 31]

\* Fields that are accepted and stored nowhere
Dropped == {"logMinDelayReqInterval", "logSyncInterval"}

Members(section) == DOMAIN Table(section) \ Dropped
-----------------------------------------------------------------------------
\* A section cleared by memset()
Cleared(section) ==
    [f \in Members(section) |-> IF Table(section)[f] = Str THEN "" ELSE 0]

\* get_key_val(): enumerators count from 0
GetKeyVal(word, list) ==
    IF \E i \in DOMAIN list : list[i] = word
    THEN (CHOOSE i \in DOMAIN list : list[i] = word) - 1
    ELSE -1

\* What value_range_check() makes of the text
Converted(field, text) ==
    CASE field.var_type = "INTEGER" -> text.int
      [] field.var_type = "DOUBLE" -> text.num
      [] field.var_type = "ENUM" -> GetKeyVal(text.word, field.enum_list)
      [] field.var_type = "STRING" -> text.word

\* value_range_check(): no number is both below the minimum and above the
\* maximum, and -1 as a double is not (uint32_t)-1
OutOfRange(field, value) ==
    /\ field.var_type \in {"INTEGER", "DOUBLE"}
    /\ value < field.min /\ value > field.max

\* strncpy() to an array with room for n characters and the end
Cut(word, n) == IF Len(word) <= n THEN word ELSE SubSeq(word, 1, n)

\* The assignment to a member.  Numbers come as doubles: one that a narrow
\* member cannot hold leaves its low bits, as on x86-64, or, if it is negative,
\* 0, as on ARM; the conversion is undefined.  So is that of the -1 of an
\* unknown enumerator, whose type is unsigned: all bits set, which is written
\* as -1, or 0.
Assigned(name, field, value) ==
    CASE field.var_type = "STRING" -> {Cut(value, Chars[name])}
      [] field.var_type = "ENUM" -> IF value = -1 THEN {-1, 0} ELSE {value}
      [] field.var_type = "INTEGER" /\ name \in DOMAIN Width ->
             {value % Width[name]} \union (IF value < 0 THEN {0} ELSE {})
      [] OTHER -> {value}
=============================================================================
