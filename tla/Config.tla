------------------------------- MODULE Config -------------------------------
(***************************************************************************)
(* How config.c reads its file: an automaton over the scanner's tokens.    *)
(* A section is collected in a union that is cleared at its start and      *)
(* copied to the part of the program it configures at its end.             *)
(*                                                                         *)
(* START_LOGGER_BLOCK, START_SERVO_BLOCK and START_DEVICE_BLOCK are the    *)
(* sections themselves; block_id is 1 in them and 0 elsewhere.             *)
(***************************************************************************)
EXTENDS ConfigTables, Yaml

VARIABLES
    state, data_key, pending,  \* of struct servo_parser_data; pending: its union
    top_key,                   \* static key of parser_block_management()
    key, value,                \* statics of update_block_config()
    config,                    \* logger_config, servo_config and device_config
    log_fp,                    \* the log file is open
    plain,                     \* history: the file has nothing but sections
    written                    \* history: the texts its sections give

parserVars == <<state, data_key, pending, top_key, key, value>>
configVars == <<parserVars, config, yamlVars, plain, written>>

Nothing == [none \in {} |-> 0]

\* The static initializers of logger.c and main.c
InitialConfig ==
    [section \in Sections |->
        IF section = "logging"
        THEN [logging_level |-> 7, use_syslog |-> 1, msg_tag |-> "servo",
              use_stdout |-> 1]
        ELSE Cleared(section)]

ConfigInit ==
    /\ YamlInit
    /\ state = "START_PARSE" /\ data_key = "" /\ pending = Nothing
    /\ top_key = FALSE /\ key = FALSE /\ value = FALSE
    /\ config = InitialConfig
    /\ plain = TRUE /\ written = Nothing

\* sys_log_init()
SysLogInit ==
    /\ log_fp' \in BOOLEAN
    /\ config' = IF log_fp' THEN config
                 ELSE [config EXCEPT !["logging"].use_syslog = 0]
-----------------------------------------------------------------------------
\* update_logger_config(), update_servo_config() and update_device_config():
\* an unknown field, or a value that is refused, ends the parse
Update(section, name, text) ==
    LET field == Table(section)[name]
        val   == Converted(field, text)
    IN  IF name \notin DOMAIN Table(section) \/ OutOfRange(field, val)
        THEN state' = "failed" /\ UNCHANGED pending
        ELSE /\ UNCHANGED state
             /\ \E v \in Assigned(name, field, val) :
                    pending' = [f \in DOMAIN pending |->
                                   IF f = name THEN v ELSE pending[f]]

\* Mutant: a log file that is not open is used
ServoUpdateConfigTrusting == config' = [config EXCEPT ![state] = pending]

\* servo_update_config(): logger_configure() looks at the log file
ServoUpdateConfig ==
    config' = [config EXCEPT ![state] =
                  IF state = "logging" /\ ~log_fp
                  THEN [pending EXCEPT !.use_syslog = 0] ELSE pending]

\* Mutant: the section is not left
SectionEndsNot ==
    /\ ServoUpdateConfig
    /\ UNCHANGED parserVars

\* The end of a block ends the section, whichever block it is
SectionEnds ==
    /\ ServoUpdateConfig
    /\ state' = "START_BLOCK"
    /\ UNCHANGED <<data_key, pending, top_key, key, value>>

\* A scalar within a section: a field, or the value of the last one
SectionScalar ==
    /\ data_key' = IF key THEN token'.text.word ELSE data_key
    /\ IF ~key /\ value THEN Update(state, data_key, token'.text)
       ELSE UNCHANGED <<state, pending>>

\* update_block_config(): in a section
UpdateBlockConfig ==
    \/ /\ token'.type = "KEY"
       /\ key' = TRUE
       /\ UNCHANGED <<state, data_key, pending, top_key, value, config>>
    \/ /\ token'.type = "VALUE"
       /\ key' = FALSE /\ value' = (key \/ value)
       /\ UNCHANGED <<state, data_key, pending, top_key, config>>
    \/ /\ token'.type = "BLOCK_MAPPING_START"
       /\ key' = FALSE /\ value' = FALSE
       /\ UNCHANGED <<state, data_key, pending, top_key, config>>
    \/ /\ token'.type = "SCALAR"
       /\ SectionScalar
       /\ UNCHANGED <<top_key, key, value, config>>
    \/ /\ token'.type = "BLOCK_END"
       /\ SectionEnds
    \/ /\ token'.type \notin {"KEY", "VALUE", "BLOCK_MAPPING_START", "SCALAR",
                              "BLOCK_END"}
       /\ UNCHANGED <<parserVars, config>>

\* Mutant: the values of the section before remain
OpenSectionKeepsUnion ==
    /\ pending' = IF DOMAIN pending = Members(data_key) THEN pending
                  ELSE Cleared(data_key)
    /\ state' = data_key

\* A mapping opens the section whose name the last key is
OpenSection ==
    /\ pending' = Cleared(data_key)
    /\ state' = data_key

\* parser_block_management(): between the sections
ParserBlockManagement ==
    \/ /\ token'.type = "KEY"
       /\ top_key' = TRUE
       /\ UNCHANGED <<state, data_key, pending>>
    \/ /\ token'.type = "BLOCK_MAPPING_START" /\ data_key \in Sections
       /\ OpenSection
       /\ UNCHANGED <<data_key, top_key>>
    \/ /\ token'.type = "SCALAR" /\ top_key
       /\ data_key' = token'.text.word /\ top_key' = FALSE
       /\ UNCHANGED <<state, pending>>
    \/ /\ token'.type = "STREAM_END"
       /\ state' = "STOP_PARSE"
       /\ UNCHANGED <<data_key, pending, top_key>>
    \/ /\ \/ token'.type \notin {"KEY", "BLOCK_MAPPING_START", "SCALAR",
                                 "STREAM_END"}
          \/ token'.type = "BLOCK_MAPPING_START" /\ data_key \notin Sections
          \/ token'.type = "SCALAR" /\ ~top_key
       /\ UNCHANGED <<state, data_key, pending, top_key>>

\* The first mapping of the file
StartParse ==
    /\ state' = IF token'.type = "BLOCK_MAPPING_START" THEN "START_BLOCK"
                ELSE state
    /\ UNCHANGED <<data_key, pending, top_key>>

\* servo_config_parser()
ServoConfigParser ==
    \/ state = "START_PARSE" /\ StartParse /\ UNCHANGED <<key, value, config>>
    \/ /\ state = "START_BLOCK" /\ ParserBlockManagement
       /\ UNCHANGED <<key, value, config>>
    \/ state \in Sections /\ UpdateBlockConfig

\* History: what a reader takes the file to say.  A section is a mapping below
\* one of the keys of the file; one that is repeated replaces the one before.
BelowFileKey == Len(open) = 2 /\ Inner.coll = "mapping"

Note ==
    LET opens == token'.type \in {"BLOCK_MAPPING_START", "BLOCK_SEQUENCE_START"}
        maps  == token'.type = "BLOCK_MAPPING_START"
        gives == /\ token'.type = "SCALAR" /\ Inner.at = "node"
                 /\ Len(open) = 3 /\ open[2].name \in DOMAIN written
        Added(f, n, v) ==
            [m \in DOMAIN f \union {n} |-> IF m = n THEN v ELSE f[m]]
    IN  /\ plain' = (plain /\ (opens => maps /\ (Len(open) = 1 \/ BelowFileKey)))
        /\ written' =
               IF maps /\ BelowFileKey /\ Inner.name \in Sections
               THEN Added(written, Inner.name, Nothing)
               ELSE IF gives
               THEN Added(written, open[2].name,
                          Added(written[open[2].name], Inner.name, token'.text))
               ELSE written

\* servo_config_parse(): one round of its loop.  After STREAM_END in
\* START_PARSE the loop goes on for ever.
Parse ==
    /\ state \notin {"STOP_PARSE", "failed"}
    /\ Scan /\ ServoConfigParser /\ Note

\* The file cannot be opened, or is no YAML from some point on
ParseError ==
    /\ state \notin {"STOP_PARSE", "failed"} /\ Inner.at # "over"
    /\ state' = "failed"
    /\ UNCHANGED <<data_key, pending, top_key, key, value, config, yamlVars,
                   plain, written>>
-----------------------------------------------------------------------------
(* The domain of the parser's state; a section is collected in its members. *)
ConfigTypeOK ==
    /\ state \in Sections \union {"START_PARSE", "START_BLOCK", "STOP_PARSE",
                                  "failed"}
    /\ state \in Sections => DOMAIN pending = Members(state)
    /\ \A section \in Sections : DOMAIN config[section] = Members(section)
    /\ {top_key, key, value, log_fp, plain} \subseteq BOOLEAN

(***************************************************************************)
(* What a file that consists of sections says is what the program gets:    *)
(* the values of the last section of a name and zeros for all others, no   *)
(* value under the key of another, none of a section before; a field that  *)
(* does not exist is not passed over.  A value is what its text says if    *)
(* the member can hold it.  No check refuses one that does not fit: 256 is *)
(* stored as 0 in a uint8_t, 2.9 as 2 in an int, an unknown enumerator as  *)
(* one that may exist, a path without what is beyond its 31 characters.    *)
(***************************************************************************)
Fits(name, field, text) ==
    /\ field.var_type = "INTEGER" => 1000 * text.int = text.num
    /\ name \in DOMAIN Width => text.int \in 0 .. Width[name] - 1
    /\ field.var_type = "ENUM" =>
           \E i \in DOMAIN field.enum_list : field.enum_list[i] = text.word
    /\ field.var_type = "STRING" => Len(text.word) <= Chars[name]

Says(field, text, v) ==
    /\ field.var_type = "INTEGER" => 1000 * v = text.num
    /\ field.var_type = "DOUBLE" => v = text.num
    /\ field.var_type = "ENUM" =>
           v + 1 \in DOMAIN field.enum_list /\ field.enum_list[v + 1] = text.word
    /\ field.var_type = "STRING" => v = text.word

RunsAs(section, name, v) ==
    IF section = "logging" /\ name = "use_syslog" /\ ~log_fp THEN v = 0
    ELSE IF section \notin DOMAIN written THEN v = InitialConfig[section][name]
    ELSE IF name \notin DOMAIN written[section] THEN v = Cleared(section)[name]
    ELSE LET field == Table(section)[name]
             text  == written[section][name]
         IN  Fits(name, field, text) => Says(field, text, v)

RunsAsWritten ==
    plain /\ state = "STOP_PARSE" =>
        /\ \A s \in DOMAIN written : DOMAIN written[s] \subseteq DOMAIN Table(s)
        /\ \A s \in Sections : \A f \in Members(s) : RunsAs(s, f, config[s][f])
=============================================================================
