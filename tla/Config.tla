-------------------------------- MODULE Config --------------------------------
(***************************************************************************)
(* How a server gets its configuration before it starts: the default       *)
(* config file, the options, the config file that option -c names, and the *)
(* peers on the command line.  Parsing is left out: an option or a line of *)
(* a config file sets a key, lists peers, names a file, or is malformed.   *)
(***************************************************************************)
EXTENDS Integers, SequencesExt

CONSTANTS
    CommandLines,  \* the command lines: [options, arguments], the peers last
    DefaultFile,   \* bbserv.conf
    Files,         \* Files[f]: the lines of config file f
    Defaults,      \* Defaults[k]: the value of key k if nobody sets it
    Unset,         \* the bbfile of a server that was given none
    PeerNames,     \* the peers that are host:port
    Malformed      \* a peer that is not

\* What an option, or a line of a config file, may be.  A flag is 0 or 1.
Sets(key, value) == [tag |-> "set", key |-> key, value |-> value]
Lists(names)     == [tag |-> "peers", key |-> "", value |-> names]
Names(f)         == [tag |-> "conf", key |-> "", value |-> f]
Usage            == [tag |-> "usage", key |-> "", value |-> 0]
Bad              == [tag |-> "bad", key |-> "", value |-> 0]

ASSUME FilesAssumption ==
    /\ DefaultFile \in DOMAIN Files
    /\ {"bbfile", "tmax", "daemon"} \subseteq DOMAIN Defaults

\* A line or an option.  Tmax is unsigned, whatever the text is.
IsEntry(x) ==
    /\ x.tag = "set" /\ x.key = "tmax" => x.value \in Nat
    /\ x.tag = "peers" => x.value \in Seq(PeerNames)

ASSUME EntriesAssumption ==
    /\ \A f \in DOMAIN Files :
           /\ Len(Files[f]) \in Nat
           /\ \A i \in 1..Len(Files[f]) : IsEntry(Files[f][i])
    /\ \A c \in CommandLines :
           /\ Len(c.options) \in Nat
           /\ \A i \in 1..Len(c.options) : IsEntry(c.options[i])
           /\ c.arguments \in Seq(PeerNames \cup {Malformed})
    /\ Defaults["tmax"] \in Nat

VARIABLES
    given,    \* the command line
    config,   \* the singleton: the keys and the peers
    file,     \* the config file that is read
    lineno,   \* its next line
    optind,   \* the next option, as getopt counts
    rescan,   \* a file was read for -c
    phase     \* where main() is

configVars == <<given, config, file, lineno, optind, rescan, phase>>

-----------------------------------------------------------------------------

ConfigInit ==
    /\ given \in CommandLines
    /\ config = [value |-> Defaults, peers |-> <<>>]
    /\ file = DefaultFile
    /\ lineno = 1
    /\ optind = 1
    /\ rescan = FALSE
    /\ phase = "reading"

\* A file that is missing has no lines.
Lines(f) == IF f \in DOMAIN Files THEN Files[f] ELSE <<>>

\* What a line that sets a key or lists peers, or an option, does.
Entered(entry) ==
    IF entry.tag = "set"
    THEN [config EXCEPT !.value[entry.key] = entry.value]
    ELSE [config EXCEPT !.peers = @ \o entry.value]

\* read_config_line: nobody catches what a line that cannot be parsed throws.
ReadLine ==
    /\ phase = "reading"
    /\ lineno <= Len(Lines(file))
    /\ LET line == Lines(file)[lineno]
       IN  IF line.tag \in {"set", "peers"}
           THEN config' = Entered(line) /\ UNCHANGED phase
           ELSE phase' = "terminated" /\ UNCHANGED config
    /\ lineno' = lineno + 1
    /\ UNCHANGED <<given, file, optind, rescan>>

\* main() reads the default file before it looks at the options.
EndOfFile ==
    /\ phase = "reading"
    /\ lineno > Len(Lines(file))
    /\ phase' = "options"
    /\ UNCHANGED <<given, config, file, lineno, optind, rescan>>

Option == given.options[optind]

\* getopt is at an option with one of these tags.
AtOption(tags) ==
    /\ phase = "options"
    /\ optind <= Len(given.options)
    /\ Option.tag \in tags

\* The options -b, -T, -p, -s, -f, -d and -q; -h and an unknown one end.
TakeOption ==
    /\ AtOption({"set", "usage"})
    /\ config' = IF Option.tag = "set" THEN Entered(Option) ELSE config
    /\ phase' = IF Option.tag = "usage" THEN "exited" ELSE phase
    /\ optind' = optind + 1
    /\ UNCHANGED <<given, file, lineno, rescan>>

\* read_config() for option -c.
Opens(f) == file' = f /\ lineno' = 1 /\ phase' = "reading"

\* Deviation: the options are not scanned again.
TakeConfOnce ==
    /\ AtOption({"conf"})
    /\ IF rescan THEN UNCHANGED <<file, lineno, phase>> ELSE Opens(Option.value)
    /\ optind' = optind + 1
    /\ rescan' = TRUE
    /\ UNCHANGED <<given, config>>

\* Deviation: every -c has the options scanned again.
TakeConfAlways ==
    /\ AtOption({"conf"})
    /\ IF rescan THEN UNCHANGED <<file, lineno, phase>> ELSE Opens(Option.value)
    /\ optind' = 1
    /\ rescan' = TRUE
    /\ UNCHANGED <<given, config>>

\* Deviation: every -c is read.
TakeConfEach ==
    /\ AtOption({"conf"})
    /\ Opens(Option.value)
    /\ optind' = IF rescan THEN optind + 1 ELSE 1
    /\ rescan' = TRUE
    /\ UNCHANGED <<given, config>>

\* -c reads its file and has all options scanned again, once; after that
\* it is ignored.
TakeConf ==
    /\ AtOption({"conf"})
    /\ IF rescan
       THEN optind' = optind + 1 /\ UNCHANGED <<file, lineno, phase>>
       ELSE optind' = 1 /\ Opens(Option.value)
    /\ rescan' = TRUE
    /\ UNCHANGED <<given, config>>

\* Without a bbfile the program ends.
CheckBbfile ==
    /\ phase = "options"
    /\ optind > Len(given.options)
    /\ phase' = IF config.value["bbfile"] = Unset THEN "exited" ELSE "arguments"
    /\ optind' = 1
    /\ UNCHANGED <<given, config, file, lineno, rescan>>

\* The arguments are peers.  A malformed one throws into main()'s catch
\* block, and the server is never configured.
AddPeer ==
    /\ phase = "arguments"
    /\ optind <= Len(given.arguments)
    /\ IF given.arguments[optind] = Malformed
       THEN phase' = "unconfigured" /\ UNCHANGED <<config, optind>>
       ELSE /\ config' = [config EXCEPT !.peers = Append(@, given.arguments[optind])]
            /\ optind' = optind + 1
            /\ UNCHANGED phase
    /\ UNCHANGED <<given, file, lineno, rescan>>

AllPeers ==
    /\ phase = "arguments"
    /\ optind > Len(given.arguments)
    /\ phase' = "configured"
    /\ UNCHANGED <<given, config, file, lineno, optind, rescan>>

ConfigNext ==
    \/ ReadLine \/ EndOfFile
    \/ TakeOption \/ TakeConf \/ CheckBbfile \/ AddPeer \/ AllPeers

-----------------------------------------------------------------------------
(* Properties. *)

\* Whether an option, or a line, sets a key.
SetsKey(entry, key) == entry.tag = "set" /\ entry.key = key

\* The last value that a sequence of options or lines gives to a key.
LastSet(s, key, default) ==
    LET last == SelectLastInSeq(s, LAMBDA x : SetsKey(x, key))
    IN  IF last = 0 THEN default ELSE s[last].value

\* The lines that count beside those of the default file: of the first -c.
NamedLines ==
    LET first == SelectInSeq(given.options, LAMBDA x : x.tag = "conf")
    IN  IF first = 0 THEN <<>> ELSE Lines(given.options[first].value)

\* "-b overrides (or sets) the file name bbfile", "-T overrides THMAX" and so
\* on: an option wins over the config files wherever it stands, before -c or
\* after it, the first -c's file over the default one, and the last of
\* several equal options over the others.
Precedence ==
    phase \in {"arguments", "configured"} =>
        \A key \in DOMAIN Defaults :
            config.value[key] =
                LastSet(given.options, key,
                    LastSet(NamedLines, key,
                        LastSet(Lines(DefaultFile), key, Defaults[key])))

\* The peers that the first n of some lines list.
PeersOf(s) ==
    LET listed[n \in 0..Len(s)] ==
            IF n = 0 THEN <<>>
            ELSE listed[n - 1] \o (IF s[n].tag = "peers" THEN s[n].value ELSE <<>>)
    IN  listed

AllPeersOf(s) == PeersOf(s)[Len(s)]

\* The peers, each as often as the default file, the first -c's file and the
\* arguments name it: one that is named twice is sent every broadcast twice.
PeersListed ==
    phase = "configured" =>
        config.peers =
            AllPeersOf(Lines(DefaultFile)) \o AllPeersOf(NamedLines) \o given.arguments

\* The scan of the options ends, whatever -c and its repetitions do to it.
ConfigurationEnds == <>(phase \notin {"reading", "options", "arguments"})

=============================================================================
