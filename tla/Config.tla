------------------------------- MODULE Config -------------------------------
(***************************************************************************)
(* main up to uv_run: the settings in SERVER_CONFIG, from the options of   *)
(* the command line (one action per option, in the order they are given)   *)
(* or from the two prompts of the program when it has no argument (one     *)
(* action per line typed).                                                 *)
(*                                                                         *)
(* A DNS argument is the sequence of what stands between its commas.  A    *)
(* number is what atoi makes of it; text that is no number is 0.           *)
(***************************************************************************)
EXTENDS Integers, Sequences, ServerLog

CONSTANTS
    Ports,        \* the port numbers given
    Widths,       \* prompts: how many characters wide a port is typed
    Timeouts,     \* the numbers given as a timeout, in seconds
    TimeoutForms, \* how: "-t" or "--timeout"
    DnsArgs,      \* the DNS arguments given
    IntMax,       \* INT_MAX
    MaxInputs     \* bound: options, or lines typed

ASSUME FormsAssumption == TimeoutForms \subseteq {"-t", "--timeout"}
ASSUME BoundsAssumption == IntMax \in Nat /\ MaxInputs \in Nat
ASSUME WidthsAssumption == Widths \subseteq 5..10
ASSUME NumbersAssumption == Ports \subseteq Int /\ Timeouts \subseteq Int
ASSUME DnsArgsAssumption == DnsArgs \subseteq Seq(STRING) \ {<<>>}

VARIABLES
    config,  \* SERVER_CONFIG
    phase,   \* where main is
    rest,    \* prompts: what stdin still holds of a line too long to read, as a
             \* sequence of at most one line; a line is the sequence of its digits
    asked,   \* the settings the user asked for, the default where none, how,
             \* and whether a line was cut in two
    told,    \* where the last message of main went
    inputs   \* options or lines so far

configVars == <<config, phase, rest, asked, told, inputs>>

(* serving: in uv_run; taken: another program has the port; refused: exit  *)
(* code 1 after an option that is wrong; left: help, or an option that is  *)
(* not known; faulting: in the handler of SIGSEGV.                         *)
Phases == {"options", "port", "dns", "parsed", "serving", "taken", "refused", "left", "faulting"}

NoDns == <<"NULL", "NULL">>

(* Addresses is_ip takes (inet_pton, either family). *)
is_ip(a) == a \in {"v4", "other_v4", "v6"}

(* What uv_ip4_addr takes: send_dns_query and ConnectTargetServer. *)
is_ip4(a) == a \in {"v4", "other_v4"}

DefaultConfig ==
    [port |-> 1503, dns |-> NoDns, timeOut |-> 30000, noLog |-> FALSE, logFile |-> FALSE]

ConfigInit ==
    /\ config = DefaultConfig
    /\ phase \in {"options", "port"}
    /\ asked = [port |-> 1503, dns |-> NoDns, timeOut |-> 30000,
                by |-> IF phase = "options" THEN "options" ELSE "prompts", cut |-> FALSE]
    /\ rest = <<>>
    /\ told = {}
    /\ inputs = 0

-----------------------------------------------------------------------------
Say(type) == told' = put_log(config, type)

Settle(cfg) == config' = cfg /\ UNCHANGED <<phase, told>>

Refuse == phase' = "refused" /\ Say("LOG_ERROR") /\ UNCHANGED config

(* int arithmetic, as it wraps when it overflows. *)
Wrapped(n) == ((n + IntMax + 1) % (2 * IntMax + 2)) - IntMax - 1

(* parse_dns: a single address leaves dns_2 as it was. *)
parse_dns(dns, arg) == IF Len(arg) = 1 THEN <<arg[1], dns[2]>> ELSE <<arg[1], arg[2]>>

(* Mutation of ValidDns: the second address is taken as it is. *)
ValidDns_first(dns) == is_ip(dns[1])

ValidDns(dns) == is_ip(dns[1]) /\ (dns[2] # "NULL" => is_ip(dns[2]))

(* What the user means by the argument. *)
AskedDns(arg) == IF Len(arg) = 1 THEN <<arg[1], "NULL">> ELSE <<arg[1], arg[2]>>

ValidPort(p) == p >= 1 /\ p =< 65535

-----------------------------------------------------------------------------
(* Options *)

Option == phase = "options" /\ inputs < MaxInputs /\ inputs' = inputs + 1 /\ UNCHANGED rest

OptionPort ==
    /\ Option
    /\ \E p \in Ports :
          /\ asked' = [asked EXCEPT !.port = p]
          /\ IF ValidPort(p) THEN Settle([config EXCEPT !.port = p]) ELSE Refuse

(* The long form has no argument, so optarg is NULL. *)
OptionTimeout ==
    /\ Option
    /\ \E form \in TimeoutForms, t \in Timeouts :
          /\ asked' = [asked EXCEPT !.timeOut = 1000 * t]
          /\ CASE form = "--timeout" -> phase' = "faulting" /\ Say("LOG_ERROR") /\ UNCHANGED config
               [] form = "-t" /\ t < 0 -> Refuse
               [] OTHER -> Settle([config EXCEPT !.timeOut = Wrapped(1000 * t)])

(* The addresses are stored before they are looked at. *)
OptionDns ==
    /\ Option
    /\ \E arg \in DnsArgs :
          LET dns == parse_dns(config.dns, arg)
          IN  /\ asked' = [asked EXCEPT !.dns = AskedDns(arg)]
              /\ IF ValidDns(dns)
                 THEN Settle([config EXCEPT !.dns = dns])
                 ELSE phase' = "refused" /\ Say("LOG_ERROR") /\ config' = [config EXCEPT !.dns = dns]

OptionNoLog == Option /\ Settle([config EXCEPT !.noLog = TRUE]) /\ UNCHANGED asked

(* A file that cannot be opened takes the place of one that was. *)
OptionLogFile ==
    /\ Option
    /\ UNCHANGED asked
    /\ \/ Settle([config EXCEPT !.logFile = TRUE])
       \/ /\ config' = [config EXCEPT !.logFile = FALSE]
          /\ phase' = "refused"
          /\ told' = put_log(config', "LOG_ERROR")

(* --help prints; an option getopt_long does not know is logged. *)
OptionOther ==
    /\ Option
    /\ phase' = "left"
    /\ told' \in {{"screen"}, put_log(config, "LOG_INFO")}
    /\ UNCHANGED <<config, asked>>

OptionsEnd == phase = "options" /\ phase' = "parsed" /\ UNCHANGED <<config, rest, asked, told, inputs>>

-----------------------------------------------------------------------------
(* Prompts.  A port is typed flush right in a field of some width, the rest *)
(* of which are spaces or zeros.                                            *)

Typed == inputs < MaxInputs /\ inputs' = inputs + 1

(* Mutation of Kept: the last character goes whether it ends the line or not. *)
Kept_short(p, width) == {p \div 10}

(* What atoi makes of it.  Nine characters fit in port[10]: of a line of up *)
(* to eight they are all but the '\n', which is dropped; of a longer one    *)
(* the last character read is dropped.  If only spaces stay, that is Enter. *)
Kept(p, width) ==
    LET n == p \div (CASE width <= 8 -> 1 [] width = 9 -> 10 [] width = 10 -> 100)
    IN  IF n = 0 /\ width > 8 THEN {0, 1503} ELSE {n}

Rest(p, width) ==
    CASE width <= 8 -> <<>> [] width = 9 -> << <<>> >> [] width = 10 -> << <<p % 10>> >>

PortEntered(p) ==
    /\ told' = {"screen"}
    /\ config' = [config EXCEPT !.port = p]
    /\ phase' = (IF ValidPort(p) THEN "dns" ELSE "port")

PortEnter ==
    /\ phase = "port"
    /\ rest = <<>>
    /\ Typed
    /\ PortEntered(1503)
    /\ asked' = [asked EXCEPT !.port = 1503]
    /\ UNCHANGED rest

PortLine ==
    /\ phase = "port"
    /\ rest = <<>>
    /\ Typed
    /\ \E p \in Ports, width \in Widths :
          /\ \E n \in Kept(p, width) : PortEntered(n)
          /\ rest' = Rest(p, width)
          /\ asked' = [asked EXCEPT !.port = p, !.cut = @ \/ width > 8]

(* The prompt comes again and reads what is left of the line before it. *)
PortRest ==
    /\ phase = "port"
    /\ rest # <<>>
    /\ PortEntered(IF rest[1] = <<>> THEN 1503 ELSE rest[1][1])
    /\ rest' = <<>>
    /\ UNCHANGED <<asked, inputs>>

(* What is typed is stored before it is looked at, and stays. *)
DnsEntered(arg) ==
    LET dns == parse_dns(config.dns, arg)
    IN  /\ told' = {"screen"}
        /\ config' = [config EXCEPT !.dns = dns]
        /\ phase' = (IF ValidDns(dns) THEN "parsed" ELSE "dns")

DnsEnter ==
    /\ phase = "dns"
    /\ rest = <<>>
    /\ Typed
    /\ phase' = "parsed"
    /\ asked' = [asked EXCEPT !.dns = NoDns]
    /\ UNCHANGED <<config, rest, told>>

DnsLine ==
    /\ phase = "dns"
    /\ rest = <<>>
    /\ Typed
    /\ \E arg \in DnsArgs : DnsEntered(arg) /\ asked' = [asked EXCEPT !.dns = AskedDns(arg)]
    /\ UNCHANGED rest

(* A lone digit is no address. *)
DnsRest ==
    /\ phase = "dns"
    /\ rest # <<>>
    /\ IF rest[1] = <<>>
       THEN phase' = "parsed" /\ UNCHANGED <<config, told>>
       ELSE DnsEntered(<<"text">>)
    /\ rest' = <<>>
    /\ UNCHANGED <<asked, inputs>>

-----------------------------------------------------------------------------
(* Mutation of Listen: the error is logged like any other. *)
Listen_unforced ==
    /\ phase = "parsed"
    /\ \/ phase' = "serving" /\ Say("LOG_INFO_FORCE")
       \/ phase' = "taken" /\ Say("LOG_ERROR")
    /\ UNCHANGED <<config, rest, asked, inputs>>

(* uv_listen finds the port taken or free. *)
Listen ==
    /\ phase = "parsed"
    /\ \/ phase' = "serving" /\ Say("LOG_INFO_FORCE")
       \/ phase' = "taken" /\ Say("LOG_ERROR_FORCE")
    /\ UNCHANGED <<config, rest, asked, inputs>>

(* handle_segfault returns to the instruction that faulted. *)
handle_segfault ==
    /\ phase = "faulting"
    /\ Say("LOG_ERROR")
    /\ UNCHANGED <<config, phase, rest, asked, inputs>>

ConfigNext ==
    \/ OptionPort \/ OptionTimeout \/ OptionDns
    \/ OptionNoLog \/ OptionLogFile \/ OptionOther \/ OptionsEnd
    \/ PortEnter \/ PortLine \/ PortRest
    \/ DnsEnter \/ DnsLine \/ DnsRest
    \/ Listen \/ handle_segfault

ConfigSpec == ConfigInit /\ [][ConfigNext]_configVars

-----------------------------------------------------------------------------
(* The largest port a socket can have. *)
MaxPort == 65535

(* The servers were asked for by an option or by the last line typed, and  *)
(* are not the default that Enter stands for.                              *)
DnsAsked == asked.by = "options" \/ asked.dns # NoDns

(* A server that serves has a port a socket can have and, where DNS        *)
(* servers were asked for, addresses that passed is_ip, whatever was given *)
(* before and replaced (Main.c:325, Main.c:345, Main.c:356).               *)
ServesOnlyValid ==
    phase = "serving" =>
        /\ config.port \in 1..MaxPort
        /\ DnsAsked /\ config.dns # NoDns =>
              /\ is_ip(config.dns[1])
              /\ config.dns[2] = "NULL" \/ is_ip(config.dns[2])

(* That it serves or that its port is taken, main writes to the screen     *)
(* even with --nolog (Main.c:398, Main.c:402).  An option that is refused  *)
(* is told on the screen exactly without --nolog; the log file, if there   *)
(* is one, gets every one of these.  Whoever asks for help or gives an     *)
(* option that is not known is told something unless --nolog keeps it from *)
(* the screen.  Nothing is said of the fault (NeverFaults).                *)
OutcomeTold ==
    /\ phase \in {"serving", "taken"} => "screen" \in told
    /\ phase = "refused" => ("screen" \in told <=> ~config.noLog)
    /\ phase \in {"serving", "taken", "refused"} /\ config.logFile => "file" \in told
    /\ phase = "left" =>
          "screen" \in told \/ (config.noLog /\ (config.logFile => "file" \in told))

(* What is served is what was asked for last, whatever was given before or *)
(* after: each setting is the last option or line of its kind              *)
(* (Main.c:289-334, Main.c:340).  There are four exceptions: a port line   *)
(* that was cut in two (PortAsAsked), a timeout too long for an int in     *)
(* milliseconds (TimeoutAsAsked), the second DNS server when the last      *)
(* argument names one only, and Enter after an address that was refused    *)
(* (DnsAsAsked, both).                                                     *)
ServedAsAsked ==
    phase = "serving" =>
        /\ ~asked.cut => config.port = asked.port
        /\ asked.timeOut <= IntMax => config.timeOut = asked.timeOut
        /\ DnsAsked =>
              /\ config.dns[1] = asked.dns[1]
              /\ asked.dns[2] # "NULL" => config.dns[2] = asked.dns[2]

-----------------------------------------------------------------------------
(* What the code does not keep to.  No run checks these; README.md names   *)
(* the instance that refutes each.                                         *)

(* Both forms of an option do the same (Global.c:19, help.txt:6). *)
NeverFaults == phase # "faulting"

(* The port is the one that was typed last (Main.c:285-302).               *)
PortAsAsked == phase = "serving" => config.port = asked.port

(* The timeout of the connections is the number of seconds asked for       *)
(* (Main.c:367).                                                           *)
TimeoutAsAsked == phase = "serving" => config.timeOut = asked.timeOut

(* The DNS servers are those asked for last, the default after Enter       *)
(* (Main.c:323).                                                           *)
DnsAsAsked == phase = "serving" => config.dns = asked.dns

(* A DNS server that was accepted is one send_dns_query can send to.       *)
DnsUsable ==
    phase = "serving" => \A i \in 1..2 : config.dns[i] = "NULL" \/ is_ip4(config.dns[i])
=============================================================================
