---------------------------- MODULE ConfigProofs ----------------------------
(***************************************************************************)
(* What is true of the settings main serves with, whatever options are     *)
(* given and whatever lines are typed, in any number and order.            *)
(***************************************************************************)
EXTENDS Config, TLAPS, SequenceTheorems

(* The two literals are strings, but the provers do not know it. *)
Texts   == STRING \cup {"NULL", "text"}
Servers == Texts \X Texts

Settings == [port : Int, dns : Servers, timeOut : Int, noLog : BOOLEAN, logFile : BOOLEAN]
Wishes   == [port : Int, dns : Servers, timeOut : Int, by : {"options", "prompts"}, cut : BOOLEAN]

ConfigTypeOK ==
    /\ config \in Settings
    /\ phase \in Phases
    /\ rest \in {<<>>, << <<>> >>} \cup {<< <<digit>> >> : digit \in 0..9}
    /\ asked \in Wishes
    /\ told \subseteq {"screen", "file"}
    /\ inputs \in Nat

(* Where main can be when it took its settings from the options, and that  *)
(* no server was asked for at the prompts while a port line is read.       *)
ByOptions ==
    /\ phase = "options" => asked.by = "options"
    /\ phase \in {"port", "dns"} => asked.by = "prompts"
    /\ asked.by = "options" => rest = <<>>
    /\ phase = "port" \/ rest # <<>> => asked.dns = NoDns

(* An option that does not pass ends main, a line that does not pass keeps *)
(* it at its prompt: past either, the port and the addresses are valid.    *)
Valid ==
    /\ phase \notin {"port", "refused"} => ValidPort(config.port)
    /\ asked.by = "options" /\ phase # "refused" =>
          config.dns = NoDns \/ ValidDns(config.dns)
    /\ asked.by = "prompts" /\ phase # "dns" /\ asked.dns # NoDns => ValidDns(config.dns)

(* What is stored is what was asked for last, from one option or line to   *)
(* the next.  A line still on stdin was cut in two.                        *)
Kept_asked ==
    /\ rest # <<>> => asked.cut
    /\ phase # "refused" /\ ~asked.cut => config.port = asked.port
    /\ phase \notin {"refused", "faulting"} /\ asked.timeOut <= IntMax =>
          config.timeOut = asked.timeOut
    /\ DnsAsked =>
          /\ config.dns[1] = asked.dns[1]
          /\ asked.dns[2] # "NULL" => config.dns[2] = asked.dns[2]

ConfigInv == ConfigTypeOK /\ ByOptions /\ Valid /\ Kept_asked /\ OutcomeTold

-----------------------------------------------------------------------------
(* A number of milliseconds that fits in an int is stored as it is. *)
LEMMA WrappedFits ==
    ASSUME NEW n \in Nat, n <= IntMax
    PROVE  Wrapped(n) = n
<1> DEFINE m == 2 * IntMax + 2
           k == n + IntMax + 1
<1>1. IntMax \in Nat
  BY BoundsAssumption
<1>2. m \in Nat /\ m > 0 /\ k \in Nat /\ k < m
  BY <1>1
<1>3. k % m = k
  <2> HIDE DEF m, k
  <2> QED
    BY <1>2
<1> QED
  BY <1>1, <1>3 DEF Wrapped

LEMMA WrappedInt ==
    ASSUME NEW n \in Int
    PROVE  Wrapped(n) \in Int
<1> DEFINE m == 2 * IntMax + 2
           k == n + IntMax + 1
<1>1. IntMax \in Nat
  BY BoundsAssumption
<1>2. m \in Nat /\ m > 0 /\ k \in Int
  BY <1>1
<1>3. k % m \in Int
  <2> HIDE DEF m, k
  <2> QED
    BY <1>2
<1> QED
  BY <1>1, <1>3 DEF Wrapped

(* Addresses are stored as they were given, and the first is always new. *)
LEMMA Parsed ==
    ASSUME NEW dns \in Servers, NEW arg \in DnsArgs \cup {<<"text">>}
    PROVE  /\ parse_dns(dns, arg) \in Servers
           /\ AskedDns(arg) \in Servers
           /\ parse_dns(dns, arg)[1] = AskedDns(arg)[1]
           /\ AskedDns(arg)[2] # "NULL" => parse_dns(dns, arg)[2] = AskedDns(arg)[2]
<1>1. arg \in Seq(Texts) /\ arg # <<>>
  <2>1. CASE arg \in DnsArgs
    <3>1. arg \in Seq(STRING) /\ arg # <<>>
      BY <2>1, DnsArgsAssumption
    <3> QED
      BY <3>1 DEF Texts
  <2>2. CASE arg = <<"text">>
    BY <2>2 DEF Texts
  <2> QED
    BY <2>1, <2>2
<1>2. arg[1] \in Texts /\ (Len(arg) # 1 => arg[2] \in Texts)
  <2>1. Len(arg) \in Nat \ {0}
    BY <1>1, EmptySeq
  <2>2. \A n \in Nat \ {0} : n >= 1 /\ (n # 1 => n >= 2)
    OBVIOUS
  <2>3. Len(arg) >= 1 /\ (Len(arg) # 1 => Len(arg) >= 2)
    BY <2>1, <2>2, Zenon
  <2> QED
    BY <1>1, <2>1, <2>3
<1>3. dns[1] \in Texts /\ dns[2] \in Texts /\ "NULL" \in Texts
  BY DEF Servers, Texts
<1>4. CASE Len(arg) = 1
  <2>1. parse_dns(dns, arg) = <<arg[1], dns[2]>> /\ AskedDns(arg) = <<arg[1], "NULL">>
    BY <1>4 DEF parse_dns, AskedDns
  <2> QED
    BY <1>2, <1>3, <2>1 DEF Servers
<1>5. CASE Len(arg) # 1
  <2>1. parse_dns(dns, arg) = <<arg[1], arg[2]>> /\ AskedDns(arg) = <<arg[1], arg[2]>>
    BY <1>5 DEF parse_dns, AskedDns
  <2> QED
    BY <1>2, <1>5, <2>1 DEF Servers
<1> QED
  BY <1>4, <1>5

(* A message that is not forced is on the screen but for --nolog, a forced *)
(* one always is; the log file gets both.                                  *)
LEMMA Told ==
    ASSUME NEW cfg, NEW type
    PROVE  /\ put_log(cfg, type) \subseteq {"screen", "file"}
           /\ "screen" \in put_log(cfg, type) <=> ~cfg.noLog \/ type \in Forced
           /\ cfg.logFile => "file" \in put_log(cfg, type)
BY DEF put_log, is_log_true, OnScreen

(* What a typed port becomes: a line of up to eight characters is read     *)
(* whole.                                                                  *)
LEMMA KeptPort ==
    ASSUME NEW p \in Int, NEW width \in Widths
    PROVE  /\ Kept(p, width) \subseteq Int
           /\ width <= 8 => Kept(p, width) = {p} /\ Rest(p, width) = <<>>
           /\ Rest(p, width) \in {<<>>, << <<>> >>} \cup {<< <<digit>> >> : digit \in 0..9}
<1>1. width \in 5..10
  BY WidthsAssumption
<1>2. p % 10 \in 0..9
  OBVIOUS
<1>3. CASE width <= 8
  BY <1>1, <1>3 DEF Kept, Rest
<1>4. CASE width = 9
  BY <1>1, <1>4 DEF Kept, Rest
<1>5. CASE width = 10
  BY <1>1, <1>2, <1>5 DEF Kept, Rest
<1> QED
  BY <1>1, <1>3, <1>4, <1>5

-----------------------------------------------------------------------------
LEMMA ConfigStart == ConfigInit => ConfigInv
<1> SUFFICES ASSUME ConfigInit PROVE ConfigInv
  OBVIOUS
<1> USE DEF ConfigInit, DefaultConfig, NoDns
<1>1. ConfigTypeOK
  <2>1. <<"NULL", "NULL">> \in Servers
    BY DEF Servers, Texts
  <2>2. asked.by \in {"options", "prompts"}
    OBVIOUS
  <2>3. asked \in Wishes
    BY <2>1 DEF Wishes
  <2> QED
    BY <2>1, <2>3 DEF ConfigTypeOK, Phases, Settings
<1>2. ByOptions /\ Valid /\ Kept_asked /\ OutcomeTold
  BY DEF ByOptions, Valid, Kept_asked, DnsAsked, OutcomeTold, ValidPort
<1> QED
  BY <1>1, <1>2 DEF ConfigInv

(* The settings a step leaves are of their types. *)
LEMMA TypeStep == ConfigTypeOK /\ [ConfigNext]_configVars => ConfigTypeOK'
<1> SUFFICES ASSUME ConfigTypeOK, [ConfigNext]_configVars PROVE ConfigTypeOK'
  OBVIOUS
<1> USE DEF ConfigTypeOK, Phases, Settings, Wishes
<1>1. CASE OptionPort
  <2>1. PICK p \in Ports :
            /\ asked' = [asked EXCEPT !.port = p]
            /\ IF ValidPort(p) THEN Settle([config EXCEPT !.port = p]) ELSE Refuse
    BY <1>1 DEF OptionPort
  <2>2. p \in Int
    BY NumbersAssumption
  <2>3. rest' = rest /\ inputs' \in Nat
    BY <1>1 DEF OptionPort, Option
  <2> QED
    BY <2>1, <2>2, <2>3, Told DEF Settle, Refuse, Say
<1>2. CASE OptionTimeout
  <2>1. PICK form \in TimeoutForms, t \in Timeouts :
            /\ asked' = [asked EXCEPT !.timeOut = 1000 * t]
            /\ CASE form = "--timeout" -> phase' = "faulting" /\ Say("LOG_ERROR") /\ UNCHANGED config
                 [] form = "-t" /\ t < 0 -> Refuse
                 [] OTHER -> Settle([config EXCEPT !.timeOut = Wrapped(1000 * t)])
    BY <1>2 DEF OptionTimeout
  <2>2. 1000 * t \in Int /\ Wrapped(1000 * t) \in Int
    BY NumbersAssumption, WrappedInt
  <2>3. rest' = rest /\ inputs' \in Nat
    BY <1>2 DEF OptionTimeout, Option
  <2>4. asked' \in Wishes
    BY <2>1, <2>2
  <2>5. \/ phase' = "faulting" /\ Say("LOG_ERROR") /\ UNCHANGED config
        \/ Refuse
        \/ Settle([config EXCEPT !.timeOut = Wrapped(1000 * t)])
    BY <2>1
  <2> QED
    BY <2>2, <2>3, <2>4, <2>5, Told DEF Settle, Refuse, Say
<1>3. CASE OptionDns
  <2>1. PICK arg \in DnsArgs :
            LET dns == parse_dns(config.dns, arg)
            IN  /\ asked' = [asked EXCEPT !.dns = AskedDns(arg)]
                /\ IF ValidDns(dns)
                   THEN Settle([config EXCEPT !.dns = dns])
                   ELSE phase' = "refused" /\ Say("LOG_ERROR") /\ config' = [config EXCEPT !.dns = dns]
    BY <1>3 DEF OptionDns
  <2>2. parse_dns(config.dns, arg) \in Servers /\ AskedDns(arg) \in Servers
    BY Parsed
  <2>3. rest' = rest /\ inputs' \in Nat
    BY <1>3 DEF OptionDns, Option
  <2>4. config' = [config EXCEPT !.dns = parse_dns(config.dns, arg)]
    BY <2>1 DEF Settle
  <2>5. phase' \in Phases /\ told' \subseteq {"screen", "file"}
    BY <2>1, Told DEF Settle, Say
  <2>6. asked' = [asked EXCEPT !.dns = AskedDns(arg)]
    BY <2>1
  <2> QED
    BY <2>2, <2>3, <2>4, <2>5, <2>6
<1>4. CASE OptionNoLog
  <2>1. \E b \in BOOLEAN : config' = [config EXCEPT !.noLog = b]
    BY <1>4 DEF OptionNoLog, Settle
  <2>2. phase' = phase /\ told' = told /\ rest' = rest /\ asked' = asked /\ inputs' \in Nat
    BY <1>4 DEF OptionNoLog, Option, Settle
  <2> QED
    BY <2>1, <2>2
<1>5. CASE OptionLogFile
  <2>1. phase' \in Phases /\ told' \subseteq {"screen", "file"}
    BY <1>5, Told DEF OptionLogFile, Settle
  <2>2. \E b \in BOOLEAN : config' = [config EXCEPT !.logFile = b]
    BY <1>5 DEF OptionLogFile, Settle
  <2> QED
    BY <1>5, <2>1, <2>2 DEF OptionLogFile, Option
<1>6. CASE OptionOther
  BY <1>6, Told DEF OptionOther, Option
<1>7. CASE OptionsEnd
  BY <1>7 DEF OptionsEnd
<1>8. CASE PortEnter
  BY <1>8 DEF PortEnter, Typed, PortEntered
<1>9. CASE PortLine
  <2>1. PICK p \in Ports, width \in Widths :
            /\ \E n \in Kept(p, width) : PortEntered(n)
            /\ rest' = Rest(p, width)
            /\ asked' = [asked EXCEPT !.port = p, !.cut = @ \/ width > 8]
    BY <1>9 DEF PortLine
  <2>2. p \in Int
    BY NumbersAssumption
  <2>3. PICK n \in Int : PortEntered(n)
    BY <2>1, <2>2, KeptPort
  <2>4. rest' \in {<<>>, << <<>> >>} \cup {<< <<digit>> >> : digit \in 0..9}
    BY <2>1, <2>2, KeptPort
  <2>5. inputs' \in Nat
    BY <1>9 DEF PortLine, Typed
  <2>6. asked' \in Wishes
    BY <2>1, <2>2
  <2> QED
    BY <2>3, <2>4, <2>5, <2>6 DEF PortEntered
<1>10. CASE PortRest
  <2>1. (IF rest[1] = <<>> THEN 1503 ELSE rest[1][1]) \in Int
    BY <1>10 DEF PortRest
  <2> QED
    BY <1>10, <2>1 DEF PortRest, PortEntered
<1>11. CASE DnsEnter
  BY <1>11 DEF DnsEnter, Typed, NoDns, Servers, Texts
<1>12. CASE DnsLine
  <2>1. PICK arg \in DnsArgs : DnsEntered(arg) /\ asked' = [asked EXCEPT !.dns = AskedDns(arg)]
    BY <1>12 DEF DnsLine
  <2>2. parse_dns(config.dns, arg) \in Servers /\ AskedDns(arg) \in Servers
    BY Parsed
  <2>3. rest' = rest /\ inputs' \in Nat
    BY <1>12 DEF DnsLine, Typed
  <2> QED
    BY <2>1, <2>2, <2>3 DEF DnsEntered
<1>13. CASE DnsRest
  <2>1. parse_dns(config.dns, <<"text">>) \in Servers
    BY Parsed
  <2> QED
    BY <1>13, <2>1 DEF DnsRest, DnsEntered
<1>14. CASE Listen
  BY <1>14, Told DEF Listen, Say
<1>15. CASE handle_segfault
  BY <1>15, Told DEF handle_segfault, Say
<1>16. CASE UNCHANGED configVars
  BY <1>16 DEF configVars
<1> QED
  BY <1>1, <1>2, <1>3, <1>4, <1>5, <1>6, <1>7, <1>8, <1>9, <1>10, <1>11, <1>12, <1>13, <1>14,
     <1>15, <1>16 DEF ConfigNext

(* The part of a wish or of the settings a step does not touch.            *)
SameWishes(new, old) == new.by = old.by /\ new.cut = old.cut

LEMMA Updates ==
    ASSUME NEW old \in Wishes, NEW cfg \in Settings, NEW p, NEW t, NEW dns
    PROVE  /\ [old EXCEPT !.port = p].port = p
           /\ [old EXCEPT !.port = p].timeOut = old.timeOut
           /\ [old EXCEPT !.port = p].dns = old.dns
           /\ SameWishes([old EXCEPT !.port = p], old)
           /\ [old EXCEPT !.timeOut = t].port = old.port
           /\ [old EXCEPT !.timeOut = t].timeOut = t
           /\ [old EXCEPT !.timeOut = t].dns = old.dns
           /\ SameWishes([old EXCEPT !.timeOut = t], old)
           /\ [old EXCEPT !.dns = dns].port = old.port
           /\ [old EXCEPT !.dns = dns].timeOut = old.timeOut
           /\ [old EXCEPT !.dns = dns].dns = dns
           /\ SameWishes([old EXCEPT !.dns = dns], old)
           /\ [cfg EXCEPT !.port = p].port = p
           /\ [cfg EXCEPT !.port = p].timeOut = cfg.timeOut
           /\ [cfg EXCEPT !.port = p].dns = cfg.dns
           /\ [cfg EXCEPT !.port = p].noLog = cfg.noLog
           /\ [cfg EXCEPT !.timeOut = t].port = cfg.port
           /\ [cfg EXCEPT !.timeOut = t].timeOut = t
           /\ [cfg EXCEPT !.timeOut = t].dns = cfg.dns
           /\ [cfg EXCEPT !.timeOut = t].noLog = cfg.noLog
           /\ [cfg EXCEPT !.dns = dns].port = cfg.port
           /\ [cfg EXCEPT !.dns = dns].timeOut = cfg.timeOut
           /\ [cfg EXCEPT !.dns = dns].dns = dns
           /\ [cfg EXCEPT !.dns = dns].noLog = cfg.noLog
BY DEF Wishes, Settings, SameWishes

TypedPort(old, p, b) == [old EXCEPT !.port = p, !.cut = @ \/ b]

LEMMA CutUpdate ==
    ASSUME NEW old \in Wishes, NEW p, NEW b \in BOOLEAN
    PROVE  /\ TypedPort(old, p, b).port = p
           /\ TypedPort(old, p, b).timeOut = old.timeOut
           /\ TypedPort(old, p, b).dns = old.dns
           /\ TypedPort(old, p, b).by = old.by
           /\ ~TypedPort(old, p, b).cut => ~b
BY DEF Wishes, TypedPort

(* Every step keeps what relates the settings to the wishes and the phase. *)
LEMMA SettingsStep ==
    ConfigInv /\ [ConfigNext]_configVars => (ByOptions /\ Valid /\ Kept_asked)'
<1> SUFFICES ASSUME ConfigInv, [ConfigNext]_configVars
             PROVE  (ByOptions /\ Valid /\ Kept_asked)'
  OBVIOUS
<1> USE DEF ConfigInv
<1>t. /\ config \in Settings /\ asked \in Wishes
      /\ rest \in {<<>>, << <<>> >>} \cup {<< <<digit>> >> : digit \in 0..9}
  BY DEF ConfigTypeOK
<1>1. CASE OptionPort
  <2>1. PICK p \in Ports :
            /\ asked' = [asked EXCEPT !.port = p]
            /\ IF ValidPort(p) THEN Settle([config EXCEPT !.port = p]) ELSE Refuse
    BY <1>1 DEF OptionPort
  <2>2. phase = "options" /\ rest' = rest
    BY <1>1 DEF OptionPort, Option
  <2>3. asked'.port = p /\ asked'.timeOut = asked.timeOut /\ asked'.dns = asked.dns
        /\ asked'.by = asked.by /\ asked'.cut = asked.cut
    BY <1>t, <2>1, Updates DEF SameWishes
  <2>4. CASE ValidPort(p)
    <3>1. config' = [config EXCEPT !.port = p] /\ phase' = phase 
      BY <2>1, <2>4 DEF Settle
    <3>2. config'.port = p /\ config'.timeOut = config.timeOut /\ config'.dns = config.dns
          /\ config'.noLog = config.noLog
      BY <1>t, <3>1, Updates
    <3> QED
      BY <2>2, <2>3, <2>4, <3>1, <3>2 DEF ByOptions, Valid, Kept_asked, DnsAsked
  <2>5. CASE ~ValidPort(p)
    <3>1. config' = config /\ phase' = "refused"
      BY <2>1, <2>5 DEF Refuse
    <3> QED
      BY <2>2, <2>3, <3>1 DEF ByOptions, Valid, Kept_asked, DnsAsked
  <2> QED
    BY <2>4, <2>5
<1>2. CASE OptionTimeout
  <2>1. PICK form \in TimeoutForms, t \in Timeouts :
            /\ asked' = [asked EXCEPT !.timeOut = 1000 * t]
            /\ CASE form = "--timeout" -> phase' = "faulting" /\ Say("LOG_ERROR") /\ UNCHANGED config
                 [] form = "-t" /\ t < 0 -> Refuse
                 [] OTHER -> Settle([config EXCEPT !.timeOut = Wrapped(1000 * t)])
    BY <1>2 DEF OptionTimeout
  <2>2. phase = "options" /\ rest' = rest
    BY <1>2 DEF OptionTimeout, Option
  <2>3. asked'.port = asked.port /\ asked'.timeOut = 1000 * t /\ asked'.dns = asked.dns
        /\ asked'.by = asked.by /\ asked'.cut = asked.cut
    BY <1>t, <2>1, Updates DEF SameWishes
  <2>4. CASE form = "-t" /\ ~(t < 0)
    <3>1. config' = [config EXCEPT !.timeOut = Wrapped(1000 * t)] /\ phase' = phase 
      BY <2>1, <2>4 DEF Settle
    <3>2. config'.port = config.port /\ config'.timeOut = Wrapped(1000 * t)
          /\ config'.dns = config.dns /\ config'.noLog = config.noLog
      BY <1>t, <3>1, Updates
    <3>3. 1000 * t \in Nat
      BY <2>4, NumbersAssumption
    <3>4. asked'.timeOut <= IntMax => config'.timeOut = asked'.timeOut
      BY <2>3, <3>2, <3>3, WrappedFits
    <3> QED
      BY <2>2, <2>3, <3>1, <3>2, <3>4 DEF ByOptions, Valid, Kept_asked, DnsAsked
  <2>5. CASE ~(form = "-t" /\ ~(t < 0))
    <3>1. phase' \in {"faulting", "refused"} /\ config' = config
      BY <2>1, <2>5, FormsAssumption DEF Refuse
    <3> QED
      BY <2>2, <2>3, <3>1 DEF ByOptions, Valid, Kept_asked, DnsAsked
  <2> QED
    BY <2>4, <2>5
<1>3. CASE OptionDns
  <2>1. PICK arg \in DnsArgs :
            LET dns == parse_dns(config.dns, arg)
            IN  /\ asked' = [asked EXCEPT !.dns = AskedDns(arg)]
                /\ IF ValidDns(dns)
                   THEN Settle([config EXCEPT !.dns = dns])
                   ELSE phase' = "refused" /\ Say("LOG_ERROR") /\ config' = [config EXCEPT !.dns = dns]
    BY <1>3 DEF OptionDns
  <2>2. phase = "options" /\ rest' = rest
    BY <1>3 DEF OptionDns, Option
  <2>3. asked'.port = asked.port /\ asked'.timeOut = asked.timeOut /\ asked'.dns = AskedDns(arg)
        /\ asked'.by = asked.by /\ asked'.cut = asked.cut
    BY <1>t, <2>1, Updates DEF SameWishes
  <2>c. config' = [config EXCEPT !.dns = parse_dns(config.dns, arg)]
    BY <2>1 DEF Settle
  <2>4. config'.port = config.port /\ config'.timeOut = config.timeOut
        /\ config'.dns = parse_dns(config.dns, arg) /\ config'.noLog = config.noLog
    BY <1>t, <2>c, Updates
  <2>5. config.dns \in Servers
    BY <1>t DEF Settings
  <2>6. config'.dns[1] = asked'.dns[1] /\ (asked'.dns[2] # "NULL" => config'.dns[2] = asked'.dns[2])
    BY <2>3, <2>4, <2>5, Parsed
  <2>7. (phase' = phase /\ ValidDns(config'.dns)) \/ phase' = "refused"
    BY <2>1, <2>4 DEF Settle
  <2> QED
    BY <2>2, <2>3, <2>4, <2>6, <2>7 DEF ByOptions, Valid, Kept_asked, DnsAsked
<1>4. CASE OptionNoLog
  <2>1. config'.port = config.port /\ config'.timeOut = config.timeOut
        /\ config'.dns = config.dns /\ phase' = phase /\ asked' = asked /\ rest' = rest
        /\ phase = "options"
    BY <1>t, <1>4 DEF OptionNoLog, Option, Settle, Settings
  <2> QED
    BY <2>1 DEF ByOptions, Valid, Kept_asked, DnsAsked
<1>5. CASE OptionLogFile
  <2>1. config'.port = config.port /\ config'.timeOut = config.timeOut
        /\ config'.dns = config.dns
        /\ asked' = asked /\ rest' = rest /\ phase = "options"
    BY <1>t, <1>5 DEF OptionLogFile, Option, Settle, Settings
  <2>2. phase' \in {phase, "refused"}
    BY <1>5 DEF OptionLogFile, Settle
  <2> QED
    BY <2>1, <2>2 DEF ByOptions, Valid, Kept_asked, DnsAsked
<1>6. CASE OptionOther
  <2>1. config' = config /\ asked' = asked /\ rest' = rest /\ phase = "options" /\ phase' = "left"
    BY <1>6 DEF OptionOther, Option
  <2> QED
    BY <2>1 DEF ByOptions, Valid, Kept_asked, DnsAsked
<1>7. CASE OptionsEnd
  BY <1>7 DEF OptionsEnd, ByOptions, Valid, Kept_asked, DnsAsked
<1>8. CASE PortEnter
  <2>1. phase = "port" /\ asked' = [asked EXCEPT !.port = 1503] /\ rest' = rest
    BY <1>8 DEF PortEnter
  <2>2. config' = [config EXCEPT !.port = 1503]
        /\ phase' = (IF ValidPort(1503) THEN "dns" ELSE "port")
    BY <1>8 DEF PortEnter, PortEntered
  <2>3. asked'.port = 1503 /\ asked'.timeOut = asked.timeOut /\ asked'.dns = asked.dns
        /\ asked'.by = asked.by /\ asked'.cut = asked.cut
    BY <1>t, <2>1, Updates DEF SameWishes
  <2>4. config'.port = 1503 /\ config'.timeOut = config.timeOut /\ config'.dns = config.dns
    BY <1>t, <2>2, Updates
  <2> QED
    BY <2>1, <2>2, <2>3, <2>4 DEF ByOptions, Valid, Kept_asked, DnsAsked
<1>9. CASE PortLine
  <2>1. PICK p \in Ports, width \in Widths :
            /\ \E n \in Kept(p, width) : PortEntered(n)
            /\ rest' = Rest(p, width)
            /\ asked' = [asked EXCEPT !.port = p, !.cut = @ \/ width > 8]
    BY <1>9 DEF PortLine
  <2>2. p \in Int /\ width \in 5..10
    BY NumbersAssumption, WidthsAssumption
  <2>3. PICK n \in Kept(p, width) : PortEntered(n)
    BY <2>1
  <2>4. phase = "port"
    BY <1>9 DEF PortLine
  <2>5. config'.port = n /\ config'.timeOut = config.timeOut /\ config'.dns = config.dns
        /\ phase' = (IF ValidPort(n) THEN "dns" ELSE "port")
    BY <1>t, <2>3, Updates DEF PortEntered
  <2>6. asked'.port = p /\ asked'.timeOut = asked.timeOut /\ asked'.dns = asked.dns
        /\ asked'.by = asked.by /\ (~asked'.cut => width <= 8)
    <3> DEFINE wide == width > 8
    <3>1. wide \in BOOLEAN /\ asked' = TypedPort(asked, p, wide)
      BY <2>1 DEF TypedPort
    <3>2. ~wide => width <= 8
      BY <2>2
    <3> HIDE DEF wide
    <3>3. asked'.port = p /\ asked'.timeOut = asked.timeOut /\ asked'.dns = asked.dns
          /\ asked'.by = asked.by /\ (~asked'.cut => ~wide)
      BY <1>t, <3>1, CutUpdate
    <3> QED
      BY <3>2, <3>3
  <2>7. ~asked'.cut => n = p /\ rest' = <<>>
    BY <2>1, <2>2, <2>3, <2>6, KeptPort
  <2> QED
    BY <2>4, <2>5, <2>6, <2>7 DEF ByOptions, Valid, Kept_asked, DnsAsked
<1>10. CASE PortRest
  <2> DEFINE p == IF rest[1] = <<>> THEN 1503 ELSE rest[1][1]
  <2>1. phase = "port" /\ asked' = asked /\ rest # <<>> /\ rest' = <<>>
    BY <1>10 DEF PortRest
  <2>2. PortEntered(p)
    BY <1>10 DEF PortRest
  <2> HIDE DEF p
  <2>3. config'.port = p /\ config'.timeOut = config.timeOut /\ config'.dns = config.dns
        /\ phase' = (IF ValidPort(p) THEN "dns" ELSE "port")
    BY <1>t, <2>2, Updates DEF PortEntered
  <2> QED
    BY <2>1, <2>3 DEF ByOptions, Valid, Kept_asked, DnsAsked
<1>11. CASE DnsEnter
  <2>1. phase = "dns" /\ phase' = "parsed" /\ asked' = [asked EXCEPT !.dns = NoDns]
        /\ config' = config /\ rest' = rest
    BY <1>11 DEF DnsEnter
  <2>2. asked'.port = asked.port /\ asked'.timeOut = asked.timeOut
        /\ asked'.by = asked.by /\ asked'.cut = asked.cut /\ asked'.dns = NoDns
    BY <1>t, <2>1, Updates DEF SameWishes
  <2> QED
    BY <2>1, <2>2 DEF ByOptions, Valid, Kept_asked, DnsAsked
<1>12. CASE DnsLine
  <2>1. PICK arg \in DnsArgs : DnsEntered(arg) /\ asked' = [asked EXCEPT !.dns = AskedDns(arg)]
    BY <1>12 DEF DnsLine
  <2> DEFINE dns == parse_dns(config.dns, arg)
  <2>2. phase = "dns" /\ rest' = rest /\ rest = <<>>
    BY <1>12 DEF DnsLine
  <2>3. asked'.port = asked.port /\ asked'.timeOut = asked.timeOut
        /\ asked'.by = asked.by /\ asked'.cut = asked.cut /\ asked'.dns = AskedDns(arg)
    BY <1>t, <2>1, Updates DEF SameWishes
  <2>4. /\ config' = [config EXCEPT !.dns = dns]
        /\ phase' = (IF ValidDns(dns) THEN "parsed" ELSE "dns")
    BY <2>1 DEF DnsEntered
  <2>5. config'.port = config.port /\ config'.timeOut = config.timeOut /\ config'.dns = dns
    BY <1>t, <2>4, Updates
  <2>6. dns[1] = asked'.dns[1] /\ (asked'.dns[2] # "NULL" => dns[2] = asked'.dns[2])
    <3>1. config.dns \in Servers
      BY <1>t DEF Settings
    <3> QED
      BY <2>3, <3>1, Parsed
  <2> HIDE DEF dns
  <2> QED
    BY <2>2, <2>3, <2>4, <2>5, <2>6 DEF ByOptions, Valid, Kept_asked, DnsAsked
<1>13. CASE DnsRest
  <2>1. /\ phase = "dns" /\ phase' \in {"parsed", "dns"}
        /\ rest # <<>> /\ rest' = <<>> /\ asked' = asked
    BY <1>13 DEF DnsRest, DnsEntered
  <2> DEFINE dns == parse_dns(config.dns, <<"text">>)
  <2>c. config' = config \/ config' = [config EXCEPT !.dns = dns]
    BY <1>13 DEF DnsRest, DnsEntered
  <2> HIDE DEF dns
  <2>d. CASE config' = [config EXCEPT !.dns = dns]
    <3>1. config'.port = config.port /\ config'.timeOut = config.timeOut
      BY <1>t, <2>d, Updates
    <3> QED
      BY <2>1, <3>1 DEF ByOptions, Valid, Kept_asked, DnsAsked
  <2>e. CASE config' = config
    BY <2>1, <2>e DEF ByOptions, Valid, Kept_asked, DnsAsked
  <2> QED
    BY <2>c, <2>d, <2>e
<1>14. CASE Listen
  <2>1. config' = config /\ asked' = asked /\ rest' = rest /\ phase = "parsed"
        /\ phase' \in {"serving", "taken"}
    BY <1>14 DEF Listen
  <2> QED
    BY <2>1 DEF ByOptions, Valid, Kept_asked, DnsAsked
<1>15. CASE handle_segfault
  <2>1. config' = config /\ asked' = asked /\ rest' = rest /\ phase' = "faulting"
        /\ phase = "faulting"
    BY <1>15 DEF handle_segfault
  <2> QED
    BY <2>1 DEF ByOptions, Valid, Kept_asked, DnsAsked
<1>16. CASE UNCHANGED configVars
  BY <1>16 DEF configVars, ByOptions, Valid, Kept_asked, DnsAsked
<1> QED
  BY <1>1, <1>2, <1>3, <1>4, <1>5, <1>6, <1>7, <1>8, <1>9, <1>10, <1>11, <1>12, <1>13, <1>14,
     <1>15, <1>16 DEF ConfigNext

(* What main said last, where it said anything.                            *)
LEMMA ToldStep == ConfigInv /\ [ConfigNext]_configVars => OutcomeTold'
<1> SUFFICES ASSUME ConfigInv, [ConfigNext]_configVars PROVE OutcomeTold'
  OBVIOUS
<1> USE DEF ConfigInv
<1>t. config \in Settings
  BY DEF ConfigTypeOK
<1>1. ASSUME phase' \notin {"serving", "taken", "refused", "left"}
      PROVE  OutcomeTold'
  BY <1>1 DEF OutcomeTold
<1>2. ASSUME phase' = "refused", told' = put_log(config', "LOG_ERROR")
      PROVE  OutcomeTold'
  BY <1>2, Told DEF OutcomeTold, Forced
<1>3. ASSUME phase = "options",
             \/ Refuse
             \/ \E cfg : Settle(cfg)
             \/ phase' = "faulting"
      PROVE  OutcomeTold'
  BY <1>1, <1>2, <1>3 DEF Refuse, Say, Settle
<1>4. CASE OptionPort
  BY <1>3, <1>4 DEF OptionPort, Option
<1>5. CASE OptionTimeout
  <2>1. \/ Refuse
        \/ \E cfg : Settle(cfg)
        \/ phase' = "faulting"
    BY <1>5, FormsAssumption DEF OptionTimeout
  <2> QED
    BY <1>3, <1>5, <2>1 DEF OptionTimeout, Option
<1>6. CASE OptionDns
  <2>1. PICK dns : \/ Settle([config EXCEPT !.dns = dns])
                   \/ /\ phase' = "refused" /\ Say("LOG_ERROR")
                      /\ config' = [config EXCEPT !.dns = dns]
    BY <1>6 DEF OptionDns
  <2>2. CASE Settle([config EXCEPT !.dns = dns])
    BY <1>3, <1>6, <2>2 DEF OptionDns, Option
  <2>3. CASE /\ phase' = "refused" /\ Say("LOG_ERROR")
             /\ config' = [config EXCEPT !.dns = dns]
    <3>1. config'.noLog = config.noLog /\ config'.logFile = config.logFile
      BY <1>t, <2>3 DEF Settings
    <3>2. told' = put_log(config', "LOG_ERROR")
      BY <2>3, <3>1 DEF Say, put_log, is_log_true, OnScreen
    <3> QED
      BY <1>2, <2>3, <3>2
  <2> QED
    BY <2>1, <2>2, <2>3
<1>7. CASE OptionNoLog
  BY <1>3, <1>7 DEF OptionNoLog, Option
<1>8. CASE OptionLogFile
  BY <1>2, <1>3, <1>8 DEF OptionLogFile, Option
<1>9. CASE OptionOther
  BY <1>9, Told DEF OptionOther, OutcomeTold
<1>10. CASE Listen
  BY <1>10, Told DEF Listen, Say, Forced, OutcomeTold
<1>11. CASE UNCHANGED configVars
  BY <1>11 DEF configVars, OutcomeTold
<1>12. CASE OptionsEnd \/ PortEnter \/ PortLine \/ PortRest
  <2>1. \A p : PortEntered(p) => phase' \in {"dns", "port"}
    BY DEF PortEntered
  <2>2. phase' \in {"parsed", "dns", "port"}
    <3>1. CASE OptionsEnd
      BY <3>1 DEF OptionsEnd
    <3>2. CASE PortEnter
      BY <3>2 DEF PortEnter, PortEntered
    <3>3. CASE PortLine
      <4>1. PICK p \in Ports, width \in Widths : \E n \in Kept(p, width) : PortEntered(n)
        BY <3>3, Zenon DEF PortLine
      <4>2. PICK n : PortEntered(n)
        BY <4>1, Zenon
      <4>3. phase' \in {"dns", "port"}
        BY <2>1, <4>2, Zenon
      <4> QED
        BY <4>3
    <3>4. CASE PortRest
      BY <3>4 DEF PortRest, PortEntered
    <3> QED
      BY <1>12, <3>1, <3>2, <3>3, <3>4
  <2> QED
    BY <1>1, <2>2
<1>13. CASE DnsEnter \/ DnsLine \/ DnsRest
  BY <1>1, <1>13 DEF DnsEnter, DnsLine, DnsRest, DnsEntered
<1>14. CASE handle_segfault
  BY <1>1, <1>14 DEF handle_segfault
<1> QED
  BY <1>4, <1>5, <1>6, <1>7, <1>8, <1>9, <1>10, <1>11, <1>12, <1>13, <1>14 DEF ConfigNext

LEMMA ConfigInvariance == ConfigSpec => []ConfigInv
<1>1. ConfigInv /\ [ConfigNext]_configVars => ConfigInv'
  BY TypeStep, SettingsStep, ToldStep DEF ConfigInv
<1> QED
  BY <1>1, ConfigStart, PTL DEF ConfigSpec

-----------------------------------------------------------------------------
(* Every setting has its type: the port and the timeout are numbers, the   *)
(* servers a pair of texts, what is left on stdin at most one digit.       *)
THEOREM ConfigTyped == ConfigSpec => []ConfigTypeOK
<1>1. ConfigInv => ConfigTypeOK
  BY DEF ConfigInv
<1> QED
  BY <1>1, ConfigInvariance, PTL

(* Whatever is given before and replaced, main serves on a port a socket   *)
(* can have and, where DNS servers were asked for last, with addresses     *)
(* that passed is_ip.                                                      *)
THEOREM AlwaysServesValid == ConfigSpec => []ServesOnlyValid
<1>1. ConfigInv => ServesOnlyValid
  <2> SUFFICES ASSUME ConfigInv, phase = "serving" PROVE ServesOnlyValid
    BY DEF ServesOnlyValid
  <2>1. config.port \in Int /\ MaxPort \in Int /\ ValidPort(config.port)
    BY DEF ConfigInv, ConfigTypeOK, Settings, MaxPort, Valid
  <2>2. config.port >= 1 /\ config.port <= MaxPort
    BY <2>1 DEF ValidPort, MaxPort
  <2>3. config.port \in 1..MaxPort
    BY <2>1, <2>2
  <2>4. DnsAsked /\ config.dns # NoDns => ValidDns(config.dns)
    BY DEF ConfigInv, ConfigTypeOK, Wishes, Valid, DnsAsked
  <2> QED
    BY <2>3, <2>4 DEF ServesOnlyValid, ValidDns
<1> QED
  BY <1>1, ConfigInvariance, PTL

(* That main serves or that the port is taken is on the screen whatever    *)
(* the log settings are.  An option that is refused is on the screen       *)
(* exactly without --nolog: with --nolog and no log file main ends without *)
(* a word.                                                                 *)
THEOREM OutcomeAlwaysTold == ConfigSpec => []OutcomeTold
<1>1. ConfigInv => OutcomeTold
  BY DEF ConfigInv
<1> QED
  BY <1>1, ConfigInvariance, PTL

(* What is served is what was asked for last, but for the four exceptions  *)
(* ServedAsAsked names.                                                    *)
THEOREM AlwaysServedAsAsked == ConfigSpec => []ServedAsAsked
<1>1. ConfigInv => ServedAsAsked
  BY DEF ConfigInv, Kept_asked, ServedAsAsked
<1> QED
  BY <1>1, ConfigInvariance, PTL
=============================================================================
