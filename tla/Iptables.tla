------------------------------ MODULE Iptables ------------------------------
(***************************************************************************)
(* How internal/firewall/iptables deletes a rule: the instruction is parsed, *)
(* the chain is listed and parsed line by line, and the first rule equal to   *)
(* the instruction is deleted by its number.  An instruction and a line are   *)
(* sequences of words; addresses are prefixes, and "dpt:80" is a pair.        *)
(* Then, how a usable iptables program is looked for.                        *)
(***************************************************************************)
EXTENDS Integers, Sequences

\* What an instruction does not say.
Unset == ""
NoPrefix == "invalid"
AnyPrefix == "0.0.0.0/0"
NoMark == [invert |-> FALSE, value |-> "0"]

Blank == [table |-> Unset, append |-> FALSE, chain |-> Unset, target |-> Unset, protocol |-> Unset,
          in |-> Unset, out |-> Unset, source |-> NoPrefix, destination |-> NoPrefix,
          sourcePort |-> "0", destinationPort |-> "0", toPorts |-> <<>>, ctstate |-> <<>>,
          tcpFlags |-> <<>>, mark |-> NoMark, ok |-> TRUE]

----------------------- (* Parsing an instruction *) --------------------------

\* The field that takes the word after each flag.
FieldOf == [f \in {"-t", "-j", "-p", "-i", "-o", "-s", "-d", "--sport", "--dport"} |->
    CASE f = "-t" -> "table"    [] f = "-j" -> "target"
      [] f = "-p" -> "protocol" [] f = "-i" -> "in" [] f = "-o" -> "out"
      [] f = "-s" -> "source"   [] f = "-d" -> "destination"
      [] f = "--sport" -> "sourcePort" [] f = "--dport" -> "destinationPort"]

\* parseInstructionFlag: what w, the words from a flag on, makes of i.
ParseFlag(w, i) ==
    CASE w[1] \in DOMAIN FieldOf -> [i EXCEPT ![FieldOf[w[1]]] = w[2]]
      [] w[1] \in {"--append", "--delete"} ->
            [i EXCEPT !.append = (w[1] = "--append"), !.chain = w[2]]
      [] w[1] = "--ctstate" -> [i EXCEPT !.ctstate = w[2]]
      [] w[1] = "--to-ports" -> [i EXCEPT !.toPorts = <<w[2]>>]
      [] w[1] = "--tcp-flags" -> [i EXCEPT !.tcpFlags = <<w[2], w[3]>>]
      [] w[1] = "--mark" -> [i EXCEPT !.mark.value = w[2]]
      [] w[1] = "-m" /\ w[2] \in {"tcp", "udp"} -> i
      [] w[1] = "-m" /\ w[2] = "mark" /\ w[3] = "!" -> [i EXCEPT !.mark.invert = TRUE]
      [] OTHER -> [i EXCEPT !.ok = FALSE]

\* How many words a flag and its values are.
Consumed(w) == IF w[1] = "--tcp-flags" \/ (w[1] = "-m" /\ w[2] = "mark") THEN 3 ELSE 2

\* One more word of an instruction: the place of the next flag, and what it is made of so far.
ReadWord(words, n, so) ==
    IF n < so.next THEN so
    ELSE LET w == SubSeq(words, n, Len(words)) IN [next |-> n + Consumed(w), i |-> ParseFlag(w, so.i)]
Reading(words) ==
    LET After[n \in 0..Len(words)] ==
            IF n = 0 THEN [next |-> 1, i |-> Blank] ELSE ReadWord(words, n, After[n - 1])
    IN After

\* parseIptablesInstruction with setDefaults: flag after flag, then the table.
ParseInstruction(words) ==
    LET i == Reading(words)[Len(words)].i IN
    IF i.table = Unset THEN [i EXCEPT !.table = "filter"] ELSE i

\* isDeleteMatchInstruction: no instruction gives a line number after the chain.
IsDeleteMatch(words) == \E k \in 1..(Len(words) - 1) : words[k] = "--delete"

---------------------------- (* Parsing a line *) -----------------------------

\* The ports and flags after "tcp" or "udp" are pairs, up to the first word.
Option(r, w) ==
    CASE w[1] = "spt" -> [r EXCEPT !.sourcePort = w[2]]
      [] w[1] = "dpt" -> [r EXCEPT !.destinationPort = w[2]]
      [] w[1] = "flags" -> [r EXCEPT !.tcpFlags = w[2]]
PortOptions(r, pairs) ==
    LET After[n \in 0..Len(pairs)] == IF n = 0 THEN r ELSE Option(After[n - 1], pairs[n]) IN After[Len(pairs)]

(* parseChainRuleOptionalFields: the words of each option, gathered here in one *)
(* tuple, and what they set.                                                *)
Optional(r, o) ==
    CASE o[1] \in {"tcp", "udp"} -> PortOptions(r, o[2])
      [] o[1] = "redir" -> [r EXCEPT !.redirPorts = <<o[2]>>]
      [] o[1] = "ctstate" -> [r EXCEPT !.ctstate = o[2]]
      [] o[1] = "mark" -> [r EXCEPT !.mark = o[2]]
Options(r, opts) ==
    LET After[n \in 0..Len(opts)] == IF n = 0 THEN r ELSE Optional(After[n - 1], opts[n]) IN After[Len(opts)]

\* parseChainRuleLine: the fixed columns, then the options.
ParseLine(line) ==
    Options([target |-> line.target,
             protocol |-> IF line.prot = "all" THEN Unset ELSE line.prot,
             in |-> line.in, out |-> line.out, source |-> line.source,
             destination |-> line.destination, sourcePort |-> "0", destinationPort |-> "0",
             redirPorts |-> <<>>, ctstate |-> <<>>, tcpFlags |-> <<>>, mark |-> NoMark],
            line.opts)

\* The word after a flag, the way iptables reads an instruction.
Word(words, flag, unset) ==
    LET at == {k \in 1..(Len(words) - 1) : words[k] = flag} IN
    IF at = {} THEN unset ELSE words[1 + CHOOSE k \in at : TRUE]

(* What iptables lists for the rule an instruction added: a value in each       *)
(* column, then an option for each match.                                   *)
Shows(words, flag, option) == IF Word(words, flag, Unset) = Unset THEN <<>> ELSE <<option>>
PortPairs(words) ==
    Shows(words, "--sport", <<"spt", Word(words, "--sport", "0")>>)
    \o Shows(words, "--dport", <<"dpt", Word(words, "--dport", "0")>>)
    \o Shows(words, "--tcp-flags", <<"flags", <<"RST", "RST">>>>)
Listed(words) ==
    [target |-> Word(words, "-j", Unset), prot |-> Word(words, "-p", "all"),
     in |-> Word(words, "-i", "*"), out |-> Word(words, "-o", "*"),
     source |-> Word(words, "-s", AnyPrefix), destination |-> Word(words, "-d", AnyPrefix),
     opts |-> (IF PortPairs(words) = <<>> THEN <<>> ELSE <<<<Word(words, "-p", "all"), PortPairs(words)>>>>)
              \o Shows(words, "--mark", <<"mark", [invert |-> TRUE, value |-> Word(words, "--mark", "0")]>>)
              \o Shows(words, "--to-ports", <<"redir", Word(words, "--to-ports", "0")>>)]

\* The table and chain of a rule.
Table(words) == Word(words, "-t", "filter")
Chain(words) == Word(words, "--append", Word(words, "--delete", Unset))

------------------------- (* Which line is deleted *) -------------------------

InterfacesEqual(instruction, rule) == instruction = rule \/ (instruction = Unset /\ rule = "*")
PrefixesEqual(instruction, rule) == instruction = rule \/ (instruction = NoPrefix /\ rule = AnyPrefix)

\* A bug: the ports a redirection leads to are not compared.
EqualToRule_AnyTarget(i, table, chain, r) ==
    /\ i.table = table /\ i.chain = chain /\ i.target = r.target /\ i.protocol = r.protocol
    /\ i.destinationPort = r.destinationPort /\ i.sourcePort = r.sourcePort
    /\ i.ctstate = r.ctstate
    /\ InterfacesEqual(i.in, r.in) /\ InterfacesEqual(i.out, r.out)
    /\ PrefixesEqual(i.source, r.source) /\ PrefixesEqual(i.destination, r.destination)
    /\ i.tcpFlags = r.tcpFlags /\ i.mark = r.mark

\* equalToRule, against a rule of a chain of a table.
EqualToRule(i, table, chain, r) ==
    /\ i.table = table /\ i.chain = chain /\ i.target = r.target /\ i.protocol = r.protocol
    /\ i.destinationPort = r.destinationPort /\ i.sourcePort = r.sourcePort
    /\ i.toPorts = r.redirPorts /\ i.ctstate = r.ctstate
    /\ InterfacesEqual(i.in, r.in) /\ InterfacesEqual(i.out, r.out)
    /\ PrefixesEqual(i.source, r.source) /\ PrefixesEqual(i.destination, r.destination)
    /\ i.tcpFlags = r.tcpFlags /\ i.mark = r.mark

(* findLineNumber: the number of the first rule of its chain equal to the      *)
(* instruction, or 0.  A chain is the sequence of the instructions that made  *)
(* it, and rules are numbered from 1.                                       *)
FindLineNumber(words, chain) ==
    LET i == ParseInstruction(words)
        equal == {k \in 1..Len(chain) :
                     EqualToRule(i, Table(chain[k]), Chain(chain[k]), ParseLine(Listed(chain[k])))}
    IN IF equal = {} THEN 0 ELSE CHOOSE k \in equal : \A j \in equal : k <= j

------------------- (* The instructions of the program *) ---------------------

Verb(remove) == IF remove THEN "--delete" ELSE "--append"
On(flag, intf) == IF intf = "*" THEN <<>> ELSE <<flag, intf>>

OutputThroughInterface(intf, remove) ==
    <<Verb(remove), "OUTPUT", "-o", intf, "-j", "ACCEPT">>

OutputTrafficToVPN(intf, ip, protocol, port, remove) ==
    <<Verb(remove), "OUTPUT", "-d", ip, "-o", intf, "-p", protocol, "-m", protocol,
      "--dport", port, "-j", "ACCEPT">>

OutputFromIPToSubnet(intf, source, destination, remove) ==
    <<Verb(remove), "OUTPUT">> \o On("-o", intf)
        \o <<"-s", source, "-d", destination, "-j", "ACCEPT">>

InputToPort(intf, protocol, port, remove) ==
    <<Verb(remove), "INPUT">> \o On("-i", intf)
        \o <<"-p", protocol, "-m", protocol, "--dport", port, "-j", "ACCEPT">>

Redirection(intf, protocol, source, destination, remove) ==
    <<"-t", "nat", Verb(remove), "PREROUTING">> \o On("-i", intf)
        \o <<"-p", protocol, "--dport", source, "-j", "REDIRECT", "--to-ports", destination>>

DropRST(source, sport, destination, dport, mark, remove) ==
    <<Verb(remove), "OUTPUT", "-p", "tcp", "-s", source, "--sport", sport, "-d", destination,
      "--dport", dport, "--tcp-flags", "RST", "RST", "-m", "mark", "!", "--mark", mark,
      "-j", "DROP">>

\* Rules that are never deleted, and are in the way.
InputToSubnet(intf, destination) ==
    <<"--append", "INPUT">> \o On("-i", intf) \o <<"-d", destination, "-j", "ACCEPT">>

----------------------- (* Which iptables is used *) --------------------------

(* testIptablesPath: the outcome of testing a path, given which of its four    *)
(* commands fails: "add", "delete", "list", "policy", "unreadable" when the   *)
(* policy is not found in the list, or "none".                              *)
TestPath(fails) ==
    [verdict |-> CASE fails \in {"delete", "unreadable"} -> "critical"
                   [] fails \in {"add", "denied", "list", "policy"} -> "unsupported"
                   [] OTHER -> "ok",
     denied |-> fails = "denied",
     leftover |-> fails = "delete"]

\* A bug: a path that could not remove its test rule is merely unsupported.
CheckSupport_Lenient(fails) ==
    LET tests == [k \in DOMAIN fails |-> TestPath(fails[k])]
        settled == {k \in DOMAIN fails : tests[k].verdict = "ok"}
        last == IF settled = {} THEN Len(fails)
                ELSE CHOOSE k \in settled : \A j \in settled : k <= j
    IN [path |-> IF settled = {} THEN 0 ELSE last,
        error |-> IF settled # {} THEN "none"
                  ELSE IF \A k \in DOMAIN fails : tests[k].denied THEN "denied" ELSE "unsupported",
        tested |-> 1..last]

(* checkIptablesSupport: the first path that works, a critical error on the    *)
(* way, or the reason why none does.                                        *)
CheckSupport(fails) ==
    LET tests == [k \in DOMAIN fails |-> TestPath(fails[k])]
        settled == {k \in DOMAIN fails : tests[k].verdict # "unsupported"}
        last == IF settled = {} THEN Len(fails)
                ELSE CHOOSE k \in settled : \A j \in settled : k <= j
        critical == settled # {} /\ tests[last].verdict = "critical"
    IN [path |-> IF settled = {} \/ critical THEN 0 ELSE last,
        error |-> IF critical THEN "critical" ELSE IF settled # {} THEN "none"
                  ELSE IF \A k \in DOMAIN fails : tests[k].denied THEN "denied" ELSE "unsupported",
        tested |-> 1..last]

(* New: IPv4 needs a working iptables; without ip6tables the path is empty,   *)
(* unless looking for it met an error other than "not supported".            *)
New(fails4, fails6) ==
    LET v4 == CheckSupport(fails4)
        v6 == CheckSupport(fails6)
    IN [ok |-> v4.error = "none" /\ v6.error \in {"none", "unsupported"},
        ip4 |-> v4.path, ip6 |-> v6.path,
        tested4 |-> v4.tested, tested6 |-> IF v4.error = "none" THEN v6.tested ELSE {}]
=============================================================================
