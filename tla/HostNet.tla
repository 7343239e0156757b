------------------------------ MODULE HostNet ------------------------------
(***************************************************************************)
(* The address a Run's TAP gets (sandbox_net.rs), the mask the guest       *)
(* derives for it (bunsen-init's network.rs), and what the host's firewall *)
(* has to say about it (firewall_check.rs).                                *)
(*                                                                         *)
(* TLC's integers are 32 bits wide and signed, so an IPv4 address is the   *)
(* pair of its halves: <<a * 256 + b, c * 256 + d>>.                       *)
(***************************************************************************)
EXTENDS Integers, Sequences

Half   == 0 .. 65535
Hashes == Nat     \* the FNV-1a hash of a run id; only its low bits count

LinkLocal == 169 * 256 + 254

-----------------------------------------------------------------------------
(* derive_run_network *)

\* Mutant: the reserved block is not skipped.
IndexFromZero(h) == h % 16384

\* Block 0 is reserved: its Runs share block 1.
subnet_index(h) == IF h % 16384 = 0 THEN 1 ELSE h % 16384

\* The host's address and the guest's.  octet_3 is a u8: it is a multiple of four, and
\* adding two to it does not overflow.
derive_run_network(h) ==
  LET base == subnet_index(h) * 4
      octet_2 == (base \div 256) % 256
      octet_3 == base % 256
  IN  [host |-> <<LinkLocal, octet_2 * 256 + (octet_3 + 1)>>,
       guest |-> <<LinkLocal, octet_2 * 256 + (octet_3 + 2)>>, prefix_len |-> 30]

\* The kernel's reading of an address and a prefix: the network they are on.
Pow2 == <<1, 2, 4, 8, 16, 32, 64, 128, 256, 512, 1024, 2048, 4096, 8192, 16384, 32768, 65536>>
Masked(half, bits) == half - (half % Pow2[17 - bits])

\* The mask as the guest makes it of a prefix length: the ones that are left of it.
prefix_len_to_netmask(n) ==
  LET ones(bits) == 65536 - Pow2[17 - bits]
  IN  IF n >= 32 THEN <<65535, 65535>>
      ELSE IF n <= 16 THEN <<ones(n), 0>> ELSE <<65535, ones(n - 16)>>

\* The network an address is on, by a prefix length.
NetworkOf(ip, n) ==
  IF n <= 16 THEN <<Masked(ip[1], n), 0>> ELSE <<ip[1], Masked(ip[2], n - 16)>>

\* A Run has a block of four addresses for itself, with its network address first and its
\* broadcast address last, outside the block that is reserved, and the guest's mask puts
\* both ends on it; two Runs share one only when their hashes agree on 14 bits, or one of
\* them on none (subnet_index, derive_run_network, prefix_len_to_netmask).
NetworksApart(h, k) ==
  LET n == derive_run_network(h)
      m == derive_run_network(k)
      net == NetworkOf(n.host, 30)
  IN  /\ NetworkOf(n.guest, 30) = net
      /\ n.host[2] = net[2] + 1 /\ n.guest[2] = net[2] + 2 /\ net[2] >= 4 /\ net[2] + 3 <= 65535
      /\ prefix_len_to_netmask(n.prefix_len) = <<65535, 65532>>
      /\ net = NetworkOf(m.host, 30) =>
           h % 16384 = k % 16384 \/ {h % 16384, k % 16384} = {0, 1}

-----------------------------------------------------------------------------
(* firewall_check.rs *)

\* A line of iptables -S: a policy, or a rule of a chain with its target and its source, a
\* CIDR whose prefix is 32 when it names none.  A rule may say ! -s, which turns its source
\* round, and may be narrow: with a -p, --dport, -i or --ctstate that a Run's packet does
\* not meet.
BadPrefix == 33    \* does not parse
NoSource == [ip |-> <<0, 0>>, prefix |-> 34]
Targets == {"ACCEPT", "DROP", "REJECT", "RETURN"}   \* what is not the name of a chain

Sources == {NoSource} \cup [ip : Half \X Half, prefix : 0 .. BadPrefix]
Rules == [kind : {"policy", "rule"}, chain : STRING \ Targets, target : STRING \ {"none"}, src : Sources,
          negated : BOOLEAN, narrow : BOOLEAN]

\* Mutant: as long as the prefix fits the addresses, whatever its length.
CoversAnyPrefix(src) ==
  /\ src.prefix \in 0 .. 32
  /\ LET n == IF src.prefix > 16 THEN 16 ELSE src.prefix
     IN  Masked(src.ip[1], n) = Masked(LinkLocal, n)

subnet_covers_link_local(src) ==
  /\ src.prefix \in 0 .. 16
  /\ Masked(src.ip[1], src.prefix) = Masked(LinkLocal, src.prefix)

\* The last policy line counts, and any rule anywhere that names a source around the whole
\* range and accepts: its chain is not traced, and what else it says is not read.
parse_iptables_save(lines) ==
  LET policies == {i \in DOMAIN lines : lines[i].kind = "policy" /\ lines[i].chain = "INPUT"}
      last == CHOOSE i \in policies : \A j \in policies : j <= i
      covered == \E i \in DOMAIN lines :
                   /\ lines[i].kind = "rule" /\ lines[i].target = "ACCEPT"
                   /\ lines[i].src # NoSource /\ subnet_covers_link_local(lines[i].src)
  IN  IF policies = {} \/ lines[last].target = "ACCEPT" \/ covered
        THEN "Permissive" ELSE "Blocked"

enforce_decision(decision, manage) == decision = "Permissive" \/ manage

\* What a source means to the kernel.
Matches(ip, src) ==
  src = NoSource \/ (src.prefix \in 0 .. 32 /\ NetworkOf(ip, src.prefix) = NetworkOf(src.ip, src.prefix))

\* The kernel on a packet from ip: it goes through the rules of a chain that match it until
\* one decides, and through the chain that a rule calls, chains nested two deep at most.
Hit(ip, l) == l.kind = "rule" /\ ~l.narrow /\ Matches(ip, l.src) # l.negated
Walk(lines, ip, chain, called) ==
  LET says(l) == IF l.target \in Targets THEN l.target
                 ELSE IF l.target \in DOMAIN called THEN called[l.target] ELSE "none"
      deciding == {i \in DOMAIN lines : /\ lines[i].chain = chain /\ Hit(ip, lines[i])
                                       /\ says(lines[i]) # "none"}
      first == CHOOSE i \in deciding : \A j \in deciding : i <= j
  IN  IF deciding = {} \/ says(lines[first]) = "RETURN" THEN "none" ELSE says(lines[first])

Chains(lines) == {lines[i].chain : i \in DOMAIN lines}
WalkAll(lines, ip, called) == [c \in Chains(lines) |-> Walk(lines, ip, c, called)]
Verdict(lines, ip) ==
  Walk(lines, ip, "INPUT", WalkAll(lines, ip, WalkAll(lines, ip, [c \in Chains(lines) |-> "none"])))

\* The last policy of INPUT is not to accept.
Drops(lines) ==
  \E i \in DOMAIN lines :
    /\ lines[i].kind = "policy" /\ lines[i].chain = "INPUT" /\ lines[i].target # "ACCEPT"
    /\ \A j \in DOMAIN lines : lines[j].kind = "policy" /\ lines[j].chain = "INPUT" => j <= i

\* A rule that names a source around every address a Run can have, and accepts.
RunAddresses == {<<LinkLocal, 2>>, <<LinkLocal, 6>>, <<LinkLocal, 65534>>}
CoversRuns(l) ==
  /\ l.kind = "rule" /\ l.target = "ACCEPT" /\ l.src # NoSource
  /\ \A ip \in RunAddresses : Matches(ip, l.src)

\* The kernel goes through that chain: it is INPUT, or called from it.
Calls(lines, ip, from, to) ==
  \E i \in DOMAIN lines : Hit(ip, lines[i]) /\ lines[i].chain = from /\ lines[i].target = to
Reached(lines, ip, chain) ==
  \/ chain = "INPUT" \/ Calls(lines, ip, "INPUT", chain)
  \/ \E c \in Chains(lines) : Calls(lines, ip, "INPUT", c) /\ Calls(lines, ip, c, chain)

\* What the check does not see of a rule that covers the Runs: that it has a further match,
\* or ! before its source, or is where the kernel does not come.
Overlooked(lines, ip, l) ==
  \/ l.narrow \/ l.negated \/ ~Reached(lines, ip, l.chain)
  \/ \E i \in DOMAIN lines : Hit(ip, lines[i]) /\ lines[i].target = "RETURN"

\* A Run is refused only when INPUT drops by policy and no rule names a source around every
\* address a Run can have and accepts.  A packet of a Run that is let start without managing
\* the firewall is accepted by the kernel, unless a rule drops it, which the check does not
\* look for, or INPUT drops it by policy and every rule that covers the Runs has something
\* the check does not see (parse_iptables_save, subnet_covers_link_local, enforce_decision).
FirewallJudged(lines) ==
  LET covering == {i \in DOMAIN lines : CoversRuns(lines[i])}
  IN  IF ~enforce_decision(parse_iptables_save(lines), FALSE) THEN Drops(lines) /\ covering = {}
      ELSE \A ip \in RunAddresses :
             CASE Verdict(lines, ip) = "ACCEPT" -> TRUE
               [] Verdict(lines, ip) = "none" ->
                    Drops(lines) => covering # {} /\ \A i \in covering : Overlooked(lines, ip, lines[i])
               [] OTHER -> \E i \in DOMAIN lines : Hit(ip, lines[i]) /\ lines[i].target \in {"DROP", "REJECT"}
=============================================================================
