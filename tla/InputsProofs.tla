---------------------------- MODULE InputsProofs ----------------------------
(***************************************************************************)
(* The theorems of Inputs, for every value of its constants that           *)
(* InputsAssumption and ImagesAssumption allow: any hashes, any firewall,  *)
(* any environment, any command made of options, any accounts, any secrets *)
(* and pieces of a stream, any questions, lines and a layer of any length. *)
(*                                                                         *)
(* The parsers and the layers are state machines, each with an inductive   *)
(* invariant (ParserInv, LayerInv); the rest holds of each input by        *)
(* itself, SecretsRedacted and QuestionsKept by BytesProofs.               *)
(***************************************************************************)
EXTENDS Inputs, BytesProofs, SequenceTheorems, FiniteSetTheorems, WellFoundedInduction, TLAPS

-----------------------------------------------------------------------------
(* HostNet: the address of a Run, and the firewall *)

\* The low 14 bits of a hash, and the blocks a Run can have.
Low14(i) == i % 16384
Blocks == 1 .. 16383

\* The two octets of an address in block b, put together again: octet_3 does not overflow.
LEMMA Octets ==
  ASSUME NEW b \in Blocks
  PROVE  /\ (((b * 4) \div 256) % 256) * 256 + (((b * 4) % 256) + 1) = 4 * b + 1
         /\ (((b * 4) \div 256) % 256) * 256 + (((b * 4) % 256) + 2) = 4 * b + 2
<1> DEFINE q == (b * 4) \div 256
           r == (b * 4) % 256
<1>1. q \in 0 .. 255 /\ r \in 0 .. 255 /\ b * 4 = q * 256 + r
  BY DEF Blocks
<1> HIDE DEF q, r
<1>2. q \in 0 .. 255
  BY <1>1
<1>3. q % 256 = q
  BY <1>2
<1>4. (q % 256) * 256 + (r + 1) = 4 * b + 1 /\ (q % 256) * 256 + (r + 2) = 4 * b + 2
  BY <1>1, <1>2, <1>3 DEF Blocks
<1> QED BY <1>4 DEF q, r

\* The last two bits of a Run's two addresses.
LEMMA Quads ==
  ASSUME NEW b \in Blocks
  PROVE  (4 * b + 1) % 4 = 1 /\ (4 * b + 2) % 4 = 2
BY DEF Blocks

\* A block is one of 16383, and the hash's 14 bits unless those are zero (subnet_index).
LEMMA Index ==
  ASSUME NEW i \in net!Hashes
  PROVE  /\ net!subnet_index(i) \in Blocks
         /\ net!subnet_index(i) = Low14(i) \/ (net!subnet_index(i) = 1 /\ Low14(i) = 0)
<1>1. i \in Nat
  BY DEF net!Hashes
<1>2. Low14(i) \in 0 .. 16383
  BY <1>1, SMTT(60) DEF Low14
<1>3. net!subnet_index(i) = IF Low14(i) = 0 THEN 1 ELSE Low14(i)
  BY DEF net!subnet_index, Low14
<1>4. (IF Low14(i) = 0 THEN 1 ELSE Low14(i)) \in Blocks
  BY <1>2, SMT DEF Blocks
<1> QED BY <1>3, <1>4

\* A Run's two addresses, and the network both are on (derive_run_network).
LEMMA Block ==
  ASSUME NEW i \in net!Hashes
  PROVE  /\ net!derive_run_network(i) =
              [host |-> <<net!LinkLocal, 4 * net!subnet_index(i) + 1>>,
               guest |-> <<net!LinkLocal, 4 * net!subnet_index(i) + 2>>, prefix_len |-> 30]
         /\ net!NetworkOf(net!derive_run_network(i).host, 30) = <<net!LinkLocal, 4 * net!subnet_index(i)>>
         /\ net!NetworkOf(net!derive_run_network(i).guest, 30) = <<net!LinkLocal, 4 * net!subnet_index(i)>>
<1> DEFINE b == net!subnet_index(i)
<1>0. b \in Blocks
  BY Index
<1> HIDE DEF b
<1>1. net!derive_run_network(i) = [host |-> <<net!LinkLocal, 4 * b + 1>>,
                                   guest |-> <<net!LinkLocal, 4 * b + 2>>, prefix_len |-> 30]
  <2>1. net!derive_run_network(i) =
          [host |-> <<net!LinkLocal, (((b * 4) \div 256) % 256) * 256 + (((b * 4) % 256) + 1)>>,
           guest |-> <<net!LinkLocal, (((b * 4) \div 256) % 256) * 256 + (((b * 4) % 256) + 2)>>,
           prefix_len |-> 30]
    BY DEF net!derive_run_network, b
  <2>2. /\ (((b * 4) \div 256) % 256) * 256 + (((b * 4) % 256) + 1) = 4 * b + 1
        /\ (((b * 4) \div 256) % 256) * 256 + (((b * 4) % 256) + 2) = 4 * b + 2
    BY <1>0, Octets
  <2> QED BY <2>1, <2>2
<1>2. ASSUME NEW low
      PROVE  net!NetworkOf(<<net!LinkLocal, low>>, 30) = <<net!LinkLocal, low - (low % 4)>>
  <2>1. net!Pow2[17 - (30 - 16)] = 4
    <3>1. 17 - (30 - 16) = 3
      OBVIOUS
    <3>2. net!Pow2[3] = 4
      BY DEF net!Pow2
    <3> QED BY <3>1, <3>2
  <2> QED BY <2>1 DEF net!NetworkOf, net!Masked
<1>3. (4 * b + 1) - ((4 * b + 1) % 4) = 4 * b /\ (4 * b + 2) - ((4 * b + 2) % 4) = 4 * b
  BY <1>0, Quads DEF Blocks
<1>4. /\ net!NetworkOf(net!derive_run_network(i).host, 30) = <<net!LinkLocal, 4 * b>>
      /\ net!NetworkOf(net!derive_run_network(i).guest, 30) = <<net!LinkLocal, 4 * b>>
  <2>1. /\ net!NetworkOf(<<net!LinkLocal, 4 * b + 1>>, 30) = <<net!LinkLocal, 4 * b>>
        /\ net!NetworkOf(<<net!LinkLocal, 4 * b + 2>>, 30) = <<net!LinkLocal, 4 * b>>
    BY <1>2, <1>3
  <2> QED BY <1>1, <2>1
<1> QED BY <1>1, <1>4 DEF b

\* The address of a Run is its own, up to the hash's 14 bits, for every pair of hashes.
LEMMA NetworkApart ==
  ASSUME NEW h \in net!Hashes, NEW k \in net!Hashes
  PROVE  net!NetworksApart(h, k)
<1> DEFINE n == net!derive_run_network(h)
           m == net!derive_run_network(k)
           b == net!subnet_index(h)
           c == net!subnet_index(k)
<1>1. net!prefix_len_to_netmask(30) = <<65535, 65532>>
  <2>1. net!Pow2[17 - (30 - 16)] = 4
    <3>1. 17 - (30 - 16) = 3
      OBVIOUS
    <3>2. net!Pow2[3] = 4
      BY DEF net!Pow2
    <3> QED BY <3>1, <3>2
  <2> QED BY <2>1 DEF net!prefix_len_to_netmask
<1>2. b \in Blocks
  BY Index
<1>3. c \in Blocks
  BY Index
<1>4. /\ n = [host |-> <<net!LinkLocal, 4 * b + 1>>, guest |-> <<net!LinkLocal, 4 * b + 2>>, prefix_len |-> 30]
      /\ net!NetworkOf(n.host, 30) = <<net!LinkLocal, 4 * b>>
      /\ net!NetworkOf(n.guest, 30) = <<net!LinkLocal, 4 * b>>
  BY Block
<1>5. net!NetworkOf(m.host, 30) = <<net!LinkLocal, 4 * c>>
  BY Block
<1>6. b = Low14(h) \/ (b = 1 /\ Low14(h) = 0)
  BY Index
<1>7. c = Low14(k) \/ (c = 1 /\ Low14(k) = 0)
  BY Index
<1> HIDE DEF n, m, b, c
<1>8. ASSUME net!NetworkOf(n.host, 30) = net!NetworkOf(m.host, 30)
      PROVE  Low14(h) = Low14(k) \/ {Low14(h), Low14(k)} = {0, 1}
  <2>1. 4 * b = 4 * c
    BY <1>4, <1>5, <1>8
  <2>2. b = c
    BY <1>2, <1>3, <2>1 DEF Blocks
  <2> QED BY <1>6, <1>7, <2>2
<1>9. /\ n.host[2] = net!NetworkOf(n.host, 30)[2] + 1 /\ n.guest[2] = net!NetworkOf(n.host, 30)[2] + 2
      /\ n.prefix_len = 30 /\ net!NetworkOf(n.guest, 30) = net!NetworkOf(n.host, 30)
  BY <1>4
<1>10. net!NetworkOf(n.host, 30)[2] >= 4 /\ net!NetworkOf(n.host, 30)[2] + 3 <= 65535
  <2>1. 4 * b >= 4 /\ 4 * b + 3 <= 65535
    BY <1>2 DEF Blocks
  <2> QED BY <1>4, <2>1
<1> QED BY <1>1, <1>8, <1>9, <1>10 DEF net!NetworksApart, n, m, Low14

\* A source covers link-local as far as the check can tell, by its prefix, just when it
\* matches the first Run's, the second Run's and the last Run's address.
LEMMA PrefixesCover ==
  ASSUME NEW src \in net!Sources, src # net!NoSource
  PROVE  net!subnet_covers_link_local(src) <=>
           \A ip \in net!RunAddresses : net!Matches(ip, src)
<1> DEFINE M(low) == net!Matches(<<net!LinkLocal, low>>, src)
<1> SUFFICES net!subnet_covers_link_local(src) <=> \A low \in {2, 6, 65534} : M(low)
  <2>1. (\A ip \in net!RunAddresses : net!Matches(ip, src)) <=> \A low \in {2, 6, 65534} : M(low)
    BY DEF net!RunAddresses
  <2> HIDE DEF M
  <2> QED BY <2>1
<1>1. src.prefix \in 0 .. 33
  BY DEF net!Sources, net!BadPrefix
<1>2. CASE src.prefix \in 0 .. 16
  <2>1. src.prefix <= 16 /\ src.prefix \in 0 .. 32
    BY <1>2
  <2>2. ASSUME NEW low \in {2, 6, 65534}
        PROVE  M(low) <=> net!Masked(net!LinkLocal, src.prefix) = net!Masked(src.ip[1], src.prefix)
    BY <2>1 DEF net!Matches, net!NetworkOf
  <2> QED BY <1>2, <2>2 DEF net!subnet_covers_link_local
<1>3. CASE src.prefix \in 17 .. 32
  <2> DEFINE m == net!Pow2[17 - (src.prefix - 16)]
  <2>1. src.prefix \in 0 .. 32 /\ ~(src.prefix <= 16) /\ src.prefix \notin 0 .. 16
    BY <1>3
  <2>2. ASSUME NEW low \in {2, 6, 65534}, M(low)
        PROVE  low - (low % m) = net!Masked(src.ip[2], src.prefix - 16)
    BY <2>1, <2>2 DEF net!Matches, net!NetworkOf, net!Masked
  <2>3. m \in {1, 2, 4, 8, 16, 32, 64, 128, 256, 512, 1024, 2048, 4096, 8192, 16384, 32768}
    <3>1. 17 - (src.prefix - 16) \in 1 .. 16
      BY <1>3
    <3>2. \A i \in 1 .. 16 : net!Pow2[i] \in {1, 2, 4, 8, 16, 32, 64, 128, 256, 512, 1024, 2048, 4096, 8192, 16384, 32768}
      BY DEF net!Pow2
    <3> QED BY <3>1, <3>2
  <2> HIDE DEF m
  <2>4. 2 - (2 % m) # 65534 - (65534 % m)
    BY <2>3
  <2>5. ~(M(2) /\ M(65534))
    <3> SUFFICES ASSUME M(2), M(65534) PROVE FALSE
      OBVIOUS
    <3>1. 2 - (2 % m) = 65534 - (65534 % m)
      BY <2>2
    <3> QED BY <3>1, <2>4
  <2> QED BY <2>1, <2>5 DEF net!subnet_covers_link_local
<1>4. CASE src.prefix = 33
  BY <1>4 DEF net!subnet_covers_link_local, net!Matches
<1>5. src.prefix \in 0 .. 16 \/ src.prefix \in 17 .. 32 \/ src.prefix = 33
  BY <1>1
<1> HIDE DEF M
<1> QED BY <1>2, <1>3, <1>4, <1>5

\* A rule covers the Runs when it accepts and its source covers link-local.
LEMMA Accepting ==
  ASSUME NEW l \in net!Rules
  PROVE  net!CoversRuns(l) <=> /\ l.kind = "rule" /\ l.target = "ACCEPT"
                               /\ l.src # net!NoSource /\ net!subnet_covers_link_local(l.src)
<1> DEFINE src == l.src
<1>1. src \in net!Sources
  BY DEF net!Rules
<1> HIDE DEF src
<1>2. src # net!NoSource => (net!subnet_covers_link_local(src) <=> \A ip \in net!RunAddresses : net!Matches(ip, src))
  BY <1>1, PrefixesCover
<1> QED BY <1>2 DEF net!CoversRuns, src

\* The check refuses just the firewalls whose INPUT drops by policy and which have no rule
\* that covers the Runs.
LEMMA Refused ==
  ASSUME NEW lines \in Seq(net!Rules)
  PROVE  net!enforce_decision(net!parse_iptables_save(lines), FALSE)
           <=> ~net!Drops(lines) \/ \E i \in DOMAIN lines : net!CoversRuns(lines[i])
<1> DEFINE policies == {i \in DOMAIN lines : lines[i].kind = "policy" /\ lines[i].chain = "INPUT"}
           last == CHOOSE i \in policies : \A j \in policies : j <= i
           covered == \E i \in DOMAIN lines :
                        /\ lines[i].kind = "rule" /\ lines[i].target = "ACCEPT"
                        /\ lines[i].src # net!NoSource /\ net!subnet_covers_link_local(lines[i].src)
<1>1. covered <=> \E i \in DOMAIN lines : net!CoversRuns(lines[i])
  <2>1. ASSUME NEW i \in DOMAIN lines
        PROVE  lines[i] \in net!Rules
    BY ElementOfSeq, LenProperties
  <2> QED BY <2>1, Accepting
<1>2. policies # {} => last \in policies /\ \A j \in policies : j <= last
  <2> SUFFICES ASSUME policies # {} PROVE \E i \in policies : \A j \in policies : j <= i
    OBVIOUS
  <2>1. policies \in SUBSET (1 .. Len(lines)) /\ Len(lines) \in Nat
    OBVIOUS
  <2> HIDE DEF policies
  <2> QED BY <2>1, Greatest
<1>3. policies \subseteq Int
  OBVIOUS
<1> HIDE DEF last
<1>4. net!Drops(lines) <=> policies # {} /\ lines[last].target # "ACCEPT"
  <2>1. ASSUME net!Drops(lines) PROVE policies # {} /\ lines[last].target # "ACCEPT"
    <3>1. PICK i \in policies : lines[i].target # "ACCEPT" /\ \A j \in policies : j <= i
      BY <2>1, Zenon DEF net!Drops
    <3> HIDE DEF policies
    <3>2. last \in policies /\ i <= last /\ last <= i
      BY <1>2, <3>1
    <3>3. last \in Int /\ i \in Int
      BY <1>3, <3>2
    <3>4. last = i
      BY <3>2, <3>3
    <3> QED BY <3>1, <3>4
  <2>2. ASSUME policies # {}, lines[last].target # "ACCEPT" PROVE net!Drops(lines)
    BY <1>2, <2>2 DEF net!Drops
  <2> QED BY <2>1, <2>2
<1> HIDE DEF policies
<1>5. net!parse_iptables_save(lines) = IF policies = {} \/ lines[last].target = "ACCEPT" \/ covered
                                       THEN "Permissive" ELSE "Blocked"
  BY DEF net!parse_iptables_save, policies, last
<1>6. net!enforce_decision(net!parse_iptables_save(lines), FALSE)
        <=> policies = {} \/ lines[last].target = "ACCEPT" \/ covered
  BY <1>5 DEF net!enforce_decision
<1> HIDE DEF covered
<1> QED BY <1>1, <1>4, <1>6

\* What the kernel can say of a packet in a chain: nothing, or what a rule says that matches it.
Said(lines, ip, v) ==
  \/ v = "none"
  \/ \E i \in DOMAIN lines : net!Hit(ip, lines[i]) /\ lines[i].target = v /\ v \in net!Targets \ {"RETURN"}

\* No rule returns it to where its chain was called.
Quiet(lines, ip) == \A i \in DOMAIN lines : ~(net!Hit(ip, lines[i]) /\ lines[i].target = "RETURN")

\* In one chain: what is said of the packet is said by a rule that matches it, and something
\* is said when there is a rule that has something to say and none that returns.
LEMMA Walked ==
  ASSUME NEW lines \in Seq(net!Rules), NEW ip, NEW chain, NEW called,
         \A c \in DOMAIN called : Said(lines, ip, called[c])
  PROVE  /\ Said(lines, ip, net!Walk(lines, ip, chain, called))
         /\ \A k \in DOMAIN lines :
              /\ Quiet(lines, ip) /\ lines[k].chain = chain /\ net!Hit(ip, lines[k])
              /\ \/ lines[k].target \in net!Targets
                 \/ lines[k].target \in DOMAIN called /\ called[lines[k].target] # "none"
              => net!Walk(lines, ip, chain, called) # "none"
<1> DEFINE says(l) == IF l.target \in net!Targets THEN l.target
                      ELSE IF l.target \in DOMAIN called THEN called[l.target] ELSE "none"
           deciding == {i \in DOMAIN lines : /\ lines[i].chain = chain /\ net!Hit(ip, lines[i])
                                            /\ says(lines[i]) # "none"}
           first == CHOOSE i \in deciding : \A j \in deciding : i <= j
           w == net!Walk(lines, ip, chain, called)
<1>1. w = IF deciding = {} \/ says(lines[first]) = "RETURN" THEN "none" ELSE says(lines[first])
  BY Zenon DEF net!Walk
<1>2. ASSUME deciding # {} PROVE first \in deciding
  <2>1. deciding \in SUBSET Nat
    OBVIOUS
  <2> HIDE DEF deciding
  <2>2. \E i \in deciding : \A j \in deciding : i <= j
    BY <1>2, <2>1, Least
  <2> QED BY <2>2
<1>3. ASSUME NEW i \in deciding, says(lines[i]) # "RETURN"
      PROVE  Said(lines, ip, says(lines[i]))
  <2>1. CASE lines[i].target \in net!Targets
    BY <1>3, <2>1 DEF Said
  <2>2. CASE lines[i].target \notin net!Targets /\ lines[i].target \in DOMAIN called
    BY <1>3, <2>2
  <2>3. CASE lines[i].target \notin net!Targets /\ lines[i].target \notin DOMAIN called
    BY <2>3 DEF Said
  <2> QED BY <2>1, <2>2, <2>3
<1>4. ASSUME Quiet(lines, ip), NEW i \in deciding
      PROVE  says(lines[i]) # "RETURN"
  <2>1. CASE lines[i].target \in net!Targets
    BY <1>4, <2>1 DEF Quiet
  <2>2. CASE lines[i].target \notin net!Targets /\ lines[i].target \in DOMAIN called
    <3>1. Said(lines, ip, called[lines[i].target])
      BY <2>2
    <3> QED BY <2>2, <3>1 DEF Said, net!Targets
  <2>3. CASE lines[i].target \notin net!Targets /\ lines[i].target \notin DOMAIN called
    BY <2>3
  <2> QED BY <2>1, <2>2, <2>3
<1>5. ASSUME NEW k \in DOMAIN lines, lines[k].chain = chain, net!Hit(ip, lines[k]),
             \/ lines[k].target \in net!Targets
             \/ lines[k].target \in DOMAIN called /\ called[lines[k].target] # "none"
      PROVE  k \in deciding
  <2>1. says(lines[k]) # "none"
    BY <1>5 DEF net!Targets
  <2> QED BY <1>5, <2>1
<1>6. \A i \in deciding : says(lines[i]) # "none"
  OBVIOUS
<1> HIDE DEF says, deciding, first, w
<1>7. Said(lines, ip, w)
  <2>1. CASE deciding = {} \/ says(lines[first]) = "RETURN"
    BY <1>1, <2>1 DEF Said
  <2>2. CASE ~(deciding = {} \/ says(lines[first]) = "RETURN")
    BY <1>1, <1>2, <1>3, <2>2
  <2> QED BY <2>1, <2>2
<1>8. ASSUME Quiet(lines, ip),
             NEW k \in DOMAIN lines, lines[k].chain = chain, net!Hit(ip, lines[k]),
             \/ lines[k].target \in net!Targets
             \/ lines[k].target \in DOMAIN called /\ called[lines[k].target] # "none"
      PROVE  w # "none"
  <2>1. deciding # {}
    BY <1>5, <1>8
  <2>2. first \in deciding
    BY <1>2, <2>1
  <2>3. says(lines[first]) # "RETURN" /\ says(lines[first]) # "none"
    BY <1>4, <1>6, <1>8, <2>2
  <2> QED BY <1>1, <2>1, <2>3
<1> QED BY <1>7, <1>8 DEF w

\* What the kernel says of a packet is said by a rule that matches it; and it says something
\* when a rule that accepts it is in a chain it reaches and none returns.
LEMMA VerdictGiven ==
  ASSUME NEW lines \in Seq(net!Rules), NEW ip
  PROVE  /\ Said(lines, ip, net!Verdict(lines, ip))
         /\ \A k \in DOMAIN lines :
              /\ Quiet(lines, ip) /\ net!Hit(ip, lines[k]) /\ lines[k].target = "ACCEPT"
              /\ net!Reached(lines, ip, lines[k].chain)
              => net!Verdict(lines, ip) # "none"
<1> DEFINE none == [c \in net!Chains(lines) |-> "none"]
           inner == net!WalkAll(lines, ip, none)
           outer == net!WalkAll(lines, ip, inner)
<1>1. ASSUME NEW called, \A c \in DOMAIN called : Said(lines, ip, called[c])
      PROVE  /\ DOMAIN net!WalkAll(lines, ip, called) = net!Chains(lines)
             /\ \A c \in net!Chains(lines) : net!WalkAll(lines, ip, called)[c] = net!Walk(lines, ip, c, called)
             /\ \A c \in DOMAIN net!WalkAll(lines, ip, called) : Said(lines, ip, net!WalkAll(lines, ip, called)[c])
  BY <1>1, Walked DEF net!WalkAll
<1>2. \A c \in DOMAIN none : Said(lines, ip, none[c])
  BY DEF Said
<1>3. net!Verdict(lines, ip) = net!Walk(lines, ip, "INPUT", outer)
  BY Zenon DEF net!Verdict
<1> HIDE DEF none
<1>4. /\ DOMAIN inner = net!Chains(lines)
      /\ \A c \in net!Chains(lines) : inner[c] = net!Walk(lines, ip, c, none)
      /\ \A c \in DOMAIN inner : Said(lines, ip, inner[c])
  BY <1>1, <1>2
<1> HIDE DEF inner
<1>5. /\ DOMAIN outer = net!Chains(lines)
      /\ \A c \in net!Chains(lines) : outer[c] = net!Walk(lines, ip, c, inner)
      /\ \A c \in DOMAIN outer : Said(lines, ip, outer[c])
  BY <1>1, <1>4
<1> HIDE DEF outer
<1>6. Said(lines, ip, net!Verdict(lines, ip))
  BY <1>3, <1>5, Walked
<1>7. ASSUME NEW k \in DOMAIN lines, net!Hit(ip, lines[k]), lines[k].target = "ACCEPT",
             net!Reached(lines, ip, lines[k].chain), Quiet(lines, ip)
      PROVE  net!Verdict(lines, ip) # "none"
  <2> DEFINE c == lines[k].chain
  <2>1. c \in net!Chains(lines) /\ lines[k].target \in net!Targets
    BY <1>7 DEF net!Chains, net!Targets
  <2>2. inner[c] # "none" /\ outer[c] # "none"
    BY <1>2, <1>4, <1>5, <1>7, <2>1, Walked
  <2>3. ASSUME NEW from, NEW to, net!Calls(lines, ip, from, to), outer[to] # "none" \/ inner[to] # "none",
               to \in net!Chains(lines)
        PROVE  /\ from \in net!Chains(lines)
               /\ inner[to] # "none" => outer[from] # "none"
               /\ outer[to] # "none" /\ from = "INPUT" => net!Verdict(lines, ip) # "none"
    <3>1. PICK i \in DOMAIN lines : net!Hit(ip, lines[i]) /\ lines[i].chain = from /\ lines[i].target = to
      BY <2>3, Zenon DEF net!Calls
    <3>2. from \in net!Chains(lines)
      BY <3>1 DEF net!Chains
    <3>3. inner[to] # "none" => outer[from] # "none"
      BY <1>4, <1>5, <1>7, <2>3, <3>1, <3>2, Walked
    <3>4. outer[to] # "none" /\ from = "INPUT" => net!Verdict(lines, ip) # "none"
      BY <1>3, <1>5, <1>7, <2>3, <3>1, Walked
    <3> QED BY <3>2, <3>3, <3>4
  <2>4. CASE c = "INPUT"
    BY <1>3, <1>5, <1>7, <2>1, <2>4, Walked
  <2>5. CASE net!Calls(lines, ip, "INPUT", c)
    BY <2>1, <2>2, <2>3, <2>5
  <2>6. CASE \E m \in net!Chains(lines) : net!Calls(lines, ip, "INPUT", m) /\ net!Calls(lines, ip, m, c)
    <3>1. PICK m \in net!Chains(lines) : net!Calls(lines, ip, "INPUT", m) /\ net!Calls(lines, ip, m, c)
      BY <2>6
    <3>2. outer[m] # "none"
      BY <2>1, <2>2, <2>3, <3>1
    <3> QED BY <2>3, <3>1, <3>2
  <2> HIDE DEF c
  <2> QED BY <1>7, <2>4, <2>5, <2>6 DEF net!Reached, c
<1> QED BY <1>6, <1>7

\* A Run that is let start is dropped only by what the check leaves out, whatever iptables
\* prints.
LEMMA FirewallSound ==
  ASSUME NEW lines \in Seq(net!Rules)
  PROVE  net!FirewallJudged(lines)
<1> DEFINE covering == {i \in DOMAIN lines : net!CoversRuns(lines[i])}
           starts == net!enforce_decision(net!parse_iptables_save(lines), FALSE)
<1>1. starts <=> ~net!Drops(lines) \/ covering # {}
  BY Refused
<1>2. ASSUME starts, NEW ip \in net!RunAddresses, net!Verdict(lines, ip) = "none", net!Drops(lines)
      PROVE  covering # {} /\ \A i \in covering : net!Overlooked(lines, ip, lines[i])
  <2>1. covering # {}
    BY <1>1, <1>2
  <2>2. ASSUME NEW k \in covering, ~net!Overlooked(lines, ip, lines[k]) PROVE FALSE
    <3>1. /\ ~lines[k].narrow /\ ~lines[k].negated /\ net!Reached(lines, ip, lines[k].chain)
          /\ Quiet(lines, ip)
      BY <2>2, Zenon DEF net!Overlooked, Quiet
    <3>2. lines[k].kind = "rule" /\ lines[k].target = "ACCEPT" /\ net!Matches(ip, lines[k].src)
      BY <1>2, <2>2 DEF net!CoversRuns
    <3>3. lines[k] \in net!Rules /\ k \in DOMAIN lines
      BY ElementOfSeq, LenProperties
    <3>4. lines[k].negated \in BOOLEAN /\ net!Matches(ip, lines[k].src) \in BOOLEAN
      BY <3>3 DEF net!Rules, net!Matches
    <3>5. net!Matches(ip, lines[k].src) # lines[k].negated
      BY <3>1, <3>2, <3>4
    <3>6. net!Hit(ip, lines[k])
      BY <3>1, <3>2, <3>5 DEF net!Hit
    <3> QED BY <1>2, <3>1, <3>2, <3>3, <3>6, VerdictGiven
  <2> QED BY <2>1, <2>2
<1>3. ASSUME NEW ip \in net!RunAddresses, net!Verdict(lines, ip) \notin {"ACCEPT", "none"}
      PROVE  \E i \in DOMAIN lines : net!Hit(ip, lines[i]) /\ lines[i].target \in {"DROP", "REJECT"}
  BY <1>3, VerdictGiven DEF Said, net!Targets
<1>4. ~starts => net!Drops(lines) /\ covering = {}
  BY <1>1
<1> HIDE DEF starts
<1>5. ASSUME starts, NEW ip \in net!RunAddresses
      PROVE  CASE net!Verdict(lines, ip) = "ACCEPT" -> TRUE
               [] net!Verdict(lines, ip) = "none" ->
                    (net!Drops(lines) => covering # {} /\ \A i \in covering : net!Overlooked(lines, ip, lines[i]))
               [] OTHER -> \E i \in DOMAIN lines : net!Hit(ip, lines[i]) /\ lines[i].target \in {"DROP", "REJECT"}
  <2> HIDE DEF covering
  <2>1. CASE net!Verdict(lines, ip) = "ACCEPT"
    BY <2>1
  <2>2. CASE net!Verdict(lines, ip) = "none"
    BY <1>2, <1>5, <2>2
  <2>3. CASE net!Verdict(lines, ip) \notin {"ACCEPT", "none"}
    BY <1>3, <1>5, <2>3
  <2> QED BY <2>1, <2>2, <2>3
<1> QED BY <1>4, <1>5, Zenon DEF net!FirewallJudged, starts, covering

-----------------------------------------------------------------------------
(* GuestSpec: the environment, the endpoints and the image *)

\* One environment over another, key by key.
LEMMA Merged ==
  ASSUME NEW f, NEW g, NEW k
  PROVE  /\ k \in DOMAIN spec!Over(f, g) <=> k \in DOMAIN f \/ k \in DOMAIN g
         /\ k \in DOMAIN f => spec!Over(f, g)[k] = f[k]
         /\ k \in DOMAIN g /\ k \notin DOMAIN f => spec!Over(f, g)[k] = g[k]
BY DEF spec!Over

\* The keys of an environment, all from one giver.
LEMMA Given ==
  ASSUME NEW keys, NEW who, NEW k
  PROVE  /\ k \in DOMAIN spec!Env(keys, who) <=> k \in keys
         /\ k \in keys => spec!Env(keys, who)[k] = who
BY DEF spec!Env

\* A default, key by key: what is there stays.
LEMMA Defaulted ==
  ASSUME NEW f, NEW j, NEW v, NEW k
  PROVE  /\ k \in DOMAIN spec!Default(f, j, v) <=> k \in DOMAIN f \/ k = j
         /\ k \in DOMAIN f => spec!Default(f, j, v)[k] = f[k]
         /\ k = j /\ k \notin DOMAIN f => spec!Default(f, j, v)[k] = v
BY Merged, Given DEF spec!Default

\* The agent's environment, whatever it is made of.
LEMMA EnvironmentKept ==
  ASSUME NEW s, s.proxy \in BOOLEAN
  PROVE  spec!AgentEnvironment(s)
<1> DEFINE secrets == spec!Env(s.secrets, "secret")
           users == spec!Env(s.env, "user")
           over == spec!Over(secrets, users)
           pi == IF s.adapter = "pi" THEN spec!Default(over, "PI_CODING_AGENT_DIR", "bunsen") ELSE over
           proxied == spec!Over(spec!Env({"HTTPS_PROXY"}, "proxy"), pi)
           given == spec!build_sandbox_spec_json(s)
           booted == s.pid1 \ {"bunsen_init_debug"}
           homed == spec!Default(given, "HOME", "bunsen")
           final == spec!GuestEnvp(given, s.pid1)
           forced == IF s.proxy THEN {"HTTPS_PROXY"} ELSE {}
           bunsen == {"HOME"} \cup (IF s.proxy THEN {"NO_PROXY"} ELSE {})
                       \cup (IF s.adapter = "pi" THEN {"PI_CODING_AGENT_DIR"} ELSE {})
           layers == <<[who |-> "proxy", keys |-> forced], [who |-> "secret", keys |-> s.secrets],
                       [who |-> "user", keys |-> s.env], [who |-> "bunsen", keys |-> bunsen],
                       [who |-> "pid1", keys |-> booted]>>
<1>1. given = IF s.proxy THEN spec!Default(proxied, "NO_PROXY", "bunsen") ELSE pi
  BY DEF spec!build_sandbox_spec_json, spec!InjectProxy
<1>2. final = spec!Over(homed, spec!Env(booted, "pid1"))
  BY DEF spec!GuestEnvp
<1> SUFFICES ASSUME NEW k
             PROVE  IF \E i \in DOMAIN layers : k \in layers[i].keys
                      THEN /\ k \in DOMAIN final
                           /\ \E i \in DOMAIN layers :
                                /\ k \in layers[i].keys /\ final[k] = layers[i].who
                                /\ \A j \in 1 .. i - 1 : k \notin layers[j].keys
                      ELSE k \notin DOMAIN final
  BY DEF spec!AgentEnvironment
<1>3. /\ k \in DOMAIN over <=> k \in s.secrets \/ k \in s.env
      /\ k \in s.secrets => over[k] = "secret"
      /\ k \in s.env /\ k \notin s.secrets => over[k] = "user"
  BY Merged, Given
<1> HIDE DEF over
<1>4. /\ k \in DOMAIN pi <=> k \in DOMAIN over \/ (s.adapter = "pi" /\ k = "PI_CODING_AGENT_DIR")
      /\ k \in DOMAIN over => pi[k] = over[k]
      /\ k \in DOMAIN pi /\ k \notin DOMAIN over => pi[k] = "bunsen"
  BY Defaulted
<1> HIDE DEF pi
<1>5. /\ k \in DOMAIN proxied <=> k = "HTTPS_PROXY" \/ k \in DOMAIN pi
      /\ k = "HTTPS_PROXY" => proxied[k] = "proxy"
      /\ k # "HTTPS_PROXY" /\ k \in DOMAIN pi => proxied[k] = pi[k]
  BY Merged, Given
<1> HIDE DEF proxied
<1>6. /\ k \in DOMAIN given <=> k \in DOMAIN pi \/ (s.proxy /\ k \in {"HTTPS_PROXY", "NO_PROXY"})
      /\ k \in forced => given[k] = "proxy"
      /\ k \notin forced /\ k \in DOMAIN pi => given[k] = pi[k]
      /\ k \in DOMAIN given /\ k \notin forced /\ k \notin DOMAIN pi => given[k] = "bunsen"
  BY <1>1, <1>5, Defaulted
<1> HIDE DEF given
<1>7. /\ k \in DOMAIN final <=> k \in DOMAIN given \/ k = "HOME" \/ k \in booted
      /\ k \in DOMAIN given => final[k] = given[k]
      /\ k \notin DOMAIN given /\ k = "HOME" => final[k] = "bunsen"
      /\ k \notin DOMAIN given /\ k # "HOME" /\ k \in booted => final[k] = "pid1"
  BY <1>2, Merged, Given, Defaulted
<1> HIDE DEF final, booted
<1>8. k \in DOMAIN final <=> k \in forced \/ k \in s.secrets \/ k \in s.env \/ k \in bunsen \/ k \in booted
  BY <1>3, <1>4, <1>6, <1>7
<1>9. /\ k \in forced => final[k] = "proxy"
      /\ k \notin forced /\ k \in s.secrets => final[k] = "secret"
      /\ k \notin forced /\ k \notin s.secrets /\ k \in s.env => final[k] = "user"
      /\ k \notin forced /\ k \notin s.secrets /\ k \notin s.env /\ k \in bunsen => final[k] = "bunsen"
      /\ k \notin forced /\ k \notin s.secrets /\ k \notin s.env /\ k \notin bunsen /\ k \in booted
           => final[k] = "pid1"
  BY <1>3, <1>4, <1>6, <1>7
<1> HIDE DEF forced, bunsen
<1>10. (\E i \in DOMAIN layers : k \in layers[i].keys) <=> k \in DOMAIN final
  BY <1>8
<1>11. ASSUME k \in DOMAIN final
       PROVE  \E i \in DOMAIN layers : /\ k \in layers[i].keys /\ final[k] = layers[i].who
                                       /\ \A j \in 1 .. i - 1 : k \notin layers[j].keys
  BY <1>8, <1>9, <1>11
<1> HIDE DEF layers
<1> QED BY <1>10, <1>11

\* The first word of a kind is that of the first option of that kind.
LEMMA FirstMarked ==
  ASSUME NEW n \in Nat, NEW m \in Nat, NEW at \in [1 .. n -> 1 .. m],
         \A j, k \in 1 .. n : j < k => at[j] < at[k],
         NEW Words, NEW Kept \in SUBSET (1 .. n),
         \A i \in 1 .. m : i \in Words <=> \E k \in Kept : at[k] = i,
         NEW i \in 1 .. m
  PROVE  i \in Words /\ (\A j \in 1 .. i - 1 : j \notin Words)
           <=> \E k \in Kept : at[k] = i /\ \A j \in 1 .. k - 1 : j \notin Kept
<1>1. ASSUME i \in Words, \A j \in 1 .. i - 1 : j \notin Words
      PROVE  \E k \in Kept : at[k] = i /\ \A j \in 1 .. k - 1 : j \notin Kept
  <2>1. PICK k \in Kept : at[k] = i
    BY <1>1
  <2>2. ASSUME NEW j \in 1 .. k - 1, j \in Kept
        PROVE  FALSE
    <3>1. at[j] < i /\ at[j] \in 1 .. m
      BY <2>1, <2>2
    <3>2. at[j] \in Words
      BY <2>2, <3>1
    <3> QED BY <1>1, <3>1, <3>2
  <2> QED BY <2>1, <2>2
<1>2. ASSUME NEW k \in Kept, at[k] = i, \A j \in 1 .. k - 1 : j \notin Kept
      PROVE  i \in Words /\ (\A j \in 1 .. i - 1 : j \notin Words)
  <2>1. i \in Words
    BY <1>2
  <2>2. ASSUME NEW j \in 1 .. i - 1, j \in Words
        PROVE  FALSE
    <3>1. PICK l \in Kept : at[l] = j
      BY <2>2
    <3>2. ~(k < l) /\ k # l
      BY <1>2, <3>1
    <3>3. l \in 1 .. k - 1
      BY <3>2
    <3> QED BY <1>2, <3>3
  <2> QED BY <2>1, <2>2
<1> QED BY <1>1, <1>2

Laid(cmd, options, at) ==
  /\ options \in Seq(spec!Options) /\ cmd \in Seq(spec!CommandWords) /\ spec!LaidOut(cmd, options, at)

\* What a word of a command laid out is.
LEMMA WordsLaid ==
  ASSUME NEW cmd, NEW options, NEW at, Laid(cmd, options, at)
  PROVE  /\ at \in [1 .. Len(options) -> 1 .. Len(cmd)]
         /\ \A j, k \in 1 .. Len(options) : j < k => at[j] < at[k]
         /\ \A k \in 1 .. Len(options) : options[k] \in spec!Options
         /\ \A k \in 1 .. Len(options) :
              IF options[k].joined
                THEN cmd[at[k]] = spec!Joined(options[k].name, options[k].value)
                ELSE /\ cmd[at[k]] = spec!Flag(options[k].name)
                     /\ at[k] < Len(cmd) /\ cmd[at[k] + 1] = options[k].value
         /\ \A i \in 1 .. Len(cmd) : \/ \E k \in 1 .. Len(options) : i = at[k]
                                     \/ cmd[i] \in spec!Values
<1>1. DOMAIN options = 1 .. Len(options) /\ DOMAIN cmd = 1 .. Len(cmd)
  BY DEF Laid
<1>2. \A k \in 1 .. Len(options) : options[k] \in spec!Options
  BY DEF Laid
<1>3. /\ at \in [1 .. Len(options) -> 1 .. Len(cmd)]
      /\ \A j, k \in 1 .. Len(options) : j < k => at[j] < at[k]
  BY <1>1 DEF Laid, spec!LaidOut
<1>4. \A k \in 1 .. Len(options) :
        IF options[k].joined
          THEN cmd[at[k]] = spec!Joined(options[k].name, options[k].value)
          ELSE /\ cmd[at[k]] = spec!Flag(options[k].name)
               /\ at[k] < Len(cmd) /\ cmd[at[k] + 1] = options[k].value
  BY <1>1 DEF Laid, spec!LaidOut
<1>5. \A i \in 1 .. Len(cmd) : \E k \in 1 .. Len(options) : i = at[k] \/ (~options[k].joined /\ i = at[k] + 1)
  BY <1>1 DEF Laid, spec!LaidOut
<1>6. \A k \in 1 .. Len(options) : options[k].value \in spec!Values
  BY <1>2 DEF spec!Options
<1> QED BY <1>2, <1>3, <1>4, <1>5, <1>6

NamesFlag(options, k, name) ==
  options[k].name = name /\ ~(options[k].joined /\ options[k].value = spec!Empty)
FirstValue(options, name) ==
  {options[k].value : k \in {j \in DOMAIN options :
     NamesFlag(options, j, name) /\ \A i \in 1 .. j - 1 : ~NamesFlag(options, i, name)}}

\* Of a command of two-word options, the first value is found.
LEMMA FlagFound ==
  ASSUME NEW cmd, NEW options, NEW at, Laid(cmd, options, at), NEW name,
         \A k \in DOMAIN options : ~options[k].joined
  PROVE  spec!extract_flag_value(cmd, name) = FirstValue(options, name)
<1> DEFINE n == Len(options)
           m == Len(cmd)
           words == {i \in 1 .. m : cmd[i] = spec!Flag(name)}
           kept == {k \in 1 .. n : NamesFlag(options, k, name)}
           first == {i \in 1 .. m : i \in words /\ \A j \in 1 .. i - 1 : j \notin words}
<1>1. DOMAIN options = 1 .. n /\ DOMAIN cmd = 1 .. m /\ n \in Nat /\ m \in Nat
  BY DEF Laid
<1>2. /\ at \in [1 .. n -> 1 .. m]
      /\ \A j, k \in 1 .. n : j < k => at[j] < at[k]
      /\ \A k \in 1 .. n : cmd[at[k]] = spec!Flag(options[k].name)
      /\ \A k \in 1 .. n : at[k] < m /\ cmd[at[k] + 1] = options[k].value
      /\ \A i \in 1 .. m : (\E k \in 1 .. n : i = at[k]) \/ cmd[i] \in spec!Values
  <2>1. \A k \in 1 .. n : ~options[k].joined
    BY <1>1
  <2>2. at \in [1 .. n -> 1 .. m] /\ \A j, k \in 1 .. n : j < k => at[j] < at[k]
    BY WordsLaid
  <2>3. \A i \in 1 .. m : (\E k \in 1 .. n : i = at[k]) \/ cmd[i] \in spec!Values
    BY WordsLaid
  <2>4. \A k \in 1 .. n :
          IF options[k].joined
            THEN cmd[at[k]] = spec!Joined(options[k].name, options[k].value)
            ELSE /\ cmd[at[k]] = spec!Flag(options[k].name)
                 /\ at[k] < m /\ cmd[at[k] + 1] = options[k].value
    BY WordsLaid
  <2> HIDE DEF n, m, words, kept, first
  <2>5. \A k \in 1 .. n : cmd[at[k]] = spec!Flag(options[k].name)
    BY <2>1, <2>4
  <2>6. \A k \in 1 .. n : at[k] < m /\ cmd[at[k] + 1] = options[k].value
    BY <2>1, <2>4
  <2> QED BY <2>2, <2>3, <2>5, <2>6
<1>3. \A a, b : spec!Flag(a) = spec!Flag(b) <=> a = b
  BY DEF spec!Flag
<1>4. \A v \in spec!Values : v # spec!Flag(name)
  BY DEF spec!Values, spec!Flag
<1>5. \A k \in 1 .. n : k \in kept <=> options[k].name = name
  BY <1>1 DEF NamesFlag
<1>6. \A i \in 1 .. m : i \in words <=> \E k \in kept : at[k] = i
  <2> SUFFICES ASSUME NEW i \in 1 .. m
               PROVE  cmd[i] = spec!Flag(name) <=> \E k \in kept : at[k] = i
    OBVIOUS
  <2> HIDE DEF kept, n, m
  <2>1. ASSUME NEW k \in kept, at[k] = i
        PROVE  cmd[i] = spec!Flag(name)
    BY <1>2, <1>5, <2>1 DEF kept
  <2>2. ASSUME cmd[i] = spec!Flag(name)
        PROVE  \E k \in kept : at[k] = i
    <3>1. PICK k \in 1 .. n : i = at[k]
      BY <1>2, <1>4, <2>2
    <3>2. options[k].name = name
      BY <1>2, <1>3, <2>2, <3>1
    <3> QED BY <1>5, <3>1, <3>2
  <2> QED BY <2>1, <2>2
<1>7. \A i \in 1 .. m : i \in first <=> \E k \in kept : at[k] = i /\ \A j \in 1 .. k - 1 : j \notin kept
  <2> SUFFICES ASSUME NEW i \in 1 .. m
               PROVE  i \in first <=> \E k \in kept : at[k] = i /\ \A j \in 1 .. k - 1 : j \notin kept
    OBVIOUS
  <2>1. kept \in SUBSET (1 .. n)
    OBVIOUS
  <2>2. i \in first <=> i \in words /\ \A j \in 1 .. i - 1 : j \notin words
    OBVIOUS
  <2> HIDE DEF words, kept, n, m, first
  <2> QED BY <1>1, <1>2, <1>6, <2>1, <2>2, FirstMarked
<1>8. spec!extract_flag_value(cmd, name) = {cmd[i + 1] : i \in {j \in first : j < m}}
  BY <1>1 DEF spec!extract_flag_value
<1>9. FirstValue(options, name) = {options[k].value : k \in {j \in kept : \A i \in 1 .. j - 1 : i \notin kept}}
  BY <1>1 DEF FirstValue
<1> DEFINE firsts == {k \in kept : \A i \in 1 .. k - 1 : i \notin kept}
<1>10. \A k \in firsts : at[k] \in first /\ at[k] < m /\ cmd[at[k] + 1] = options[k].value
  BY <1>2, <1>7
<1>11. \A i \in first : \E k \in firsts : at[k] = i
  BY <1>7
<1> HIDE DEF first, firsts
<1>12. {cmd[i + 1] : i \in {j \in first : j < m}} = {options[k].value : k \in firsts}
  BY <1>10, <1>11
<1> QED BY <1>8, <1>9, <1>12 DEF firsts

\* Of any command, the first model that is not empty is found.
LEMMA ModelFound ==
  ASSUME NEW cmd, NEW options, NEW at, Laid(cmd, options, at)
  PROVE  spec!extract_model_from_cmd(cmd) = FirstValue(options, "--model")
<1> DEFINE n == Len(options)
           m == Len(cmd)
           joined(i) == cmd[i].is = "joined" /\ cmd[i].name = "--model" /\ cmd[i].value # spec!Empty
           words == {i \in 1 .. m : joined(i) \/ cmd[i] = spec!Flag("--model")}
           kept == {k \in 1 .. n : NamesFlag(options, k, "--model")}
           first == {i \in 1 .. m : i \in words /\ \A j \in 1 .. i - 1 : j \notin words}
           firsts == {k \in kept : \A i \in 1 .. k - 1 : i \notin kept}
<1>1. DOMAIN options = 1 .. n /\ DOMAIN cmd = 1 .. m /\ n \in Nat /\ m \in Nat
  BY DEF Laid
<1>2. at \in [1 .. n -> 1 .. m] /\ \A j, k \in 1 .. n : j < k => at[j] < at[k]
  BY WordsLaid
<1>3. \A i \in 1 .. m : (\E k \in 1 .. n : i = at[k]) \/ cmd[i] \in spec!Values
  BY WordsLaid
<1>4. \A k \in 1 .. n :
        IF options[k].joined
          THEN cmd[at[k]] = spec!Joined(options[k].name, options[k].value)
          ELSE /\ cmd[at[k]] = spec!Flag(options[k].name)
               /\ at[k] < m /\ cmd[at[k] + 1] = options[k].value
  BY WordsLaid
<1>5. \A i \in 1 .. m : cmd[i] \in spec!Values => i \notin words
  BY DEF spec!Values, spec!Flag
<1>6. ASSUME NEW k \in 1 .. n
      PROVE  /\ at[k] \in words <=> k \in kept
             /\ joined(at[k]) <=> k \in kept /\ options[k].joined
             /\ joined(at[k]) => cmd[at[k]].value = options[k].value
             /\ ~joined(at[k]) /\ k \in kept => at[k] < m /\ cmd[at[k] + 1] = options[k].value
  <2>1. CASE options[k].joined
    <3>1. cmd[at[k]] = spec!Joined(options[k].name, options[k].value)
      BY <1>4, <2>1
    <3>2. /\ cmd[at[k]].is = "joined" /\ cmd[at[k]].name = options[k].name
          /\ cmd[at[k]].value = options[k].value /\ cmd[at[k]] # spec!Flag("--model")
      BY <3>1 DEF spec!Joined, spec!Flag
    <3>3. joined(at[k]) <=> k \in kept
      BY <2>1, <3>2 DEF NamesFlag
    <3>4. at[k] \in words <=> joined(at[k])
      BY <1>2, <3>2
    <3> HIDE DEF joined, words, kept, n, m
    <3> QED BY <2>1, <3>2, <3>3, <3>4
  <2>2. CASE ~options[k].joined
    <3>1. /\ cmd[at[k]] = spec!Flag(options[k].name)
          /\ at[k] < m /\ cmd[at[k] + 1] = options[k].value
      BY <1>4, <2>2
    <3>2. cmd[at[k]].is = "flag" /\ (cmd[at[k]] = spec!Flag("--model") <=> options[k].name = "--model")
      BY <3>1 DEF spec!Flag
    <3>3. ~joined(at[k])
      BY <3>2
    <3>4. at[k] \in words <=> cmd[at[k]] = spec!Flag("--model")
      BY <1>2, <3>3
    <3>5. k \in kept <=> options[k].name = "--model"
      BY <2>2 DEF NamesFlag
    <3> HIDE DEF joined, words, kept, n, m
    <3> QED BY <2>2, <3>1, <3>2, <3>3, <3>4, <3>5
  <2> QED BY <2>1, <2>2
<1>7. \A i \in 1 .. m : i \in words <=> \E k \in kept : at[k] = i
  <2> SUFFICES ASSUME NEW i \in 1 .. m
               PROVE  i \in words <=> \E k \in kept : at[k] = i
    OBVIOUS
  <2> HIDE DEF words, n, m
  <2>1. ASSUME NEW k \in kept, at[k] = i
        PROVE  i \in words
    BY <1>6, <2>1
  <2>2. ASSUME i \in words
        PROVE  \E k \in kept : at[k] = i
    <3>1. PICK k \in 1 .. n : i = at[k]
      BY <1>3, <1>5, <2>2
    <3> HIDE DEF kept
    <3> QED BY <1>6, <2>2, <3>1
  <2> QED BY <2>1, <2>2
<1>8. ASSUME NEW i \in 1 .. m
      PROVE  i \in first <=> \E k \in kept : at[k] = i /\ \A j \in 1 .. k - 1 : j \notin kept
  <2>1. kept \in SUBSET (1 .. n)
    OBVIOUS
  <2>2. i \in first <=> i \in words /\ \A j \in 1 .. i - 1 : j \notin words
    OBVIOUS
  <2> HIDE DEF words, kept, n, m, first
  <2> QED BY <1>1, <1>2, <1>7, <2>1, <2>2, FirstMarked
<1>9. spec!extract_model_from_cmd(cmd)
        = {IF joined(i) THEN cmd[i].value ELSE cmd[i + 1] : i \in {j \in first : joined(j) \/ j < m}}
  <2>1. first = {i \in DOMAIN cmd : /\ joined(i) \/ cmd[i] = spec!Flag("--model")
                                   /\ \A j \in 1 .. i - 1 : ~joined(j) /\ cmd[j] # spec!Flag("--model")}
    BY <1>1
  <2> QED BY <2>1 DEF spec!extract_model_from_cmd
<1>10. FirstValue(options, "--model") = {options[k].value : k \in firsts}
  BY <1>1 DEF FirstValue
<1>11. ASSUME NEW k \in firsts
       PROVE  /\ at[k] \in first /\ (joined(at[k]) \/ at[k] < m)
              /\ (IF joined(at[k]) THEN cmd[at[k]].value ELSE cmd[at[k] + 1]) = options[k].value
  <2>1. k \in 1 .. n /\ k \in kept /\ at[k] \in 1 .. m /\ \A i \in 1 .. k - 1 : i \notin kept
    BY <1>2
  <2> HIDE DEF joined, words, kept, n, m, first, firsts
  <2>2. at[k] \in first
    BY <1>8, <2>1
  <2> QED BY <1>6, <2>1, <2>2
<1>12. \A i \in first : \E k \in firsts : at[k] = i
  <2>1. \A i \in first : i \in 1 .. m
    OBVIOUS
  <2> HIDE DEF joined, words, n, m, first, kept
  <2> QED BY <1>8, <2>1
<1> HIDE DEF joined, first, firsts
<1>13. {IF joined(i) THEN cmd[i].value ELSE cmd[i + 1] : i \in {j \in first : joined(j) \/ j < m}}
         = {options[k].value : k \in firsts}
  BY <1>11, <1>12
<1> QED BY <1>9, <1>10, <1>13

\* Whoever serves the model a command names may be reached, and nobody else.
LEMMA EndpointsDeclared ==
  ASSUME NEW s, NEW options, NEW at, Laid(s.cmd, options, at), s.adapter \in spec!Adapters
  PROVE  spec!ServerDeclared(options, s)
<1> DEFINE model == FirstValue(options, "--model")
           provider == IF s.adapter = "pi" /\ ~\E m \in model : m.slash
                         THEN {p \in FirstValue(options, "--provider") : ~p.slash} ELSE model
           needs == CASE s.adapter = "claude-code" -> {"anthropic"}
                      [] s.adapter = "codex" -> {"openai"}
                      [] s.adapter = "black-box" -> {}
                      [] OTHER -> {m.name : m \in provider} \cap spec!Vendors
<1> SUFFICES ASSUME s.adapter = "pi" => \A i \in DOMAIN options : ~options[i].joined
             PROVE  /\ spec!effective_egress_policy(s) = s.endpoints \cup needs
                    /\ s.image # "none" => spec!resolve_oci_image(s) = s.image
  BY DEF spec!ServerDeclared, FirstValue, NamesFlag
<1>1. s.image # "none" => spec!resolve_oci_image(s) = s.image
  BY DEF spec!resolve_oci_image
<1>2. CASE s.adapter \in {"claude-code", "codex", "black-box"}
  BY <1>1, <1>2 DEF spec!effective_egress_policy
<1>3. CASE s.adapter = "aider"
  <2>1. spec!extract_model_from_cmd(s.cmd) = model
    BY ModelFound
  <2> HIDE DEF model
  <2>2. UNION {spec!egress_endpoints_for_model(m) : m \in model} = {m.name : m \in model} \cap spec!Vendors
    BY DEF spec!egress_endpoints_for_model
  <2>3. needs = {m.name : m \in model} \cap spec!Vendors
    BY <1>3
  <2> QED BY <1>1, <1>3, <2>1, <2>2, <2>3 DEF spec!effective_egress_policy
<1>4. CASE s.adapter = "pi"
  <2>1. spec!extract_flag_value(s.cmd, "--model") = model
    BY <1>4, FlagFound
  <2>2. spec!extract_flag_value(s.cmd, "--provider") = FirstValue(options, "--provider")
    BY <1>4, FlagFound
  <2> HIDE DEF model
  <2>3. spec!egress_endpoints_for_cmd(s.cmd) = {m.name : m \in provider} \cap spec!Vendors
    BY <1>4, <2>1, <2>2 DEF spec!egress_endpoints_for_cmd, spec!Whole
  <2>4. needs = {m.name : m \in provider} \cap spec!Vendors
    BY <1>4
  <2> QED BY <1>1, <1>4, <2>3, <2>4 DEF spec!effective_egress_policy
<1> QED BY <1>2, <1>3, <1>4 DEF spec!Adapters

-----------------------------------------------------------------------------
(* TargetUser *)

\* Root becomes the user that is asked for, or stops, whoever starts the core and however.
LEMMA DropSafe ==
  ASSUME UserAssumption, NEW i \in user!Inputs, NEW env
  PROVE  user!DropIsSafe(i, env)
<1> DEFINE o == user!resolve(i)
           r == user!resolve_and_drop(i, env)
           asked == <<i.as_user,
                      IF i.sudo_uid # "none" /\ i.sudo_user # "none" THEN i.sudo_user ELSE i.sudo_uid,
                      IF i.ruid = "root" THEN "none" ELSE i.ruid>>
           stands_for(a) == \E n \in 1 .. 3 : asked[n] = a /\ \A m \in 1 .. n - 1 : asked[m] = "none"
           by_sudo == i.as_user = "none" /\ i.sudo_uid # "none" /\ i.sudo_gid # "none"
           group(a) == IF by_sudo THEN i.sudo_gid ELSE GroupOf[a]
           Safe == IF i.euid # "root" THEN r.ok /\ r.creds = user!Creds(i) /\ r.env = env
                   ELSE /\ r.ok <=> \E a \in Homes \ {"root"} : stands_for(a)
                        /\ r.ok => \E a \in Homes \ {"root"} :
                             /\ stands_for(a) /\ {r.creds.uids[n] : n \in 1 .. 3} = {a}
                             /\ {r.creds.gids[n] : n \in 1 .. 3} = {group(a)}
                             /\ r.creds.groups = {group(a)} \cup Members[a]
                             /\ {user!sessions_root(r.env).home, user!kernel_cache(r.env).home,
                                 user!rootfs_cache(r.env).home} = {a}
           who == IF asked[1] # "none" THEN asked[1] ELSE IF asked[2] # "none" THEN asked[2] ELSE asked[3]
<1> SUFFICES Safe
  BY DEF user!DropIsSafe, user!None
<1>1. CASE i.euid # "root"
  BY <1>1 DEF user!resolve_and_drop, user!resolve
<1>2. CASE i.euid = "root"
  <2>1. \A a : a # "none" => (stands_for(a) <=> a = who)
    OBVIOUS
  <2>2. /\ who \in Homes \ {"root"} =>
             /\ o.kind = "Drop" /\ o.user = who /\ o.gid = group(who)
        /\ who \notin Homes \ {"root"} => o.kind \notin {"Drop", "NoDrop"}
    BY <1>2 DEF user!resolve, user!finalize, user!Error, user!None, user!Inputs, UserAssumption
  <2>3. user!Creds(i).uids[2] = "root" /\ ~user!Creds(i).failed
    BY <1>2 DEF user!Creds
  <2>4. ASSUME o.kind = "Drop"
        PROVE  /\ ~user!drop_privileges(user!Creds(i), o).failed
               /\ user!drop_privileges(user!Creds(i), o).uids = <<o.user, o.user, o.user>>
               /\ user!drop_privileges(user!Creds(i), o).gids = <<o.gid, o.gid, o.gid>>
               /\ user!drop_privileges(user!Creds(i), o).groups = {o.gid} \cup Members[o.user]
    BY <1>2 DEF user!drop_privileges, user!initgroups, user!setresgid, user!setresuid, user!Call, user!Root, user!Creds
  <2>5. \A w \in Homes : w # "none"
    BY DEF UserAssumption
  <2>6. o.kind = "NoDrop" \/ o.kind = "Drop" => o.kind = "Drop"
    BY <1>2, <2>2
  <2> HIDE DEF stands_for, who
  <2>7. CASE who \in Homes \ {"root"}
    <3> DEFINE fixed == user!apply_env_fixup(who)
    <3>1. /\ r.ok /\ r.creds = user!drop_privileges(user!Creds(i), o) /\ r.env = fixed
      BY <2>2, <2>4, <2>7 DEF user!resolve_and_drop
    <3>2. /\ {r.creds.uids[n] : n \in 1 .. 3} = {who}
          /\ {r.creds.gids[n] : n \in 1 .. 3} = {group(who)}
          /\ r.creds.groups = {group(who)} \cup Members[who]
      BY <2>2, <2>4, <2>7, <3>1
    <3>3. who # "none" /\ stands_for(who)
      BY <2>1, <2>5, <2>7
    <3> HIDE DEF r, o, group
    <3>4. /\ fixed.HOME = user!Path(who, "") /\ fixed.XDG_DATA_HOME = user!Path(who, "data")
          /\ fixed.XDG_CACHE_HOME = user!Path(who, "cache")
      BY DEF user!apply_env_fixup
    <3> HIDE DEF fixed
    <3>5. \A p : user!Path(who, p) # user!Unset /\ user!Path(who, p).home = who
      BY <3>3, Zenon DEF user!Path, user!Unset, user!None
    <3>6. {user!sessions_root(r.env).home, user!kernel_cache(r.env).home, user!rootfs_cache(r.env).home} = {who}
      BY <3>1, <3>4, <3>5, Zenon DEF user!sessions_root, user!kernel_cache, user!rootfs_cache, user!data_home,
           user!cache_home
    <3> QED BY <1>2, <2>7, <3>1, <3>2, <3>3, <3>6 DEF Safe
  <2>8. CASE who \notin Homes \ {"root"}
    <3>1. ~r.ok
      BY <1>2, <2>2, <2>8 DEF user!resolve_and_drop
    <3>2. \A a \in Homes \ {"root"} : ~stands_for(a)
      BY <2>1, <2>5, <2>8
    <3> HIDE DEF r, o, group
    <3> QED BY <1>2, <3>1, <3>2 DEF Safe
  <2> QED BY <2>7, <2>8
<1> QED BY <1>1, <1>2

-----------------------------------------------------------------------------
(* Adapters: events, turn by turn, count by count, call by call *)

\* F is E and one event more.
OneMore(E, F) ==
  /\ Len(E) \in Nat /\ Len(F) = Len(E) + 1 /\ DOMAIN E = 1 .. Len(E) /\ DOMAIN F = 1 .. Len(E) + 1
  /\ \A i \in 1 .. Len(E) : F[i] = E[i]

\* Appending an event.
LEMMA Appended ==
  ASSUME NEW S, NEW E \in Seq(S), NEW e \in S
  PROVE  /\ Append(E, e) \in Seq(S) /\ OneMore(E, Append(E, e)) /\ Append(E, e)[Len(E) + 1] = e
BY DEF OneMore

\* The last turn event before a place, when one event more has come.
LEMMA LastKept ==
  ASSUME NEW E, NEW F, OneMore(E, F), NEW e, IsTurn(e)
  PROVE  /\ \A i \in 1 .. Len(E) + 1 : LastTurn(F, i, e) <=> LastTurn(E, i, e)
         /\ ~IsTurn(F[Len(E) + 1]) => (LastTurn(F, Len(F) + 1, e) <=> LastTurn(E, Len(E) + 1, e))
         /\ IsTurn(F[Len(E) + 1]) => (LastTurn(F, Len(F) + 1, e) <=> e = F[Len(E) + 1])
<1> DEFINE n == Len(E)
<1>1. n \in Nat /\ Len(F) = n + 1 /\ \A i \in 1 .. n : F[i] = E[i]
  BY DEF OneMore
<1> HIDE DEF n
<1>2. ASSUME NEW i \in 1 .. n + 1
      PROVE  LastTurn(F, i, e) <=> LastTurn(E, i, e)
  <2>1. \A j \in 1 .. i - 1 : F[j] = E[j]
    BY <1>1
  <2>2. \A j \in 1 .. i - 1 : \A k \in j + 1 .. i - 1 : IsTurn(F[k]) <=> IsTurn(E[k])
    BY <2>1
  <2> QED BY <2>1, <2>2 DEF LastTurn
<1>3. ASSUME ~IsTurn(F[n + 1])
      PROVE  LastTurn(F, n + 2, e) <=> LastTurn(F, n + 1, e)
  <2>1. ASSUME NEW j \in 1 .. n + 1, F[j] = e, \A k \in j + 1 .. n + 1 : ~IsTurn(F[k])
        PROVE  LastTurn(F, n + 1, e)
    <3>1. j \in 1 .. n /\ \A k \in j + 1 .. n : ~IsTurn(F[k])
      BY <1>1, <1>3, <2>1
    <3> QED BY <1>1, <2>1, <3>1 DEF LastTurn
  <2>2. ASSUME NEW j \in 1 .. n, F[j] = e, \A k \in j + 1 .. n : ~IsTurn(F[k])
        PROVE  LastTurn(F, n + 2, e)
    <3>1. j \in 1 .. n + 1 /\ \A k \in j + 1 .. n + 1 : ~IsTurn(F[k])
      BY <1>1, <1>3, <2>2
    <3> QED BY <1>1, <2>2, <3>1 DEF LastTurn
  <2> QED BY <1>1, <2>1, <2>2 DEF LastTurn
<1>4. ASSUME IsTurn(F[n + 1])
      PROVE  LastTurn(F, n + 2, e) <=> e = F[n + 1]
  <2>1. ASSUME NEW j \in 1 .. n + 1, F[j] = e, \A k \in j + 1 .. n + 1 : ~IsTurn(F[k])
        PROVE  e = F[n + 1]
    BY <1>1, <1>4, <2>1
  <2>2. n + 1 \in 1 .. n + 1 /\ \A k \in n + 2 .. n + 1 : ~IsTurn(F[k])
    BY <1>1
  <2> QED BY <1>1, <2>1, <2>2 DEF LastTurn
<1> QED BY <1>1, <1>2, <1>3, <1>4 DEF n

\* That there is none before a place, when one event more has come.
LEMMA NoneKept ==
  ASSUME NEW E, NEW F, OneMore(E, F)
  PROVE  /\ \A i \in 1 .. Len(E) + 1 : NoTurn(F, i) <=> NoTurn(E, i)
         /\ ~IsTurn(F[Len(E) + 1]) => (NoTurn(F, Len(F) + 1) <=> NoTurn(E, Len(E) + 1))
<1> DEFINE n == Len(E)
<1>1. n \in Nat /\ Len(F) = n + 1 /\ \A i \in 1 .. n : F[i] = E[i]
  BY DEF OneMore
<1> HIDE DEF n
<1>2. ASSUME NEW i \in 1 .. n + 1
      PROVE  NoTurn(F, i) <=> NoTurn(E, i)
  BY <1>1 DEF NoTurn
<1>3. ASSUME ~IsTurn(F[n + 1])
      PROVE  NoTurn(F, n + 2) <=> NoTurn(F, n + 1)
  BY <1>1, <1>3 DEF NoTurn
<1> QED BY <1>1, <1>2, <1>3 DEF n

\* What was counted before a place, when one event more has come.
LEMMA EmittedKept ==
  ASSUME NEW E, NEW F, OneMore(E, F)
  PROVE  /\ \A i \in 1 .. Len(E) + 1 : Emitted(F, i) = Emitted(E, i)
         /\ F[Len(E) + 1].name # "model_usage" => Emitted(F, Len(F) + 1) = Emitted(E, Len(E) + 1)
         /\ F[Len(E) + 1].name = "model_usage" =>
              Emitted(F, Len(F) + 1) = Emitted(E, Len(E) + 1) \cup {F[Len(E) + 1].id}
<1> DEFINE n == Len(E)
<1>1. n \in Nat /\ Len(F) = n + 1 /\ \A i \in 1 .. n : F[i] = E[i]
  BY DEF OneMore
<1> HIDE DEF n
<1>2. ASSUME NEW i \in 1 .. n + 1
      PROVE  Emitted(F, i) = Emitted(E, i)
  BY <1>1 DEF Emitted
<1>3. F[n + 1].name # "model_usage" => Emitted(F, n + 2) = Emitted(F, n + 1)
  BY <1>1 DEF Emitted
<1>4. F[n + 1].name = "model_usage" => Emitted(F, n + 2) = Emitted(F, n + 1) \cup {F[n + 1].id}
  BY <1>1 DEF Emitted
<1> QED BY <1>1, <1>2, <1>3, <1>4 DEF n

-----------------------------------------------------------------------------

\* What TurnsPaired says of one event, and whether a turn that starts has ended.
InOrder(E, i) ==
  /\ E[i].name = "turn_end" => LastTurn(E, i, Ev("turn_start", E[i].id))
  /\ E[i].name = "turn_start" => \/ E[i].id = 1 /\ NoTurn(E, i)
                                 \/ LastTurn(E, i, Ev("turn_end", E[i].id - 1))
Ends(E, i) == \E j \in i + 1 .. Len(E) : E[j] = Ev("turn_end", E[i].id)

\* The turns so far, the last of which is open or not.
Paired(E, turn, open) ==
  /\ \A i \in DOMAIN E : InOrder(E, i)
  /\ \A i \in DOMAIN E : E[i].name = "turn_start" => Ends(E, i) \/ (open /\ E[i].id = turn)
  /\ IF open THEN LastTurn(E, Len(E) + 1, Ev("turn_start", turn))
     ELSE \/ turn = 0 /\ NoTurn(E, Len(E) + 1)
          \/ LastTurn(E, Len(E) + 1, Ev("turn_end", turn))

\* The events of turns.
LEMMA TurnEvents == \A id : IsTurn(Ev("turn_start", id)) /\ IsTurn(Ev("turn_end", id))
BY DEF IsTurn, Ev

\* An event stays in its order, and a turn that has ended stays ended.
LEMMA OrderKept ==
  ASSUME NEW E, NEW F, OneMore(E, F), NEW i \in DOMAIN E
  PROVE  (InOrder(E, i) => InOrder(F, i)) /\ (Ends(E, i) => Ends(F, i))
<1>1. i \in 1 .. Len(E) /\ F[i] = E[i] /\ Len(F) = Len(E) + 1 /\ Len(E) \in Nat
  BY DEF OneMore
<1>2. NoTurn(F, i) <=> NoTurn(E, i)
  BY <1>1, NoneKept
<1>3. \A e : IsTurn(e) => (LastTurn(F, i, e) <=> LastTurn(E, i, e))
  BY <1>1, LastKept
<1>4. InOrder(E, i) => InOrder(F, i)
  BY <1>1, <1>2, <1>3, TurnEvents DEF InOrder
<1>5. Ends(E, i) => Ends(F, i)
  BY <1>1 DEF Ends, OneMore
<1> QED BY <1>4, <1>5

\* An event that is no turn's.
LEMMA PairedOther ==
  ASSUME NEW E, NEW F, OneMore(E, F), NEW turn \in Nat, NEW open \in BOOLEAN, Paired(E, turn, open),
         ~IsTurn(F[Len(F)])
  PROVE  Paired(F, turn, open)
<1>1. Len(E) \in Nat /\ Len(F) = Len(E) + 1 /\ DOMAIN E = 1 .. Len(E) /\ DOMAIN F = 1 .. Len(E) + 1
  BY DEF OneMore
<1>2. \A i \in DOMAIN F : i = Len(F) \/ (i \in DOMAIN E /\ F[i] = E[i])
  BY <1>1 DEF OneMore
<1>3. InOrder(F, Len(F)) /\ F[Len(F)].name # "turn_start"
  BY DEF InOrder, IsTurn
<1>4. \A i \in DOMAIN F : InOrder(F, i)
  BY <1>2, <1>3, OrderKept DEF Paired
<1>5. \A i \in DOMAIN F : F[i].name = "turn_start" => Ends(F, i) \/ (open /\ F[i].id = turn)
  BY <1>2, <1>3, OrderKept DEF Paired
<1>6. /\ NoTurn(F, Len(F) + 1) <=> NoTurn(E, Len(E) + 1)
      /\ \A e : IsTurn(e) => (LastTurn(F, Len(F) + 1, e) <=> LastTurn(E, Len(E) + 1, e))
  BY <1>1, LastKept, NoneKept
<1> QED BY <1>4, <1>5, <1>6, TurnEvents DEF Paired

\* A turn starts after the one before it has ended.
LEMMA PairedStart ==
  ASSUME NEW E, NEW F, OneMore(E, F), NEW turn \in Nat, Paired(E, turn, FALSE),
         F[Len(F)] = Ev("turn_start", turn + 1)
  PROVE  Paired(F, turn + 1, TRUE)
<1>1. Len(E) \in Nat /\ Len(F) = Len(E) + 1 /\ DOMAIN E = 1 .. Len(E) /\ DOMAIN F = 1 .. Len(E) + 1
  BY DEF OneMore
<1>2. \A i \in DOMAIN F : i = Len(F) \/ (i \in DOMAIN E /\ F[i] = E[i])
  BY <1>1 DEF OneMore
<1>3. F[Len(F)].name = "turn_start" /\ F[Len(F)].id = turn + 1
  BY DEF Ev
<1>4. /\ NoTurn(F, Len(F)) <=> NoTurn(E, Len(E) + 1)
      /\ \A e : IsTurn(e) => (LastTurn(F, Len(F), e) <=> LastTurn(E, Len(E) + 1, e))
  BY <1>1, LastKept, NoneKept
<1>5. InOrder(F, Len(F))
  BY <1>3, <1>4, TurnEvents DEF InOrder, Paired
<1>6. \A i \in DOMAIN F : InOrder(F, i)
  BY <1>2, <1>5, OrderKept DEF Paired
<1>7. \A i \in DOMAIN F : F[i].name = "turn_start" => Ends(F, i) \/ F[i].id = turn + 1
  BY <1>2, <1>3, OrderKept DEF Paired
<1>8. LastTurn(F, Len(F) + 1, Ev("turn_start", turn + 1))
  BY <1>1, LastKept, TurnEvents
<1> QED BY <1>6, <1>7, <1>8 DEF Paired

\* The open turn ends.
LEMMA PairedEnd ==
  ASSUME NEW E, NEW F, OneMore(E, F), NEW turn \in Nat, Paired(E, turn, TRUE),
         F[Len(F)] = Ev("turn_end", turn)
  PROVE  Paired(F, turn, FALSE)
<1>1. Len(E) \in Nat /\ Len(F) = Len(E) + 1 /\ DOMAIN E = 1 .. Len(E) /\ DOMAIN F = 1 .. Len(E) + 1
  BY DEF OneMore
<1>2. \A i \in DOMAIN F : i = Len(F) \/ (i \in DOMAIN E /\ F[i] = E[i])
  BY <1>1 DEF OneMore
<1>3. F[Len(F)].name = "turn_end" /\ F[Len(F)].id = turn
  BY DEF Ev
<1>4. \A e : IsTurn(e) => (LastTurn(F, Len(F), e) <=> LastTurn(E, Len(E) + 1, e))
  BY <1>1, LastKept
<1>5. InOrder(F, Len(F))
  BY <1>3, <1>4, TurnEvents DEF InOrder, Paired
<1>6. \A i \in DOMAIN F : InOrder(F, i)
  BY <1>2, <1>5, OrderKept DEF Paired
<1>7. \A i \in DOMAIN F : F[i].name = "turn_start" => Ends(F, i)
  <2> SUFFICES ASSUME NEW i \in DOMAIN F, F[i].name = "turn_start"
               PROVE  Ends(F, i)
    OBVIOUS
  <2>1. i \in DOMAIN E /\ F[i] = E[i] /\ i \in 1 .. Len(E)
    BY <1>1, <1>2, <1>3
  <2>2. CASE Ends(E, i)
    BY <2>1, <2>2, OrderKept
  <2>3. CASE E[i].id = turn
    BY <1>1, <2>1, <2>3 DEF Ends
  <2> QED BY <2>1, <2>2, <2>3 DEF Paired
<1>8. LastTurn(F, Len(F) + 1, Ev("turn_end", turn))
  BY <1>1, LastKept, TurnEvents
<1> QED BY <1>6, <1>7, <1>8 DEF Paired

-----------------------------------------------------------------------------

\* The usage so far, of which the last count may be pending.
Used(E, us, pending) ==
  /\ us \in Seq(BOOLEAN) /\ pending \in Nat
  /\ Emitted(E, Len(E) + 1) = {n \in DOMAIN us : us[n]} \ {pending}
  /\ \A i \in DOMAIN E : E[i].name = "model_usage" => \A n \in Emitted(E, i) : n < E[i].id
  /\ pending # 0 => pending = Len(us) /\ us[pending]

\* An event that counts nothing.
LEMMA UsedOther ==
  ASSUME NEW E, NEW F, OneMore(E, F), NEW us, NEW pending, Used(E, us, pending),
         F[Len(F)].name # "model_usage"
  PROVE  Used(F, us, pending)
<1>1. Len(E) \in Nat /\ Len(F) = Len(E) + 1 /\ DOMAIN E = 1 .. Len(E) /\ DOMAIN F = 1 .. Len(E) + 1
  BY DEF OneMore
<1>2. \A i \in DOMAIN F : i = Len(F) \/ (i \in 1 .. Len(E) /\ i \in DOMAIN E /\ F[i] = E[i])
  BY <1>1 DEF OneMore
<1>3. /\ \A i \in 1 .. Len(E) + 1 : Emitted(F, i) = Emitted(E, i)
      /\ Emitted(F, Len(F) + 1) = Emitted(E, Len(E) + 1)
  BY <1>1, EmittedKept
<1>4. \A i \in DOMAIN F : F[i].name = "model_usage" => \A n \in Emitted(F, i) : n < F[i].id
  BY <1>1, <1>2, <1>3 DEF Used
<1> QED BY <1>3, <1>4 DEF Used

\* A count c is emitted, after which nothing is pending.
LEMMA UsedNew ==
  ASSUME NEW E, NEW F, OneMore(E, F), NEW us, NEW pending, Used(E, us, pending),
         NEW c \in Nat, NEW vs \in Seq(BOOLEAN), F[Len(F)] = Ev("model_usage", c),
         \A n \in Emitted(E, Len(E) + 1) : n < c,
         ({n \in DOMAIN us : us[n]} \ {pending}) \cup {c} = {n \in DOMAIN vs : vs[n]}
  PROVE  Used(F, vs, 0)
<1>1. Len(E) \in Nat /\ Len(F) = Len(E) + 1 /\ DOMAIN E = 1 .. Len(E) /\ DOMAIN F = 1 .. Len(E) + 1
  BY DEF OneMore
<1>2. \A i \in DOMAIN F : i = Len(F) \/ (i \in 1 .. Len(E) /\ i \in DOMAIN E /\ F[i] = E[i])
  BY <1>1 DEF OneMore
<1>3. F[Len(F)].name = "model_usage" /\ F[Len(F)].id = c
  BY DEF Ev
<1>4. /\ \A i \in 1 .. Len(E) + 1 : Emitted(F, i) = Emitted(E, i)
      /\ Emitted(F, Len(F) + 1) = Emitted(E, Len(E) + 1) \cup {c}
  BY <1>1, <1>3, EmittedKept
<1>5. \A i \in DOMAIN F : F[i].name = "model_usage" => \A n \in Emitted(F, i) : n < F[i].id
  BY <1>1, <1>2, <1>3, <1>4 DEF Used
<1>6. 0 \notin DOMAIN vs
  BY LenProperties
<1>7. Emitted(F, Len(F) + 1) = {n \in DOMAIN vs : vs[n]} \ {0}
  BY <1>4, <1>6 DEF Used
<1> QED BY <1>5, <1>7 DEF Used

\* A count that comes at once.
LEMMA UsedAtOnce ==
  ASSUME NEW E, NEW F, OneMore(E, F), NEW us, Used(E, us, 0),
         F[Len(F)] = Ev("model_usage", Len(us) + 1)
  PROVE  Used(F, Append(us, TRUE), 0)
<1> DEFINE vs == Append(us, TRUE)
           c == Len(us) + 1
<1>1. us \in Seq(BOOLEAN) /\ Len(us) \in Nat /\ DOMAIN us = 1 .. Len(us)
  BY DEF Used
<1>2. /\ vs \in Seq(BOOLEAN) /\ DOMAIN vs = 1 .. Len(us) + 1 /\ vs[c] = TRUE
      /\ \A n \in 1 .. Len(us) : vs[n] = us[n]
  BY <1>1
<1>3. Emitted(E, Len(E) + 1) = {n \in DOMAIN us : us[n]} \ {0}
  BY DEF Used
<1>4. \A n \in Emitted(E, Len(E) + 1) : n < c
  BY <1>1, <1>3
<1> HIDE DEF vs
<1>5. ({n \in DOMAIN us : us[n]} \ {0}) \cup {c} = {n \in DOMAIN vs : vs[n]}
  BY <1>1, <1>2
<1>6. c \in Nat
  BY <1>1
<1> HIDE DEF c
<1>7. F[Len(F)] = Ev("model_usage", c)
  BY DEF c
<1>8. Used(F, vs, 0)
  BY <1>2, <1>4, <1>5, <1>6, <1>7, UsedNew
<1> QED BY <1>8 DEF vs

\* A count that was pending.
LEMMA UsedPending ==
  ASSUME NEW E, NEW F, OneMore(E, F), NEW us, NEW pending, Used(E, us, pending), pending # 0,
         F[Len(F)] = Ev("model_usage", pending)
  PROVE  Used(F, us, 0)
<1>1. us \in Seq(BOOLEAN) /\ Len(us) \in Nat /\ DOMAIN us = 1 .. Len(us) /\ pending \in Nat
      /\ pending = Len(us) /\ us[pending]
  BY DEF Used
<1>2. \A n \in Emitted(E, Len(E) + 1) : n < pending
  BY <1>1 DEF Used
<1>3. ({n \in DOMAIN us : us[n]} \ {pending}) \cup {pending} = {n \in DOMAIN us : us[n]}
  BY <1>1
<1> QED BY <1>1, <1>2, <1>3, UsedNew

\* A count that waits.
LEMMA UsedLater ==
  ASSUME NEW E, NEW us, Used(E, us, 0)
  PROVE  Used(E, Append(us, TRUE), Len(us) + 1)
<1> DEFINE vs == Append(us, TRUE)
           c == Len(us) + 1
<1>1. us \in Seq(BOOLEAN) /\ Len(us) \in Nat /\ DOMAIN us = 1 .. Len(us)
  BY DEF Used
<1>2. /\ vs \in Seq(BOOLEAN) /\ Len(vs) = c /\ DOMAIN vs = 1 .. Len(us) + 1 /\ vs[c] = TRUE
      /\ \A n \in 1 .. Len(us) : vs[n] = us[n]
  BY <1>1
<1> HIDE DEF vs
<1>3. {n \in DOMAIN us : us[n]} \ {0} = {n \in DOMAIN vs : vs[n]} \ {c}
  BY <1>1, <1>2
<1>4. Used(E, vs, c)
  BY <1>1, <1>2, <1>3 DEF Used
<1> QED BY <1>4 DEF vs

\* A count that is lost.
LEMMA UsedLost ==
  ASSUME NEW E, NEW us, NEW pending, Used(E, us, pending), pending # 0
  PROVE  Used(E, [us EXCEPT ![pending] = FALSE], 0)
<1> DEFINE vs == [us EXCEPT ![pending] = FALSE]
<1>1. us \in Seq(BOOLEAN) /\ Len(us) \in Nat /\ DOMAIN us = 1 .. Len(us) /\ pending \in 1 .. Len(us)
  BY DEF Used
<1>2. vs \in Seq(BOOLEAN)
  BY <1>1, ExceptSeq
<1>3. DOMAIN vs = 1 .. Len(us) /\ \A n \in 1 .. Len(us) : vs[n] <=> n # pending /\ us[n]
  BY <1>1
<1> HIDE DEF vs
<1>4. {n \in DOMAIN us : us[n]} \ {pending} = {n \in DOMAIN vs : vs[n]} \ {0}
  BY <1>1, <1>3
<1>5. Used(E, vs, 0)
  BY <1>2, <1>4 DEF Used
<1> QED BY <1>5 DEF vs

-----------------------------------------------------------------------------

\* The calls so far.
Called(E, called) ==
  /\ \A i, j \in DOMAIN E : E[i].name = "tool_call" /\ E[j] = E[i] => i = j
  /\ \A i \in DOMAIN E : E[i].name = "tool_result" => \E j \in 1 .. i - 1 : E[j] = Ev("tool_call", E[i].id)
  /\ \A i \in DOMAIN E : E[i].name = "tool_call" => E[i].id \in called
  /\ \A id \in called : \E j \in DOMAIN E : E[j] = Ev("tool_call", id)

\* An event that is no tool's.
LEMMA CalledOther ==
  ASSUME NEW E, NEW F, OneMore(E, F), NEW called, Called(E, called),
         F[Len(F)].name \notin {"tool_call", "tool_result"}
  PROVE  Called(F, called)
<1>1. Len(E) \in Nat /\ Len(F) = Len(E) + 1 /\ DOMAIN E = 1 .. Len(E) /\ DOMAIN F = 1 .. Len(E) + 1
      /\ \A i \in DOMAIN F : i = Len(F) \/ (i \in 1 .. Len(E) /\ i \in DOMAIN E /\ F[i] = E[i])
  BY DEF OneMore
<1>2. \A i, j \in DOMAIN F : F[i].name = "tool_call" /\ F[j] = F[i] => i = j
  BY <1>1 DEF Called
<1>3. \A i \in DOMAIN F : F[i].name = "tool_result" => \E j \in 1 .. i - 1 : F[j] = Ev("tool_call", F[i].id)
  BY <1>1 DEF Called, OneMore
<1>4. \A i \in DOMAIN F : F[i].name = "tool_call" => F[i].id \in called
  BY <1>1 DEF Called
<1>5. \A id \in called : \E j \in DOMAIN F : F[j] = Ev("tool_call", id)
  BY <1>1 DEF Called, OneMore
<1> QED BY <1>2, <1>3, <1>4, <1>5 DEF Called

\* A call that is new.
LEMMA CalledNew ==
  ASSUME NEW E, NEW F, OneMore(E, F), NEW called, Called(E, called), NEW id, id \notin called,
         F[Len(F)] = Ev("tool_call", id)
  PROVE  Called(F, called \cup {id})
<1>1. Len(E) \in Nat /\ Len(F) = Len(E) + 1 /\ DOMAIN E = 1 .. Len(E) /\ DOMAIN F = 1 .. Len(E) + 1
      /\ \A i \in DOMAIN F : i = Len(F) \/ (i \in 1 .. Len(E) /\ i \in DOMAIN E /\ F[i] = E[i])
  BY DEF OneMore
<1>0. F[Len(F)].name = "tool_call" /\ F[Len(F)].id = id
  BY DEF Ev
<1>2. \A i, j \in DOMAIN F : F[i].name = "tool_call" /\ F[j] = F[i] => i = j
  BY <1>0, <1>1 DEF Called
<1>3. \A i \in DOMAIN F : F[i].name = "tool_result" => \E j \in 1 .. i - 1 : F[j] = Ev("tool_call", F[i].id)
  BY <1>0, <1>1 DEF Called, OneMore
<1>4. \A i \in DOMAIN F : F[i].name = "tool_call" => F[i].id \in called \cup {id}
  BY <1>0, <1>1 DEF Called
<1>5. \A k \in called \cup {id} : \E j \in DOMAIN F : F[j] = Ev("tool_call", k)
  BY <1>1 DEF Called, OneMore
<1> QED BY <1>2, <1>3, <1>4, <1>5 DEF Called

\* A result of what was called.
LEMMA CalledResult ==
  ASSUME NEW E, NEW F, OneMore(E, F), NEW called, Called(E, called), NEW id \in called,
         F[Len(F)] = Ev("tool_result", id)
  PROVE  Called(F, called)
<1>1. Len(E) \in Nat /\ Len(F) = Len(E) + 1 /\ DOMAIN E = 1 .. Len(E) /\ DOMAIN F = 1 .. Len(E) + 1
      /\ \A i \in DOMAIN F : i = Len(F) \/ (i \in 1 .. Len(E) /\ i \in DOMAIN E /\ F[i] = E[i])
  BY DEF OneMore
<1>0. F[Len(F)].name = "tool_result" /\ F[Len(F)].id = id
  BY DEF Ev
<1>2. \A i, j \in DOMAIN F : F[i].name = "tool_call" /\ F[j] = F[i] => i = j
  BY <1>0, <1>1 DEF Called
<1>3. \A i \in DOMAIN F : F[i].name = "tool_result" => \E j \in 1 .. i - 1 : F[j] = Ev("tool_call", F[i].id)
  BY <1>0, <1>1 DEF Called, OneMore
<1>4. \A i \in DOMAIN F : F[i].name = "tool_call" => F[i].id \in called
  BY <1>0, <1>1 DEF Called
<1>5. \A k \in called : \E j \in DOMAIN F : F[j] = Ev("tool_call", k)
  BY <1>1 DEF Called, OneMore
<1> QED BY <1>2, <1>3, <1>4, <1>5 DEF Called

-----------------------------------------------------------------------------

\* pi's session totals so far, and the sum of what is counted.
Totalled(E, i, us) == \E n \in 0 .. Len(us) : Emitted(E, i) = 1 .. n /\ 2 * E[i].id = n * (n + 1)
Summed(E, us, total) ==
  /\ us \in Seq(BOOLEAN) /\ total \in Nat
  /\ 2 * total = Len(us) * (Len(us) + 1)
  /\ Emitted(E, Len(E) + 1) = 1 .. Len(us)
  /\ \A i \in DOMAIN E : E[i].name = "session_usage" => Totalled(E, i, us)

\* An event that neither counts nor sums.
LEMMA SummedOther ==
  ASSUME NEW E, NEW F, OneMore(E, F), NEW us, NEW total, Summed(E, us, total),
         F[Len(F)].name \notin {"model_usage", "session_usage"}
  PROVE  Summed(F, us, total)
<1>1. Len(E) \in Nat /\ Len(F) = Len(E) + 1 /\ DOMAIN E = 1 .. Len(E) /\ DOMAIN F = 1 .. Len(E) + 1
      /\ \A i \in DOMAIN F : i = Len(F) \/ (i \in 1 .. Len(E) /\ i \in DOMAIN E /\ F[i] = E[i])
  BY DEF OneMore
<1>2. /\ \A i \in 1 .. Len(E) + 1 : Emitted(F, i) = Emitted(E, i)
      /\ Emitted(F, Len(F) + 1) = Emitted(E, Len(E) + 1)
  BY <1>1, EmittedKept
<1>3. \A i \in DOMAIN F : F[i].name = "session_usage" => Totalled(F, i, us)
  BY <1>1, <1>2 DEF Summed, Totalled
<1> QED BY <1>2, <1>3 DEF Summed

\* A count that is added to the sum: the k-th line counts k.
LEMMA SummedUsage ==
  ASSUME NEW E, NEW F, OneMore(E, F), NEW us, NEW total, Summed(E, us, total),
         F[Len(F)] = Ev("model_usage", Len(us) + 1)
  PROVE  Summed(F, Append(us, TRUE), total + Len(us) + 1)
<1> DEFINE vs == Append(us, TRUE)
           m == Len(us)
<1>1. Len(E) \in Nat /\ Len(F) = Len(E) + 1 /\ DOMAIN E = 1 .. Len(E) /\ DOMAIN F = 1 .. Len(E) + 1
      /\ \A i \in DOMAIN F : i = Len(F) \/ (i \in 1 .. Len(E) /\ i \in DOMAIN E /\ F[i] = E[i])
  BY DEF OneMore
<1>2. F[Len(F)].name = "model_usage" /\ F[Len(F)].id = m + 1
  BY DEF Ev
<1>3. /\ \A i \in 1 .. Len(E) + 1 : Emitted(F, i) = Emitted(E, i)
      /\ Emitted(F, Len(F) + 1) = Emitted(E, Len(E) + 1) \cup {m + 1}
  BY <1>1, <1>2, EmittedKept
<1>4. m \in Nat /\ vs \in Seq(BOOLEAN) /\ Len(vs) = m + 1 /\ total \in Nat
  BY DEF Summed
<1>6. 2 * total = m * (m + 1) /\ Emitted(E, Len(E) + 1) = 1 .. m
  BY DEF Summed
<1> HIDE DEF m, vs
<1>5. Emitted(F, Len(F) + 1) = 1 .. m + 1
  <2>1. (1 .. m) \cup {m + 1} = 1 .. m + 1
    BY <1>4
  <2> QED BY <1>3, <1>6, <2>1
<1>7. 2 * (total + m + 1) = (m + 1) * (m + 1 + 1)
  BY <1>4, <1>6
<1>8. \A i \in DOMAIN F : F[i].name = "session_usage" => Totalled(F, i, vs)
  <2> SUFFICES ASSUME NEW i \in DOMAIN F, F[i].name = "session_usage"
               PROVE  Totalled(F, i, vs)
    OBVIOUS
  <2>1. i \in 1 .. Len(E) /\ i \in DOMAIN E /\ F[i] = E[i] /\ Emitted(F, i) = Emitted(E, i)
    BY <1>1, <1>2, <1>3
  <2>2. PICK n \in 0 .. m : Emitted(E, i) = 1 .. n /\ 2 * E[i].id = n * (n + 1)
    BY <2>1 DEF Summed, Totalled, m
  <2>3. n \in 0 .. Len(vs)
    BY <1>4
  <2> QED BY <2>1, <2>2, <2>3 DEF Totalled
<1>9. Summed(F, vs, total + m + 1)
  BY <1>4, <1>5, <1>7, <1>8 DEF Summed
<1> QED BY <1>9 DEF m, vs

\* The sum is emitted.
LEMMA SummedSession ==
  ASSUME NEW E, NEW F, OneMore(E, F), NEW us, NEW total, Summed(E, us, total),
         F[Len(F)] = Ev("session_usage", total)
  PROVE  Summed(F, us, total)
<1>1. Len(E) \in Nat /\ Len(F) = Len(E) + 1 /\ DOMAIN E = 1 .. Len(E) /\ DOMAIN F = 1 .. Len(E) + 1
      /\ \A i \in DOMAIN F : i = Len(F) \/ (i \in 1 .. Len(E) /\ i \in DOMAIN E /\ F[i] = E[i])
  BY DEF OneMore
<1>2. F[Len(F)].name = "session_usage" /\ F[Len(F)].id = total
  BY DEF Ev
<1>3. /\ \A i \in 1 .. Len(E) + 1 : Emitted(F, i) = Emitted(E, i)
      /\ Emitted(F, Len(F) + 1) = Emitted(E, Len(E) + 1)
  BY <1>1, <1>2, EmittedKept
<1>4. Totalled(F, Len(F), us)
  <2>1. Len(us) \in 0 .. Len(us) /\ Len(F) = Len(E) + 1 /\ Len(F) \in 1 .. Len(E) + 1
    BY <1>1 DEF Summed
  <2>2. Emitted(F, Len(F)) = 1 .. Len(us) /\ 2 * F[Len(F)].id = Len(us) * (Len(us) + 1)
    BY <1>2, <1>3, <2>1 DEF Summed
  <2> QED BY <2>1, <2>2 DEF Totalled
<1>5. \A i \in DOMAIN F : F[i].name = "session_usage" => Totalled(F, i, us)
  BY <1>1, <1>3, <1>4 DEF Summed, Totalled
<1> QED BY <1>3, <1>5 DEF Summed

-----------------------------------------------------------------------------
(* Adapters: what a parser and its events stand for together *)

EventNames == {"output", "turn_start", "turn_end", "model_usage", "session_usage", "tool_call", "tool_result"}
Evs == [name : EventNames, id : Nat \cup Tools]
Parsers == [turn : Nat, open : BOOLEAN, pending : Nat, called : SUBSET Tools, total : Nat]

\* One event after others.
LEMMA OneEvent ==
  ASSUME NEW S, NEW E \in Seq(S), NEW a \in S
  PROVE  E \o <<a>> = Append(E, a) /\ <<a>> \in Seq(S)
BY AppendIsConcat

\* Two events after others.
LEMMA TwoEvents ==
  ASSUME NEW S, NEW E \in Seq(S), NEW a \in S, NEW b \in S
  PROVE  E \o <<a, b>> = Append(Append(E, a), b) /\ <<a, b>> \in Seq(S)
<1>1. <<a>> \in Seq(S) /\ <<b>> \in Seq(S) /\ <<a, b>> \in Seq(S)
  OBVIOUS
<1>2. Append(E, a) = E \o <<a>> /\ Append(E, a) \in Seq(S)
  BY AppendIsConcat
<1>3. Append(Append(E, a), b) = (E \o <<a>>) \o <<b>>
  BY <1>2, AppendIsConcat
<1>4. (E \o <<a>>) \o <<b>> = E \o (<<a>> \o <<b>>)
  BY <1>1, ConcatAssociative
<1>5. <<a>> \o <<b>> = <<a, b>>
  <2> DEFINE t == <<a>> \o <<b>>
  <2>1. Len(<<a>>) = 1 /\ Len(<<b>>) = 1 /\ <<a>>[1] = a /\ <<b>>[1] = b
    OBVIOUS
  <2>2. t \in Seq(S) /\ Len(t) = 2 /\ t[1] = a /\ t[2] = b
    BY <1>1, <2>1, ConcatProperties
  <2> HIDE DEF t
  <2>3. t = <<a, b>>
    BY <1>1, <2>2, SeqEqual
  <2> QED BY <2>3 DEF t
<1> QED BY <1>1, <1>3, <1>4, <1>5

\* What is so of an adapter's events, its parser and the usage it has read.
Stands(a, E, p, us) ==
  /\ E \in Seq(Evs) /\ p \in Parsers
  /\ a \in {"aider", "claude"} => Paired(E, p.turn, p.open)
  /\ Used(E, us, p.pending)
  /\ a # "aider" => p.pending = 0
  /\ a = "codex" => Called(E, p.called)
  /\ a = "pi" => Summed(E, us, p.total)

\* The events of each name.
LEMMA EventTyped ==
  \A id \in Nat \cup Tools :
    /\ Ev("output", id) \in Evs /\ Ev("output", id).name = "output"
    /\ Ev("turn_start", id) \in Evs /\ Ev("turn_start", id).name = "turn_start"
    /\ Ev("turn_end", id) \in Evs /\ Ev("turn_end", id).name = "turn_end"
    /\ Ev("model_usage", id) \in Evs /\ Ev("model_usage", id).name = "model_usage"
    /\ Ev("session_usage", id) \in Evs /\ Ev("session_usage", id).name = "session_usage"
    /\ Ev("tool_call", id) \in Evs /\ Ev("tool_call", id).name = "tool_call"
    /\ Ev("tool_result", id) \in Evs /\ Ev("tool_result", id).name = "tool_result"
BY DEF Ev, Evs, EventNames

\* One event more, of any name.
LEMMA StandsAppended ==
  ASSUME NEW a, NEW E, NEW p, NEW us, Stands(a, E, p, us), NEW e \in Evs
  PROVE  /\ Append(E, e) \in Seq(Evs) /\ OneMore(E, Append(E, e)) /\ Append(E, e)[Len(Append(E, e))] = e
         /\ p.turn \in Nat /\ p.open \in BOOLEAN
BY Appended DEF Stands, OneMore, Parsers

\* An event that changes nothing in the parser.
LEMMA StandsOther ==
  ASSUME NEW a, NEW E, NEW p, NEW us, Stands(a, E, p, us), NEW e \in Evs,
         e.name \in {"output", "tool_call", "tool_result"}, a = "codex" => e.name = "output"
  PROVE  Stands(a, Append(E, e), p, us)
<1> DEFINE F == Append(E, e)
<1>1. F \in Seq(Evs) /\ OneMore(E, F) /\ F[Len(F)] = e /\ p.turn \in Nat /\ p.open \in BOOLEAN
  BY StandsAppended
<1> HIDE DEF F
<1>2. a \in {"aider", "claude"} => Paired(F, p.turn, p.open)
  BY <1>1, PairedOther DEF Stands, IsTurn
<1>3. Used(F, us, p.pending)
  BY <1>1, UsedOther DEF Stands
<1>4. a = "codex" => Called(F, p.called)
  BY <1>1, CalledOther DEF Stands
<1>5. a = "pi" => Summed(F, us, p.total)
  BY <1>1, SummedOther DEF Stands
<1>6. Stands(a, F, p, us)
  BY <1>1, <1>2, <1>3, <1>4, <1>5 DEF Stands
<1> QED BY <1>6 DEF F

\* turn_start: the parser's turn counter goes up.
LEMMA StandsStart ==
  ASSUME NEW a, NEW E, NEW p, NEW us, Stands(a, E, p, us), NEW q \in Parsers,
         q.turn = p.turn + 1, q.pending = p.pending, q.called = p.called, q.total = p.total,
         a \in {"aider", "claude"} => ~p.open /\ q.open
  PROVE  Stands(a, Append(E, Ev("turn_start", p.turn + 1)), q, us)
<1> DEFINE e == Ev("turn_start", p.turn + 1)
           F == Append(E, e)
<1>1. e \in Evs /\ e.name = "turn_start"
  <2>1. p.turn + 1 \in Nat \cup Tools
    BY DEF Stands, Parsers
  <2> QED BY <2>1, EventTyped
<1>2. F \in Seq(Evs) /\ OneMore(E, F) /\ F[Len(F)] = e /\ p.turn \in Nat /\ p.open \in BOOLEAN
  BY <1>1, StandsAppended
<1>3. F[Len(F)] = Ev("turn_start", p.turn + 1)
  BY <1>2
<1> HIDE DEF F, e
<1>4. a \in {"aider", "claude"} => Paired(F, q.turn, q.open)
  <2> SUFFICES ASSUME a \in {"aider", "claude"}
               PROVE  Paired(F, q.turn, q.open)
    OBVIOUS
  <2>1. Paired(E, p.turn, FALSE)
    BY <1>2 DEF Stands
  <2>2. Paired(F, p.turn + 1, TRUE)
    BY <1>2, <1>3, <2>1, PairedStart
  <2> QED BY <2>2 DEF Parsers
<1>5. Used(F, us, q.pending)
  BY <1>1, <1>2, UsedOther DEF Stands
<1>6. a = "codex" => Called(F, q.called)
  BY <1>1, <1>2, CalledOther DEF Stands
<1>7. a = "pi" => Summed(F, us, q.total)
  BY <1>1, <1>2, SummedOther DEF Stands
<1>8. Stands(a, F, q, us)
  BY <1>2, <1>4, <1>5, <1>6, <1>7 DEF Stands
<1> QED BY <1>8 DEF F, e

\* turn_end of the parser's turn.
LEMMA StandsEnd ==
  ASSUME NEW a, NEW E, NEW p, NEW us, Stands(a, E, p, us), NEW q \in Parsers,
         q.turn = p.turn, q.pending = p.pending, q.called = p.called, q.total = p.total,
         a \in {"aider", "claude"} => p.open /\ ~q.open
  PROVE  Stands(a, Append(E, Ev("turn_end", p.turn)), q, us)
<1> DEFINE e == Ev("turn_end", p.turn)
           F == Append(E, e)
<1>1. e \in Evs /\ e.name = "turn_end"
  <2>1. p.turn \in Nat \cup Tools
    BY DEF Stands, Parsers
  <2> QED BY <2>1, EventTyped
<1>2. F \in Seq(Evs) /\ OneMore(E, F) /\ F[Len(F)] = e /\ p.turn \in Nat /\ p.open \in BOOLEAN
  BY <1>1, StandsAppended
<1>3. F[Len(F)] = Ev("turn_end", p.turn)
  BY <1>2
<1> HIDE DEF F, e
<1>4. a \in {"aider", "claude"} => Paired(F, q.turn, q.open)
  <2> SUFFICES ASSUME a \in {"aider", "claude"}
               PROVE  Paired(F, q.turn, q.open)
    OBVIOUS
  <2>1. Paired(E, p.turn, TRUE)
    BY <1>2 DEF Stands
  <2>2. Paired(F, p.turn, FALSE)
    BY <1>2, <1>3, <2>1, PairedEnd
  <2> QED BY <2>2 DEF Parsers
<1>5. Used(F, us, q.pending)
  BY <1>1, <1>2, UsedOther DEF Stands
<1>6. a = "codex" => Called(F, q.called)
  BY <1>1, <1>2, CalledOther DEF Stands
<1>7. a = "pi" => Summed(F, us, q.total)
  BY <1>1, <1>2, SummedOther DEF Stands
<1>8. Stands(a, F, q, us)
  BY <1>2, <1>4, <1>5, <1>6, <1>7 DEF Stands
<1> QED BY <1>8 DEF F, e

\* model_usage of the line that was just read.
LEMMA StandsUsage ==
  ASSUME NEW a, a # "aider", NEW E, NEW p, NEW us, Stands(a, E, p, us), NEW q \in Parsers,
         q.turn = p.turn, q.open = p.open, q.pending = p.pending, q.called = p.called,
         a = "pi" => q.total = p.total + Len(us) + 1
  PROVE  Stands(a, Append(E, Ev("model_usage", Len(us) + 1)), q, Append(us, TRUE))
<1> DEFINE e == Ev("model_usage", Len(us) + 1)
           F == Append(E, e)
<1>0. us \in Seq(BOOLEAN) /\ Len(us) \in Nat
  BY DEF Stands, Used
<1>1. e \in Evs /\ e.name = "model_usage"
  <2>1. Len(us) + 1 \in Nat \cup Tools
    BY <1>0
  <2> QED BY <2>1, EventTyped
<1>2. F \in Seq(Evs) /\ OneMore(E, F) /\ F[Len(F)] = e /\ p.turn \in Nat /\ p.open \in BOOLEAN
  BY <1>1, StandsAppended
<1>3. F[Len(F)] = Ev("model_usage", Len(us) + 1)
  BY <1>2
<1> HIDE DEF F, e
<1>4. a \in {"aider", "claude"} => Paired(F, q.turn, q.open)
  BY <1>1, <1>2, PairedOther DEF Stands, IsTurn
<1>5. Used(F, Append(us, TRUE), q.pending)
  <2>1. q.pending = 0 /\ Used(E, us, 0)
    BY DEF Stands
  <2> QED BY <1>2, <1>3, <2>1, UsedAtOnce
<1>6. a = "codex" => Called(F, q.called)
  BY <1>1, <1>2, CalledOther DEF Stands
<1>7. a = "pi" => Summed(F, Append(us, TRUE), q.total)
  BY <1>2, <1>3, SummedUsage DEF Stands
<1>8. Stands(a, F, q, Append(us, TRUE))
  BY <1>2, <1>4, <1>5, <1>6, <1>7 DEF Stands
<1> QED BY <1>8 DEF F, e

\* model_usage of the line that aider's parser kept.
LEMMA StandsPending ==
  ASSUME NEW E, NEW p, NEW us, Stands("aider", E, p, us), p.pending # 0, NEW q \in Parsers,
         q.turn = p.turn, q.open = p.open, q.pending = 0
  PROVE  Stands("aider", Append(E, Ev("model_usage", p.pending)), q, us)
<1> DEFINE e == Ev("model_usage", p.pending)
           F == Append(E, e)
<1>1. e \in Evs /\ e.name = "model_usage"
  <2>1. p.pending \in Nat \cup Tools
    BY DEF Stands, Parsers
  <2> QED BY <2>1, EventTyped
<1>2. F \in Seq(Evs) /\ OneMore(E, F) /\ F[Len(F)] = e /\ p.turn \in Nat /\ p.open \in BOOLEAN
  BY <1>1, StandsAppended
<1>3. F[Len(F)] = Ev("model_usage", p.pending)
  BY <1>2
<1> HIDE DEF F, e
<1>4. Paired(F, q.turn, q.open)
  BY <1>1, <1>2, PairedOther DEF Stands, IsTurn
<1>5. Used(F, us, q.pending)
  <2>1. Used(E, us, p.pending)
    BY DEF Stands
  <2>2. Used(F, us, 0)
    BY <1>2, <1>3, <2>1, UsedPending
  <2> QED BY <2>2
<1>6. Stands("aider", F, q, us)
  BY <1>2, <1>4, <1>5 DEF Stands
<1> QED BY <1>6 DEF F, e

\* tool_call: codex's parser keeps its id.
LEMMA StandsCall ==
  ASSUME NEW E, NEW p, NEW us, Stands("codex", E, p, us), NEW id \in Tools, id \notin p.called
  PROVE  Stands("codex", Append(E, Ev("tool_call", id)), [p EXCEPT !.called = @ \cup {id}], us)
<1> DEFINE e == Ev("tool_call", id)
           F == Append(E, e)
           q == [p EXCEPT !.called = @ \cup {id}]
<1>1. e \in Evs /\ e.name = "tool_call"
  <2>1. id \in Nat \cup Tools
    BY DEF Stands, Parsers
  <2> QED BY <2>1, EventTyped
<1>2. F \in Seq(Evs) /\ OneMore(E, F) /\ F[Len(F)] = e
  BY <1>1, StandsAppended
<1>3. F[Len(F)] = Ev("tool_call", id)
  BY <1>2
<1>4. q \in Parsers /\ q.pending = p.pending /\ q.called = p.called \cup {id}
  BY DEF Stands, Parsers
<1> HIDE DEF F, e, q
<1>5. Used(F, us, q.pending)
  BY <1>1, <1>2, <1>4, UsedOther DEF Stands
<1>6. Called(F, q.called)
  BY <1>2, <1>3, <1>4, CalledNew DEF Stands
<1>7. Stands("codex", F, q, us)
  BY <1>2, <1>4, <1>5, <1>6 DEF Stands
<1> QED BY <1>7 DEF F, e, q

\* tool_result of an id that codex's parser keeps.
LEMMA StandsResult ==
  ASSUME NEW E, NEW p, NEW us, Stands("codex", E, p, us), NEW id \in p.called
  PROVE  Stands("codex", Append(E, Ev("tool_result", id)), p, us)
<1> DEFINE e == Ev("tool_result", id)
           F == Append(E, e)
<1>1. e \in Evs /\ e.name = "tool_result"
  <2>1. id \in Nat \cup Tools
    BY DEF Stands, Parsers
  <2> QED BY <2>1, EventTyped
<1>2. F \in Seq(Evs) /\ OneMore(E, F) /\ F[Len(F)] = e
  BY <1>1, StandsAppended
<1>3. F[Len(F)] = Ev("tool_result", id)
  BY <1>2
<1> HIDE DEF F, e
<1>5. Used(F, us, p.pending)
  BY <1>1, <1>2, UsedOther DEF Stands
<1>6. Called(F, p.called)
  BY <1>2, <1>3, CalledResult DEF Stands
<1>7. Stands("codex", F, p, us)
  BY <1>2, <1>5, <1>6 DEF Stands
<1> QED BY <1>7 DEF F, e

\* pi's session total.
LEMMA StandsSession ==
  ASSUME NEW E, NEW p, NEW us, Stands("pi", E, p, us)
  PROVE  Stands("pi", Append(E, Ev("session_usage", p.total)), p, us)
<1> DEFINE e == Ev("session_usage", p.total)
           F == Append(E, e)
<1>1. e \in Evs /\ e.name = "session_usage"
  <2>1. p.total \in Nat \cup Tools
    BY DEF Stands, Parsers
  <2> QED BY <2>1, EventTyped
<1>2. F \in Seq(Evs) /\ OneMore(E, F) /\ F[Len(F)] = e
  BY <1>1, StandsAppended
<1>3. F[Len(F)] = Ev("session_usage", p.total)
  BY <1>2
<1> HIDE DEF F, e
<1>5. Used(F, us, p.pending)
  BY <1>1, <1>2, UsedOther DEF Stands
<1>6. Summed(F, us, p.total)
  BY <1>2, <1>3, SummedSession DEF Stands
<1>7. Stands("pi", F, p, us)
  BY <1>2, <1>5, <1>6 DEF Stands
<1> QED BY <1>7 DEF F, e

-----------------------------------------------------------------------------
(* Adapters: the lines of each of them *)

Read(a, p, l, us) ==
  CASE Counts(l) -> Append(us, TRUE)
    [] a = "aider" /\ l.kind = "cost" /\ ~l.ok /\ p.pending # 0 -> [us EXCEPT ![p.pending] = FALSE]
    [] OTHER -> us

IsLine(a, l, us) ==
  /\ l.kind \in LineKinds[a] /\ l.ok \in BOOLEAN /\ l.id \in Tools /\ l.n \in {0, Len(us) + 1}
  /\ l.kind = "tokens" => l.n > 0

\* An output event is an event.
LEMMA OutputTyped == Output \in Evs /\ Output.name = "output"
BY EventTyped DEF Output

\* aider's turn_end_event closes the turn, when there is one (turn_end_event).
LEMMA TurnClosed ==
  ASSUME NEW E, NEW p, NEW us, Stands("aider", E, p, us)
  PROVE  /\ turn_end_event(p) \in Seq(Evs)
         /\ Stands("aider", E \o turn_end_event(p), [p EXCEPT !.open = FALSE], us)
<1> DEFINE q == [p EXCEPT !.open = FALSE]
           e == Ev("turn_end", p.turn)
<1>1. E \in Seq(Evs) /\ p \in Parsers
  BY DEF Stands
<1>2. q \in Parsers /\ q.turn = p.turn /\ q.open = FALSE /\ q.pending = p.pending /\ q.called = p.called /\ q.total = p.total
  BY <1>1 DEF Parsers
<1>3. e \in Evs
  <2>1. p.turn \in Nat \cup Tools
    BY <1>1 DEF Parsers
  <2> QED BY <2>1, EventTyped
<1>4. CASE p.open
  <2>1. turn_end_event(p) = <<e>>
    BY <1>4 DEF turn_end_event
  <2> HIDE DEF q
  <2>2. Stands("aider", Append(E, Ev("turn_end", p.turn)), q, us)
    BY <1>2, <1>4, StandsEnd
  <2>3. E \o <<e>> = Append(E, e) /\ <<e>> \in Seq(Evs)
    <3> HIDE DEF e
    <3> QED BY <1>1, <1>3, OneEvent
  <2> QED BY <2>1, <2>2, <2>3 DEF q
<1>5. CASE ~p.open
  <2>1. turn_end_event(p) = << >>
    BY <1>5 DEF turn_end_event
  <2>2. E \o << >> = E /\ << >> \in Seq(Evs)
    BY <1>1, ConcatEmptySeq, EmptySeq
  <2>3. q = p
    BY <1>1, <1>5 DEF Parsers
  <2> QED BY <2>1, <2>2, <2>3
<1> QED BY <1>4, <1>5

\* aider's pending usage is emitted and its turn closed, or there is none
\* (flush_pending_usage).
LEMMA Flushed ==
  ASSUME NEW E, NEW p, NEW us, Stands("aider", E, p, us)
  PROVE  /\ flush_pending_usage(p).events \in Seq(Evs)
         /\ Stands("aider", E \o flush_pending_usage(p).events, flush_pending_usage(p).parser, us)
         /\ flush_pending_usage(p).parser.pending = 0
         /\ p.pending = 0 => E \o flush_pending_usage(p).events = E /\ flush_pending_usage(p).parser = p
<1> DEFINE f == flush_pending_usage(p)
<1>1. E \in Seq(Evs) /\ p \in Parsers
  BY DEF Stands
<1>2. CASE p.pending = 0
  <2>1. f.events = << >> /\ f.parser = p
    BY <1>2 DEF flush_pending_usage, Res
  <2>2. E \o << >> = E /\ << >> \in Seq(Evs)
    BY <1>1, ConcatEmptySeq
  <2> QED BY <1>2, <2>1, <2>2
<1>3. CASE p.pending # 0
  <2> DEFINE q == [p EXCEPT !.open = FALSE]
             r == [p EXCEPT !.pending = 0, !.open = FALSE]
             e == Ev("model_usage", p.pending)
             t == turn_end_event(p)
  <2>1. f.events = t \o <<e>> /\ f.parser = r
    BY <1>3 DEF flush_pending_usage, Res
  <2>2. t \in Seq(Evs) /\ Stands("aider", E \o t, q, us)
    BY TurnClosed
  <2>3. q.pending = p.pending /\ r \in Parsers /\ r.turn = q.turn /\ r.open = q.open /\ r.pending = 0
    BY <1>1 DEF Parsers
  <2>4. e \in Evs
    <3>1. p.pending \in Nat \cup Tools
      BY <1>1 DEF Parsers
    <3> QED BY <3>1, EventTyped
  <2> HIDE DEF q, r, t, f
  <2>5. Stands("aider", Append(E \o t, Ev("model_usage", q.pending)), r, us)
    BY <1>3, <2>2, <2>3, StandsPending
  <2>6. Append(E \o t, e) = E \o (t \o <<e>>) /\ t \o <<e>> \in Seq(Evs)
    <3>1. E \o t \in Seq(Evs) /\ <<e>> \in Seq(Evs)
      BY <1>1, <2>2, <2>4, ConcatProperties
    <3> HIDE DEF e
    <3>2. Append(E \o t, e) = (E \o t) \o <<e>>
      BY <2>4, <3>1, AppendIsConcat
    <3>3. (E \o t) \o <<e>> = E \o (t \o <<e>>)
      BY <1>1, <2>2, <3>1, ConcatAssociative
    <3> QED BY <2>2, <3>1, <3>2, <3>3, ConcatProperties
  <2> QED BY <1>3, <2>1, <2>3, <2>5, <2>6 DEF f
<1> QED BY <1>2, <1>3

\* A line of aider (AiderLine).
LEMMA AiderFed ==
  ASSUME NEW E, NEW p, NEW us, Stands("aider", E, p, us), NEW l, IsLine("aider", l, us)
  PROVE  Stands("aider", E \o AiderLine(p, l).events, AiderLine(p, l).parser, Read("aider", p, l, us))
<1> DEFINE f == flush_pending_usage(p)
           q == f.parser
           r == AiderLine(p, l)
           vs == Read("aider", p, l, us)
           fe == f.events
           E1 == E \o fe
<1>1. E \in Seq(Evs) /\ p \in Parsers /\ Used(E, us, p.pending)
  BY DEF Stands
<1>2. /\ fe \in Seq(Evs) /\ Stands("aider", E1, q, us) /\ q.pending = 0
      /\ p.pending = 0 => E1 = E /\ q = p
  BY Flushed
<1>3. E1 \in Seq(Evs) /\ q \in Parsers
  BY <1>2 DEF Stands
<1>4. l.kind \in {"model", "prompt", "tokens", "cost", "text"} /\ l.ok \in BOOLEAN /\ l.n \in {0, Len(us) + 1}
  BY DEF IsLine, LineKinds
<1>5. Output \in Evs /\ Output.name = "output"
  BY OutputTyped
<1>6. CASE l.kind = "cost" /\ l.ok /\ p.pending # 0
  <2>1. r = f
    BY <1>6 DEF AiderLine
  <2>2. vs = us
    BY <1>6 DEF Read, Counts
  <2> QED BY <1>2, <2>1, <2>2
<1>7. CASE l.kind = "cost" /\ ~(l.ok /\ p.pending # 0)
  <2> DEFINE p0 == [p EXCEPT !.pending = 0]
  <2>1. r.events = <<Output>> /\ r.parser = p0
    BY <1>7 DEF AiderLine, Res
  <2>2. vs = IF p.pending # 0 THEN [us EXCEPT ![p.pending] = FALSE] ELSE us
    BY <1>4, <1>7 DEF Read, Counts
  <2>3. p0 \in Parsers /\ p0.turn = p.turn /\ p0.open = p.open /\ p0.pending = 0
    BY <1>1 DEF Parsers
  <2>4. Used(E, vs, 0)
    BY <1>1, <2>2, UsedLost, SMTT(30)
  <2> HIDE DEF p0, vs
  <2>5. Stands("aider", E, p0, vs)
    BY <2>3, <2>4 DEF Stands
  <2>6. Stands("aider", Append(E, Output), p0, vs)
    BY <1>5, <2>5, StandsOther
  <2>7. E \o <<Output>> = Append(E, Output)
    BY <1>1, <1>5, AppendIsConcat
  <2> QED BY <2>1, <2>6, <2>7 DEF vs
<1>8. CASE l.kind = "prompt"
  <2> DEFINE t == turn_end_event(q)
             c == [q EXCEPT !.open = FALSE]
             s == Ev("turn_start", q.turn + 1)
             o == [q EXCEPT !.turn = @ + 1, !.open = TRUE]
  <2>1. r.events = fe \o t \o <<s, Output>> /\ r.parser = o
    BY <1>8 DEF AiderLine, Res
  <2>2. vs = us
    BY <1>8 DEF Read, Counts
  <2>3. t \in Seq(Evs) /\ Stands("aider", E1 \o t, c, us)
    BY <1>2, TurnClosed
  <2>4. /\ o \in Parsers /\ o.turn = c.turn + 1 /\ o.pending = c.pending /\ o.called = c.called /\ o.total = c.total
        /\ ~c.open /\ o.open /\ c.turn = q.turn
    <3> HIDE DEF q
    <3>1. q.turn + 1 \in Nat
      BY <1>3 DEF Parsers
    <3>2. o \in Parsers /\ o.turn = q.turn + 1 /\ o.pending = q.pending /\ o.called = q.called
          /\ o.total = q.total /\ o.open = TRUE
      BY <1>3, <3>1 DEF Parsers
    <3>3. c.turn = q.turn /\ c.pending = q.pending /\ c.called = q.called /\ c.total = q.total /\ c.open = FALSE
      BY <1>3 DEF Parsers
    <3> HIDE DEF o, c
    <3> QED BY <3>2, <3>3
  <2>5. s \in Evs
    <3>1. q.turn + 1 \in Nat \cup Tools
      BY <1>3 DEF Parsers
    <3> QED BY <3>1, EventTyped
  <2> HIDE DEF t, c, o, E1, fe, f, q, vs, r
  <2>6. Stands("aider", Append(E1 \o t, Ev("turn_start", c.turn + 1)), o, us)
    BY <2>3, <2>4, StandsStart
  <2> DEFINE E2 == Append(E1 \o t, s)
  <2>7. Stands("aider", E2, o, us)
    BY <2>4, <2>6
  <2> HIDE DEF s
  <2>8. Stands("aider", Append(E2, Output), o, us)
    <3> HIDE DEF E2
    <3> QED BY <1>5, <2>7, StandsOther
  <2>9. Append(E2, Output) = E \o (fe \o t \o <<s, Output>>)
    <3> DEFINE X == E1 \o t
               y == fe \o t
               so == <<s, Output>>
    <3>1. X \in Seq(Evs) /\ y \in Seq(Evs) /\ X = E \o y
      BY <1>1, <1>2, <1>3, <2>3, ConcatProperties, ConcatAssociative DEF E1
    <3> HIDE DEF X, y
    <3>4. \A a, b \in Evs : Append(Append(X, a), b) = X \o <<a, b>> /\ <<a, b>> \in Seq(Evs)
      <4> TAKE a, b \in Evs
      <4> QED BY <3>1, TwoEvents
    <3>2. Append(Append(X, s), Output) = X \o so /\ so \in Seq(Evs)
      BY <1>5, <2>5, <3>4
    <3> HIDE DEF so
    <3>3. (E \o y) \o so = E \o (y \o so)
      BY <1>1, <3>1, <3>2, ConcatAssociative, SMTT(30)
    <3> QED BY <3>1, <3>2, <3>3 DEF X, y, so
  <2> QED BY <2>1, <2>2, <2>8, <2>9 DEF r, vs
<1>9. CASE l.kind = "tokens"
  <2> DEFINE w == [q EXCEPT !.pending = l.n]
  <2>0. us \in Seq(BOOLEAN) /\ Len(us) \in Nat
    BY <1>1 DEF Used
  <2>1. r.events = fe /\ r.parser = w /\ l.n = Len(us) + 1
    BY <1>4, <1>9, <2>0 DEF AiderLine, Res, IsLine
  <2>2. vs = Append(us, TRUE)
    <3>1. l.n > 0
      BY <2>0, <2>1
    <3> QED BY <1>9, <3>1 DEF Read, Counts
  <2>3. w \in Parsers /\ w.turn = q.turn /\ w.open = q.open /\ w.pending = Len(us) + 1
    <3>1. l.n \in Nat /\ l.n = Len(us) + 1
      BY <2>0, <2>1
    <3> HIDE DEF q
    <3> QED BY <1>3, <3>1 DEF Parsers
  <2> HIDE DEF w, E1, fe, q, f, vs, r
  <2>4. Used(E1, us, 0)
    BY <1>2 DEF Stands
  <2>5. Used(E1, Append(us, TRUE), w.pending)
    BY <2>3, <2>4, UsedLater
  <2>6. Stands("aider", E1, w, vs)
    BY <1>2, <2>2, <2>3, <2>5 DEF Stands
  <2> QED BY <2>1, <2>6 DEF r, vs, E1
<1>10. CASE l.kind \in {"model", "text"}
  <2>1. r.events = fe \o <<Output>> /\ r.parser = q
    BY <1>10 DEF AiderLine, Res
  <2>2. vs = us
    BY <1>10 DEF Read, Counts
  <2> HIDE DEF E1, fe, q, f, vs, r
  <2>3. Stands("aider", Append(E1, Output), q, us)
    BY <1>2, <1>5, StandsOther
  <2>4. Append(E1, Output) = E1 \o <<Output>> /\ <<Output>> \in Seq(Evs)
    BY <1>3, <1>5, AppendIsConcat
  <2>5. E1 \o <<Output>> = E \o (fe \o <<Output>>)
    BY <1>1, <1>2, <2>4, ConcatAssociative DEF E1
  <2> QED BY <2>1, <2>2, <2>3, <2>4, <2>5 DEF r, vs
<1> QED BY <1>4, <1>6, <1>7, <1>8, <1>9, <1>10

\* No event.
LEMMA StandsNothing ==
  ASSUME NEW a, NEW E, NEW p, NEW us, Stands(a, E, p, us)
  PROVE  E \o << >> = E /\ << >> \in Seq(Evs)
BY ConcatEmptySeq, EmptySeq DEF Stands

\* One output event.
LEMMA StandsOutput ==
  ASSUME NEW a, NEW E, NEW p, NEW us, Stands(a, E, p, us)
  PROVE  Stands(a, E \o <<Output>>, p, us) /\ <<Output>> \in Seq(Evs)
<1>1. Stands(a, Append(E, Output), p, us)
  BY OutputTyped, StandsOther
<1>2. E \o <<Output>> = Append(E, Output) /\ <<Output>> \in Seq(Evs)
  BY OutputTyped, OneEvent DEF Stands
<1> QED BY <1>1, <1>2

UsageOf(n) == IF n > 0 THEN <<Ev("model_usage", n)>> ELSE << >>
Counted(us, n) == IF n > 0 THEN Append(us, TRUE) ELSE us

\* model_usage when the line counts something.
LEMMA StandsUsed ==
  ASSUME NEW a, a # "aider", NEW E, NEW p, NEW us, Stands(a, E, p, us), NEW n \in {0, Len(us) + 1},
         NEW q \in Parsers, q.turn = p.turn, q.open = p.open, q.pending = p.pending, q.called = p.called,
         a = "pi" => q.total = p.total + n
  PROVE  UsageOf(n) \in Seq(Evs) /\ Stands(a, E \o UsageOf(n), q, Counted(us, n))
<1>1. us \in Seq(BOOLEAN) /\ Len(us) \in Nat /\ p \in Parsers /\ E \in Seq(Evs)
  BY DEF Stands, Used
<1>2. CASE n = 0
  <2>1. q.total = p.total \/ a # "pi"
    BY <1>1, <1>2 DEF Parsers
  <2>2. Stands(a, E, q, us)
    BY <2>1 DEF Stands
  <2> QED BY <1>2, <2>2, StandsNothing DEF UsageOf, Counted
<1>3. CASE n # 0
  <2> DEFINE e == Ev("model_usage", Len(us) + 1)
  <2>1. n = Len(us) + 1 /\ n > 0
    BY <1>1, <1>3
  <2>2. a = "pi" => q.total = p.total + Len(us) + 1
    BY <1>1, <2>1 DEF Parsers
  <2>3. Stands(a, Append(E, e), q, Append(us, TRUE))
    BY <2>2, StandsUsage
  <2>4. e \in Evs
    <3>1. Len(us) + 1 \in Nat \cup Tools
      BY <1>1
    <3> QED BY <3>1, EventTyped
  <2> HIDE DEF e
  <2>5. E \o <<e>> = Append(E, e) /\ <<e>> \in Seq(Evs)
    BY <1>1, <2>4, OneEvent
  <2> QED BY <2>1, <2>3, <2>5 DEF e, UsageOf, Counted
<1> QED BY <1>2, <1>3

\* The lines of claude-code.
LEMMA ClaudeFed ==
  ASSUME NEW E, NEW p, NEW us, Stands("claude", E, p, us), ~p.open, NEW l, IsLine("claude", l, us)
  PROVE  /\ Stands("claude", E \o ClaudeLine(p, l).events, ClaudeLine(p, l).parser, Read("claude", p, l, us))
         /\ ~ClaudeLine(p, l).parser.open
<1> DEFINE r == ClaudeLine(p, l)
           vs == Read("claude", p, l, us)
<1>1. E \in Seq(Evs) /\ p \in Parsers
  BY DEF Stands
<1>2. /\ l.kind \in {"assistant", "user", "result", "system", "text"}
      /\ l.ok \in BOOLEAN /\ l.id \in Nat \cup Tools /\ l.n \in {0, Len(us) + 1}
  BY DEF IsLine, LineKinds
<1>3. CASE l.kind = "assistant"
  <2> DEFINE turn == p.turn + 1
             calls == IF l.ok THEN <<Output, Ev("tool_call", l.id)>> ELSE << >>
             q == [p EXCEPT !.turn = turn]
             o == [p EXCEPT !.turn = turn, !.open = TRUE]
             s == Ev("turn_start", turn)
             e == Ev("turn_end", turn)
             E1 == Append(E, s)
             E2 == E1 \o calls
  <2>1. r.events = <<s>> \o calls \o <<e>> /\ r.parser = q
    BY <1>3 DEF ClaudeLine, parse_assistant, Res
  <2>2. vs = us
    BY <1>3 DEF Read, Counts
  <2>3. turn \in Nat
    BY <1>1 DEF Parsers
  <2>4. s \in Evs /\ e \in Evs
    BY <2>3, EventTyped
  <2>5. o \in Parsers /\ o.turn = p.turn + 1 /\ o.pending = p.pending /\ o.called = p.called /\ o.total = p.total
        /\ o.open = TRUE /\ o.turn = turn
    BY <1>1, <2>3 DEF Parsers
  <2>6. q \in Parsers /\ q.turn = turn /\ q.pending = p.pending /\ q.called = p.called /\ q.total = p.total
        /\ q.open = p.open
    BY <1>1, <2>3 DEF Parsers
  <2> HIDE DEF o, q
  <2>7. Stands("claude", E1, o, us)
    BY <2>5, StandsStart
  <2> HIDE DEF E1
  <2>8. Stands("claude", E2, o, us) /\ calls \in Seq(Evs)
    <3>1. CASE l.ok
      <4> DEFINE c == Ev("tool_call", l.id)
      <4>1. c \in Evs /\ c.name = "tool_call"
        BY <1>2, EventTyped
      <4> HIDE DEF c
      <4>2. Stands("claude", Append(E1, Output), o, us)
        BY <2>7, OutputTyped, StandsOther
      <4>3. Stands("claude", Append(Append(E1, Output), c), o, us)
        BY <4>1, <4>2, StandsOther
      <4>4. \A a, b \in Evs : Append(Append(E1, a), b) = E1 \o <<a, b>> /\ <<a, b>> \in Seq(Evs)
        <5> TAKE a, b \in Evs
        <5> QED BY <2>7, TwoEvents DEF Stands
      <4>5. Append(Append(E1, Output), c) = E1 \o <<Output, c>> /\ <<Output, c>> \in Seq(Evs)
        BY <4>1, <4>4, OutputTyped
      <4> QED BY <3>1, <4>3, <4>5 DEF c
    <3>2. CASE ~l.ok
      BY <2>7, <3>2, StandsNothing
    <3> QED BY <3>1, <3>2
  <2>9. Stands("claude", Append(E2, Ev("turn_end", o.turn)), q, us)
    <3> HIDE DEF E2, calls
    <3> QED BY <2>5, <2>6, <2>8, StandsEnd
  <2> HIDE DEF s, e, calls, E2
  <2>10. Append(E2, e) = E \o (<<s>> \o calls \o <<e>>)
    <3> DEFINE one == <<s>>
               z == <<e>>
               y == one \o calls
    <3>1. E1 = E \o one /\ one \in Seq(Evs) /\ z \in Seq(Evs)
      BY <1>1, <2>4, OneEvent DEF E1
    <3>2. E2 = E1 \o calls /\ E2 \in Seq(Evs)
      BY <2>8 DEF E2, Stands
    <3>3. Append(E2, e) = E2 \o z
      BY <2>4, <3>2, OneEvent
    <3> HIDE DEF one, z
    <3>4. y \in Seq(Evs) /\ (E \o one) \o calls = E \o y
      BY <1>1, <2>8, <3>1, ConcatAssociative, ConcatProperties, SMTT(30)
    <3> HIDE DEF y
    <3>5. (E \o y) \o z = E \o (y \o z)
      BY <1>1, <3>1, <3>4, ConcatAssociative, SMTT(30)
    <3> QED BY <3>1, <3>2, <3>3, <3>4, <3>5 DEF one, y, z
  <2> QED BY <2>1, <2>2, <2>5, <2>6, <2>9, <2>10 DEF e
<1>4. CASE l.kind = "user"
  <2> DEFINE e == Ev("tool_result", l.id)
  <2>1. r.events = (IF l.ok THEN <<e>> ELSE << >>) /\ r.parser = p
    BY <1>4 DEF ClaudeLine, parse_user, Res
  <2>2. vs = us
    BY <1>4 DEF Read, Counts
  <2>3. e \in Evs /\ e.name = "tool_result"
    BY <1>2, EventTyped
  <2> HIDE DEF e
  <2>4. Stands("claude", E \o <<e>>, p, us)
    BY <1>1, <2>3, StandsOther, OneEvent
  <2>5. Stands("claude", E \o << >>, p, us)
    BY StandsNothing
  <2> QED BY <1>2, <2>1, <2>2, <2>4, <2>5
<1>5. CASE l.kind = "result"
  <2> DEFINE o == IF l.ok THEN << >> ELSE <<Output>>
             u == UsageOf(l.n)
             E1 == E \o o
  <2>1. r.events = o \o u /\ r.parser = p
    BY <1>5 DEF ClaudeLine, parse_result, Res, UsageOf
  <2>2. vs = Counted(us, l.n)
    BY <1>5 DEF Read, Counts, Counted
  <2>3. Stands("claude", E1, p, us) /\ o \in Seq(Evs)
    BY StandsOutput, StandsNothing
  <2> HIDE DEF E1
  <2>4. u \in Seq(Evs) /\ Stands("claude", E1 \o u, p, Counted(us, l.n))
    <3>1. l.n \in {0, Len(us) + 1} /\ p \in Parsers /\ Stands("claude", E1, p, us)
      BY <1>1, <1>2, <2>3
    <3> HIDE DEF u
    <3>2. UsageOf(l.n) \in Seq(Evs) /\ Stands("claude", E1 \o UsageOf(l.n), p, Counted(us, l.n))
      BY <3>1, StandsUsed
    <3> QED BY <3>2 DEF u
  <2> HIDE DEF u, o
  <2>5. E1 \o u = E \o (o \o u)
    BY <1>1, <2>3, <2>4, ConcatAssociative DEF E1
  <2> QED BY <2>1, <2>2, <2>4, <2>5
<1>6. CASE l.kind \in {"system", "text"}
  <2>1. r.events = (IF l.kind = "text" THEN <<Output>> ELSE << >>) /\ r.parser = p
    BY <1>6 DEF ClaudeLine, Res
  <2>2. vs = us
    BY <1>6 DEF Read, Counts
  <2> QED BY <2>1, <2>2, StandsOutput, StandsNothing
<1> QED BY <1>2, <1>3, <1>4, <1>5, <1>6

\* The lines of codex.
LEMMA CodexCalled ==
  ASSUME NEW E, NEW p, NEW us, Stands("codex", E, p, us), NEW id \in Tools
  PROVE  /\ Stands("codex", E \o Call(p, id).events, Call(p, id).parser, us)
         /\ Call(p, id).events \in Seq(Evs) /\ id \in Call(p, id).parser.called
<1>1. E \in Seq(Evs) /\ p \in Parsers
  BY DEF Stands
<1>2. CASE id \in p.called
  <2>1. Call(p, id).events = << >> /\ Call(p, id).parser = p
    BY <1>2 DEF Call, Res
  <2> QED BY <1>2, <2>1, StandsNothing
<1>3. CASE id \notin p.called
  <2> DEFINE e == Ev("tool_call", id)
             q == [p EXCEPT !.called = @ \cup {id}]
  <2>1. Call(p, id).events = <<e>> /\ Call(p, id).parser = q
    BY <1>3 DEF Call, Res
  <2>2. id \in q.called
    BY <1>1 DEF Parsers
  <2>3. Stands("codex", Append(E, e), q, us)
    BY <1>3, StandsCall
  <2>4. e \in Evs
    BY EventTyped
  <2> HIDE DEF e
  <2>5. E \o <<e>> = Append(E, e) /\ <<e>> \in Seq(Evs)
    BY <1>1, <2>4, OneEvent
  <2> QED BY <2>1, <2>2, <2>3, <2>5
<1> QED BY <1>2, <1>3

\* A turn of codex or of pi starts.
LEMMA StandsStarted ==
  ASSUME NEW a \in {"codex", "pi"}, NEW E, NEW p, NEW us, Stands(a, E, p, us)
  PROVE  Stands(a, E \o <<Ev("turn_start", p.turn + 1)>>, [p EXCEPT !.turn = @ + 1], us)
<1> DEFINE e == Ev("turn_start", p.turn + 1)
           q == [p EXCEPT !.turn = @ + 1]
<1>1. E \in Seq(Evs) /\ p \in Parsers /\ p.turn + 1 \in Nat
  BY DEF Stands, Parsers
<1>2. /\ q \in Parsers /\ q.turn = p.turn + 1 /\ q.pending = p.pending /\ q.called = p.called
      /\ q.total = p.total
  BY <1>1 DEF Parsers
<1> HIDE DEF q
<1>3. Stands(a, Append(E, e), q, us)
  BY <1>2, StandsStart
<1>4. e \in Evs
  BY <1>1, EventTyped
<1> HIDE DEF e
<1>5. E \o <<e>> = Append(E, e)
  BY <1>1, <1>4, OneEvent
<1> QED BY <1>3, <1>5 DEF e, q

\* A turn of codex or of pi ends, and its usage comes with it.
LEMMA StandsEnded ==
  ASSUME NEW a \in {"codex", "pi"}, NEW E, NEW p, NEW us, Stands(a, E, p, us), NEW n \in {0, Len(us) + 1},
         NEW q \in Parsers, q.turn = p.turn, q.open = p.open, q.pending = p.pending, q.called = p.called,
         a = "pi" => q.total = p.total + n
  PROVE  Stands(a, E \o (<<Ev("turn_end", p.turn)>> \o UsageOf(n)), q, Counted(us, n))
<1> DEFINE e == Ev("turn_end", p.turn)
           one == <<e>>
           u == UsageOf(n)
           E1 == E \o one
<1>1. E \in Seq(Evs) /\ p \in Parsers /\ p.turn \in Nat
  BY DEF Stands, Parsers
<1>2. Stands(a, Append(E, e), p, us)
  BY <1>1, StandsEnd
<1>3. e \in Evs
  BY <1>1, EventTyped
<1> HIDE DEF e
<1>4. E1 = Append(E, e)
  BY <1>1, <1>3, OneEvent
<1>8. one \in Seq(Evs)
  BY <1>1, <1>3, OneEvent
<1> HIDE DEF E1, one
<1>5. Stands(a, E1, p, us)
  BY <1>2, <1>4
<1>6. u \in Seq(Evs) /\ Stands(a, E1 \o u, q, Counted(us, n))
  BY <1>5, StandsUsed
<1> HIDE DEF u
<1>7. E1 \o u = E \o (one \o u)
  BY <1>1, <1>6, <1>8, ConcatAssociative DEF E1
<1> QED BY <1>6, <1>7 DEF e, one, u

\* A line of codex (CodexLine).
LEMMA CodexFed ==
  ASSUME NEW E, NEW p, NEW us, Stands("codex", E, p, us), NEW l, IsLine("codex", l, us)
  PROVE  Stands("codex", E \o CodexLine(p, l).events, CodexLine(p, l).parser, Read("codex", p, l, us))
<1> DEFINE r == CodexLine(p, l)
           vs == Read("codex", p, l, us)
           c == Call(p, l.id)
<1>1. E \in Seq(Evs) /\ p \in Parsers
  BY DEF Stands
<1>2. /\ l.kind \in {"turn.started", "item.started", "item.completed", "agent_message", "turn.completed", "text"}
      /\ l.ok \in BOOLEAN /\ l.id \in Tools /\ l.n \in {0, Len(us) + 1}
  BY DEF IsLine, LineKinds
<1>3. l.kind # "turn.completed" => vs = us
  BY <1>2 DEF Read, Counts
<1>4. /\ Stands("codex", E \o c.events, c.parser, us)
      /\ c.events \in Seq(Evs) /\ l.id \in c.parser.called
  BY <1>2, CodexCalled
<1>5. CASE l.kind = "turn.started"
  <2>1. r.events = <<Ev("turn_start", p.turn + 1)>> /\ r.parser = [p EXCEPT !.turn = @ + 1]
    BY <1>5 DEF CodexLine, Res
  <2> QED BY <1>3, <1>5, <2>1, StandsStarted
<1>6. CASE l.kind = "item.started"
  <2>1. IF l.ok THEN r = c ELSE r.events = << >> /\ r.parser = p
    BY <1>6 DEF CodexLine, handle_item_started, Res
  <2> QED BY <1>2, <1>3, <1>4, <1>6, <2>1, StandsNothing
<1>7. CASE l.kind = "item.completed"
  <2> DEFINE e == Ev("tool_result", l.id)
             one == <<e>>
             ce == c.events
             E1 == E \o ce
  <2>1. IF l.ok THEN r.events = ce \o one /\ r.parser = c.parser ELSE r.events = << >> /\ r.parser = p
    BY <1>7 DEF CodexLine, handle_item_completed, Res
  <2>2. e \in Evs
    BY <1>2, EventTyped
  <2>3. Stands("codex", E1, c.parser, us) /\ E1 \in Seq(Evs) /\ ce \in Seq(Evs)
    BY <1>4 DEF Stands
  <2> HIDE DEF c, ce, E1
  <2>4. Stands("codex", Append(E1, e), c.parser, us)
    BY <1>4, <2>3, StandsResult
  <2> HIDE DEF e
  <2>5. E1 \o one = Append(E1, e)
    BY <2>2, <2>3, OneEvent
  <2>10. one \in Seq(Evs)
    BY <2>2, <2>3, OneEvent
  <2> HIDE DEF one
  <2>6. E1 \o one = E \o (ce \o one)
    BY <1>1, <2>3, <2>10, ConcatAssociative DEF E1
  <2>7. vs = us
    BY <1>3, <1>7
  <2> HIDE DEF r, vs
  <2>8. CASE l.ok
    BY <2>1, <2>4, <2>5, <2>6, <2>7, <2>8 DEF r, vs
  <2>9. CASE ~l.ok
    BY <2>1, <2>7, <2>9, StandsNothing DEF r, vs
  <2> QED BY <2>8, <2>9
<1>8. CASE l.kind = "turn.completed"
  <2>1. r.events = <<Ev("turn_end", p.turn)>> \o UsageOf(l.n) /\ r.parser = p
    BY <1>8 DEF CodexLine, handle_turn_completed, Res, UsageOf
  <2>2. vs = Counted(us, l.n)
    BY <1>8 DEF Read, Counts, Counted
  <2>3. Stands("codex", E \o (<<Ev("turn_end", p.turn)>> \o UsageOf(l.n)), p, Counted(us, l.n))
    BY <1>1, <1>2, StandsEnded
  <2> QED BY <2>1, <2>2, <2>3
<1>9. CASE l.kind \in {"agent_message", "text"}
  <2>1. r.events = <<Output>> /\ r.parser = p
    BY <1>9 DEF CodexLine, Res
  <2> QED BY <1>3, <1>9, <2>1, StandsOutput
<1> QED BY <1>2, <1>5, <1>6, <1>7, <1>8, <1>9

\* The lines of pi.
LEMMA PiFed ==
  ASSUME NEW E, NEW p, NEW us, Stands("pi", E, p, us), NEW l, IsLine("pi", l, us)
  PROVE  Stands("pi", E \o PiLine(p, l).events, PiLine(p, l).parser, Read("pi", p, l, us))
<1> DEFINE r == PiLine(p, l)
           vs == Read("pi", p, l, us)
<1>1. E \in Seq(Evs) /\ p \in Parsers
  BY DEF Stands
<1>2. /\ l.kind \in {"turn_start", "tool_execution_start", "tool_execution_end", "turn_end",
                     "agent_end", "session", "compaction_start", "text"}
      /\ l.ok \in BOOLEAN /\ l.id \in Nat \cup Tools /\ l.n \in {0, Len(us) + 1}
  BY DEF IsLine, LineKinds
<1>3. l.kind # "turn_end" => vs = us
  BY <1>2 DEF Read, Counts
<1>4. CASE l.kind = "turn_start"
  <2>1. r.events = <<Ev("turn_start", p.turn + 1)>> /\ r.parser = [p EXCEPT !.turn = @ + 1]
    BY <1>4 DEF PiLine, Res
  <2> QED BY <1>3, <1>4, <2>1, StandsStarted
<1>5. CASE l.kind \in {"tool_execution_start", "tool_execution_end"}
  <2> DEFINE name == IF l.kind = "tool_execution_start" THEN "tool_call" ELSE "tool_result"
             e == Ev(name, l.id)
  <2>1. r.events = (IF l.ok THEN <<e>> ELSE << >>) /\ r.parser = p
    BY <1>5 DEF PiLine, parse_tool_execution, Res
  <2>2. e \in Evs /\ e.name \in {"output", "tool_call", "tool_result"}
    BY <1>2, EventTyped
  <2> HIDE DEF e
  <2>3. Stands("pi", E \o <<e>>, p, us)
    BY <1>1, <2>2, StandsOther, OneEvent
  <2>4. vs = us
    BY <1>3, <1>5
  <2>5. Stands("pi", E \o << >>, p, us)
    BY StandsNothing
  <2> HIDE DEF vs, r
  <2> QED BY <1>2, <2>1, <2>3, <2>4, <2>5 DEF vs, r
<1>6. CASE l.kind = "turn_end"
  <2> DEFINE q == [p EXCEPT !.total = @ + l.n]
  <2>1. r.events = <<Ev("turn_end", p.turn)>> \o UsageOf(l.n) /\ r.parser = q
    BY <1>6 DEF PiLine, parse_turn_end, Res, UsageOf
  <2>2. vs = Counted(us, l.n)
    BY <1>6 DEF Read, Counts, Counted
  <2>3. l.n \in Nat
    <3>1. Len(us) \in Nat
      BY DEF Stands, Used
    <3> QED BY <1>2, <3>1
  <2>4. q \in Parsers /\ q.turn = p.turn /\ q.open = p.open /\ q.pending = p.pending /\ q.called = p.called
        /\ q.total = p.total + l.n
    <3>1. p.total + l.n \in Nat
      BY <1>1, <2>3 DEF Parsers
    <3> QED BY <1>1, <3>1 DEF Parsers
  <2> HIDE DEF q
  <2>5. Stands("pi", E \o (<<Ev("turn_end", p.turn)>> \o UsageOf(l.n)), q, Counted(us, l.n))
    BY <1>2, <2>4, StandsEnded
  <2> QED BY <2>1, <2>2, <2>5
<1>7. CASE l.kind = "agent_end"
  <2> DEFINE e == Ev("session_usage", p.total)
  <2>1. r.events = <<e>> /\ r.parser = p
    BY <1>7 DEF PiLine, emit_session_usage, Res
  <2>2. Stands("pi", Append(E, e), p, us)
    BY StandsSession
  <2>3. e \in Evs
    <3>1. p.total \in Nat
      BY <1>1 DEF Parsers
    <3> QED BY <3>1, EventTyped
  <2> HIDE DEF e
  <2>4. E \o <<e>> = Append(E, e)
    BY <1>1, <2>3, OneEvent
  <2> QED BY <1>3, <1>7, <2>1, <2>2, <2>4
<1>8. CASE l.kind \in {"session", "compaction_start", "text"}
  <2>1. r.events = (IF l.kind = "session" THEN << >> ELSE <<Output>>) /\ r.parser = p
    BY <1>8 DEF PiLine, Res
  <2> QED BY <1>3, <1>8, <2>1, StandsOutput, StandsNothing
<1> QED BY <1>2, <1>4, <1>5, <1>6, <1>7, <1>8

-----------------------------------------------------------------------------
(* Adapters: the invariant *)

ParserInv ==
  /\ adapter \in {"aider", "claude", "codex", "pi"} /\ ended \in BOOLEAN
  /\ Stands(adapter, events, parser, usages)
  /\ adapter = "claude" => ~parser.open
  /\ ended => parser.pending = 0 /\ (adapter = "aider" => ~parser.open)

\* A new parser has emitted nothing.
LEMMA ParserStarts ==
  ASSUME NEW names, names \subseteq {"aider", "claude", "codex", "pi"}, AdapterInit(names)
  PROVE  ParserInv
<1>1. /\ events = << >> /\ usages = << >> /\ adapter \in names /\ ended = FALSE
      /\ parser = [turn |-> 0, open |-> FALSE, pending |-> 0, called |-> {}, total |-> 0]
  BY DEF AdapterInit, NewParser
<1>2. parser \in Parsers /\ parser.turn = 0 /\ parser.open = FALSE /\ parser.pending = 0 /\ parser.called = {}
      /\ parser.total = 0
  BY <1>1 DEF Parsers
<1>3. events \in Seq(Evs) /\ usages \in Seq(BOOLEAN) /\ Len(events) = 0 /\ Len(usages) = 0
      /\ DOMAIN events = {} /\ DOMAIN usages = {}
  BY <1>1
<1>4. Paired(events, 0, FALSE)
  BY <1>3 DEF Paired, NoTurn
<1>5. Emitted(events, Len(events) + 1) = {}
  BY <1>3 DEF Emitted
<1>6. Used(events, usages, 0)
  BY <1>3, <1>5 DEF Used
<1>7. Called(events, {})
  BY <1>3 DEF Called
<1>8. Summed(events, usages, 0)
  BY <1>3, <1>5 DEF Summed
<1> QED BY <1>1, <1>2, <1>3, <1>4, <1>6, <1>7, <1>8 DEF ParserInv, Stands

\* Every line keeps the invariant, of whichever adapter (parse_line).
LEMMA ParserFed ==
  ASSUME ParserInv, NEW l \in Lines(adapter), Feed(l)
  PROVE  ParserInv'
<1> DEFINE r == parse_line(parser, l)
<1>1. /\ parser' = r.parser /\ events' = events \o r.events /\ adapter' = adapter /\ ended' = ended /\ ~ended
      /\ usages' = Read(adapter, parser, l, usages)
  BY DEF Feed, Read
<1>2. IsLine(adapter, l, usages)
  BY DEF Lines, IsLine
<1>3. CASE adapter = "aider"
  <2>1. r = AiderLine(parser, l)
    BY <1>3 DEF parse_line
  <2>2. Stands("aider", events', parser', usages')
    BY <1>1, <1>2, <1>3, <2>1, AiderFed DEF ParserInv
  <2> QED BY <1>1, <1>3, <2>2 DEF ParserInv
<1>4. CASE adapter = "claude"
  <2>1. r = ClaudeLine(parser, l)
    BY <1>4 DEF parse_line
  <2>2. Stands("claude", events', parser', usages') /\ ~parser'.open
    BY <1>1, <1>2, <1>4, <2>1, ClaudeFed DEF ParserInv
  <2> QED BY <1>1, <1>4, <2>2 DEF ParserInv
<1>5. CASE adapter = "codex"
  <2>1. r = CodexLine(parser, l)
    BY <1>5 DEF parse_line
  <2>2. Stands("codex", events', parser', usages')
    BY <1>1, <1>2, <1>5, <2>1, CodexFed DEF ParserInv
  <2> QED BY <1>1, <1>5, <2>2 DEF ParserInv
<1>6. CASE adapter = "pi"
  <2>1. r = PiLine(parser, l)
    BY <1>6 DEF parse_line
  <2>2. Stands("pi", events', parser', usages')
    BY <1>1, <1>2, <1>6, <2>1, PiFed DEF ParserInv
  <2> QED BY <1>1, <1>6, <2>2 DEF ParserInv
<1> QED BY <1>3, <1>4, <1>5, <1>6 DEF ParserInv

\* So does the end of the stream (Flush).
LEMMA ParserFlushed ==
  ASSUME ParserInv, Flush
  PROVE  ParserInv'
<1>1. adapter' = adapter /\ usages' = usages /\ ended' = TRUE
  BY DEF Flush
<1>2. CASE adapter = "aider"
  <2> DEFINE f == flush_pending_usage(parser)
             fe == f.events
             q == f.parser
             E1 == events \o fe
             t == turn_end_event(q)
             c == [q EXCEPT !.open = FALSE]
  <2>1. parser' = c /\ events' = events \o (fe \o t)
    BY <1>2 DEF Flush, AiderFlush, Res
  <2>2. fe \in Seq(Evs) /\ Stands("aider", E1, q, usages) /\ q.pending = 0
    BY <1>2, Flushed DEF ParserInv
  <2>3. q \in Parsers /\ events \in Seq(Evs)
    BY <2>2 DEF Stands, ParserInv
  <2> HIDE DEF f, fe, q, E1
  <2>4. t \in Seq(Evs) /\ Stands("aider", E1 \o t, c, usages)
    BY <2>2, TurnClosed
  <2>5. c.pending = 0 /\ c.open = FALSE
    BY <2>2, <2>3 DEF Parsers
  <2> HIDE DEF t, c
  <2>6. E1 \o t = events \o (fe \o t)
    BY <2>2, <2>3, <2>4, ConcatAssociative DEF E1
  <2> QED BY <1>1, <1>2, <2>1, <2>4, <2>5, <2>6 DEF ParserInv
<1>3. CASE adapter # "aider"
  <2>1. parser' = parser /\ events' = events \o << >>
    BY <1>3 DEF Flush, Res
  <2>2. events' = events /\ parser.pending = 0
    BY <1>3, <2>1, StandsNothing DEF ParserInv, Stands
  <2> QED BY <1>1, <1>3, <2>1, <2>2 DEF ParserInv
<1> QED BY <1>2, <1>3

\* The contract follows from the invariant.
LEMMA ContractFollows ==
  ASSUME ParserInv
  PROVE  ContractKept
<1>1. /\ events \in Seq(Evs) /\ parser \in Parsers
      /\ adapter \in {"aider", "claude"} => Paired(events, parser.turn, parser.open)
      /\ Used(events, usages, parser.pending)
      /\ adapter = "codex" => Called(events, parser.called)
      /\ adapter = "pi" => Summed(events, usages, parser.total)
  BY DEF ParserInv, Stands
<1>2. TurnsPaired
  <2> SUFFICES ASSUME adapter \in {"aider", "claude"}
               PROVE  /\ \A i \in DOMAIN events : InOrder(events, i)
                      /\ ended => \A i \in DOMAIN events : events[i].name = "turn_start" => Ends(events, i)
    BY DEF TurnsPaired, InOrder, Ends
  <2>1. ended => ~parser.open
    BY DEF ParserInv
  <2> QED BY <1>1, <2>1 DEF Paired
<1>3. ResultsFollowCalls
  BY <1>1 DEF ResultsFollowCalls, Called
<1>4. UsageCounted
  <2>1. adapter = "pi" => \A i \in DOMAIN events : events[i].name = "session_usage" => Totalled(events, i, usages)
    BY <1>1 DEF Summed
  <2>2. ended => parser.pending = 0
    BY DEF ParserInv
  <2> QED BY <1>1, <2>1, <2>2 DEF UsageCounted, Used, Totalled
<1> QED BY <1>2, <1>3, <1>4 DEF ContractKept

-----------------------------------------------------------------------------
(* Layers: paths *)

\* A prefix, element by element.
LEMMA PrefixPointwise ==
  ASSUME NEW S, NEW s \in Seq(S), NEW t \in Seq(S)
  PROVE  IsPrefix(s, t) <=> Len(s) <= Len(t) /\ \A k \in 1 .. Len(s) : s[k] = t[k]
<1> SUFFICES ASSUME Len(s) <= Len(t)
             PROVE  SubSeq(s, 1, Len(s)) = SubSeq(t, 1, Len(s)) <=> \A k \in 1 .. Len(s) : s[k] = t[k]
  BY DEF IsPrefix
<1> DEFINE n == Len(s)
           u == SubSeq(t, 1, n)
<1>1. n \in Nat /\ n <= Len(t) /\ Len(t) \in Nat /\ \A k \in 1 .. n : t[k] \in S
  OBVIOUS
<1>2. u \in Seq(S) /\ Len(u) = n /\ \A k \in 1 .. n : u[k] = t[k]
  <2>1. Len(u) = (IF 1 <= n THEN n - 1 + 1 ELSE 0) /\ u \in Seq(S)
    BY <1>1, SubSeqProperties
  <2>2. \A k \in 1 .. n - 1 + 1 : u[k] = t[1 + k - 1]
    BY <1>1, SubSeqProperties
  <2> HIDE DEF u, n
  <2> QED BY <1>1, <2>1, <2>2
<1>3. SubSeq(s, 1, n) = s
  BY SubSeqFull
<1> HIDE DEF u
<1>4. s = u <=> \A k \in 1 .. n : s[k] = u[k]
  BY <1>2, SeqEqual
<1> QED BY <1>2, <1>3, <1>4 DEF u

\* Prefixes of prefixes.
LEMMA PrefixTransitive ==
  ASSUME NEW S, NEW s \in Seq(S), NEW t \in Seq(S), NEW u \in Seq(S)
  PROVE  /\ IsPrefix(s, s)
         /\ IsPrefix(s, t) /\ IsPrefix(t, u) => IsPrefix(s, u)
         /\ IsStrictPrefix(s, t) /\ IsPrefix(t, u) => IsStrictPrefix(s, u)
         /\ IsPrefix(s, t) /\ IsStrictPrefix(t, u) => IsStrictPrefix(s, u)
<1>1. /\ IsPrefix(s, s) /\ (IsPrefix(s, t) /\ IsPrefix(t, u) => IsPrefix(s, u))
  BY PrefixPointwise
<1>2. IsPrefix(s, t) /\ IsPrefix(t, s) => s = t
  BY PrefixPointwise, SeqEqual
<1>3. IsPrefix(t, u) /\ IsPrefix(u, t) => t = u
  BY PrefixPointwise, SeqEqual
<1> QED BY <1>1, <1>2, <1>3 DEF IsStrictPrefix

\* The directory a path is in.
LEMMA FrontOfPath ==
  ASSUME NEW S, NEW p \in Seq(S), Len(p) > 1
  PROVE  /\ Front(p) \in Seq(S) /\ Len(Front(p)) = Len(p) - 1 /\ IsStrictPrefix(Front(p), p) /\ Front(p) \in Parents(p)
<1> DEFINE n == Len(p) - 1
           f == SubSeq(p, 1, n)
<1>1. n \in Nat /\ 1 <= n /\ Len(p) = n + 1 /\ \A k \in 1 .. n : p[k] \in S
  OBVIOUS
<1>2. f \in Seq(S) /\ Len(f) = n /\ \A k \in 1 .. n : f[k] = p[k]
  <2>1. Len(f) = (IF 1 <= n THEN n - 1 + 1 ELSE 0) /\ f \in Seq(S)
    BY <1>1, SubSeqProperties
  <2>2. \A k \in 1 .. n - 1 + 1 : f[k] = p[1 + k - 1]
    BY <1>1, SubSeqProperties
  <2> HIDE DEF f, n
  <2> QED BY <1>1, <2>1, <2>2
<1>3. f \in Parents(p)
  <2>1. n \in 1 .. Len(p) - 1
    BY <1>1
  <2> HIDE DEF n
  <2> QED BY <2>1 DEF Parents
<1>4. Front(p) = f
  BY DEF Front
<1> HIDE DEF f, n
<1>5. IsPrefix(f, p) /\ f # p
  BY <1>1, <1>2, PrefixPointwise
<1> QED BY <1>1, <1>2, <1>3, <1>4, <1>5 DEF IsStrictPrefix

\* The directories on the way to a path, and the directory each of those is in.
LEMMA ParentsOfPath ==
  ASSUME NEW S, NEW p \in Seq(S), NEW q \in Parents(p)
  PROVE  q \in Seq(S) /\ Len(q) < Len(p) /\ IsStrictPrefix(q, p) /\ (Len(q) > 1 => Front(q) \in Parents(p))
<1>1. PICK n \in 1 .. Len(p) - 1 : q = SubSeq(p, 1, n)
  BY DEF Parents
<1>2. n \in Nat /\ 1 <= n /\ n < Len(p) /\ Len(p) \in Nat /\ \A k \in 1 .. n : p[k] \in S
  OBVIOUS
<1>3. q \in Seq(S) /\ Len(q) = n /\ \A k \in 1 .. n : q[k] = p[k]
  <2>1. Len(q) = (IF 1 <= n THEN n - 1 + 1 ELSE 0) /\ q \in Seq(S)
    BY <1>1, <1>2, SubSeqProperties
  <2>2. \A k \in 1 .. n - 1 + 1 : q[k] = p[1 + k - 1]
    BY <1>1, <1>2, SubSeqProperties
  <2> QED BY <1>2, <2>1, <2>2
<1>4. IsPrefix(q, p) /\ q # p
  BY <1>2, <1>3, PrefixPointwise
<1>5. ASSUME n > 1
      PROVE  Front(q) \in Parents(p)
  <2> DEFINE m == n - 1
             f == SubSeq(p, 1, m)
  <2>1. m \in Nat /\ 1 <= m /\ m < Len(p) /\ \A k \in 1 .. m : p[k] \in S
    BY <1>2, <1>5
  <2>2. f \in Seq(S) /\ Len(f) = m /\ \A k \in 1 .. m : f[k] = p[k]
    <3>1. Len(f) = (IF 1 <= m THEN m - 1 + 1 ELSE 0) /\ f \in Seq(S)
      BY <2>1, SubSeqProperties
    <3>2. \A k \in 1 .. m - 1 + 1 : f[k] = p[1 + k - 1]
      BY <2>1, SubSeqProperties
    <3> HIDE DEF f, m
    <3> QED BY <2>1, <3>1, <3>2
  <2>3. f \in Parents(p)
    BY <2>1 DEF Parents
  <2> DEFINE g == SubSeq(q, 1, m)
  <2>4. g \in Seq(S) /\ Len(g) = m /\ \A k \in 1 .. m : g[k] = q[k]
    <3>0. \A k \in 1 .. m : q[k] \in S
      BY <1>3, <2>1
    <3>1. Len(g) = (IF 1 <= m THEN m - 1 + 1 ELSE 0) /\ g \in Seq(S)
      BY <2>1, <3>0, SubSeqProperties
    <3>2. \A k \in 1 .. m - 1 + 1 : g[k] = q[1 + k - 1]
      BY <2>1, <3>0, SubSeqProperties
    <3> HIDE DEF g, m
    <3> QED BY <2>1, <3>1, <3>2
  <2>5. Front(q) = g
    BY <1>3 DEF Front
  <2>6. \A k \in 1 .. m : k \in 1 .. n
    BY <1>2
  <2> HIDE DEF f, g, m
  <2>7. f = g
    BY <1>3, <2>2, <2>4, <2>6, SeqEqual
  <2> QED BY <2>3, <2>5, <2>7
<1> QED BY <1>2, <1>3, <1>4, <1>5 DEF IsStrictPrefix

-----------------------------------------------------------------------------
(* Layers: the overlay, path by path *)

Added(E, n, p)   == \E i \in 1 .. n : Brings(E[i]) /\ E[i].path = p
FromBelow(t, E, n, p) == p \in DOMAIN t /\ ~\E i \in 1 .. n : Hides(E[i], p)
OnWay(E, n, p)   == \E i \in 1 .. n : Brings(E[i]) /\ p \in Parents(E[i].path)
IsLast(E, n, p, i) ==
  /\ i \in 1 .. n /\ Brings(E[i]) /\ E[i].path = p
  /\ \A j \in 1 .. n : Brings(E[j]) /\ E[j].path = p => j <= i

IsFcn(t) == t = [p \in DOMAIN t |-> t[p]]

\* One tree over another, path by path.
LEMMA OverAt ==
  ASSUME NEW t, NEW u
  PROVE  /\ IsFcn(Over(t, u))
         /\ \A p : p \in DOMAIN Over(t, u) <=> p \in DOMAIN t \/ p \in DOMAIN u
         /\ \A p \in DOMAIN t : Over(t, u)[p] = t[p]
         /\ \A p \in DOMAIN u : p \notin DOMAIN t => Over(t, u)[p] = u[p]
BY DEF Over, IsFcn

\* Two trees with the same paths and the same at each.
LEMMA SameFcn ==
  ASSUME NEW t, NEW u, IsFcn(t), IsFcn(u),
         \A p : p \in DOMAIN t <=> p \in DOMAIN u,
         \A p \in DOMAIN t : t[p] = u[p]
  PROVE  t = u
<1>1. DOMAIN t = DOMAIN u
  OBVIOUS
<1> QED BY <1>1 DEF IsFcn

\* What was added has been added for the last time by some entry.
LEMMA LastExists ==
  ASSUME NEW E, NEW n \in Nat, NEW p, Added(E, n, p)
  PROVE  \E i : IsLast(E, n, p, i)
<1> DEFINE P == {i \in 1 .. n : Brings(E[i]) /\ E[i].path = p}
<1>1. P \in SUBSET (1 .. n) /\ P # {}
  BY DEF Added
<1>2. \A i \in 1 .. n : i \in P <=> Brings(E[i]) /\ E[i].path = p
  OBVIOUS
<1> HIDE DEF P
<1>3. PICK i \in P : \A j \in P : j <= i
  BY <1>1, Greatest
<1> QED BY <1>1, <1>2, <1>3 DEF IsLast

\* The overlay, path by path: the last entry's content; or what the layers below have; or a
\* directory on the way.
LEMMA OverlayAt ==
  ASSUME NEW t, NEW E, NEW n \in Nat
  PROVE  /\ IsFcn(Overlay(t, E, n))
         /\ \A p : p \in DOMAIN Overlay(t, E, n) <=> Added(E, n, p) \/ FromBelow(t, E, n, p) \/ OnWay(E, n, p)
         /\ \A p, i : IsLast(E, n, p, i) => Overlay(t, E, n)[p] = E[i].content
         /\ \A p : ~Added(E, n, p) /\ FromBelow(t, E, n, p) => Overlay(t, E, n)[p] = t[p]
         /\ \A p : ~Added(E, n, p) /\ ~FromBelow(t, E, n, p) /\ OnWay(E, n, p) => Overlay(t, E, n)[p] = "dir"
<1> DEFINE adds == {i \in 1 .. n : Brings(E[i])}
           last(p) == CHOOSE i \in adds : E[i].path = p /\ \A j \in adds : E[j].path = p => j <= i
           A == [p \in {E[i].path : i \in adds} |-> E[last(p)].content]
           K == Without(t, {p \in DOMAIN t : \E i \in 1 .. n : Hides(E[i], p)})
           D == [p \in UNION {Parents(E[i].path) : i \in adds} |-> "dir"]
           V == Over(K, D)
<1>0. Overlay(t, E, n) = Over(A, V)
  BY DEF Overlay
<1>1. \A p : p \in DOMAIN A <=> Added(E, n, p)
  BY DEF Added
<1>2. \A p : p \in DOMAIN K <=> FromBelow(t, E, n, p)
  BY DEF FromBelow, Without
<1>3. \A p : p \in DOMAIN D <=> OnWay(E, n, p)
  BY DEF OnWay
<1>4. ASSUME NEW p, NEW i, IsLast(E, n, p, i)
      PROVE  p \in DOMAIN A /\ A[p] = E[i].content
  <2>1. i \in adds /\ E[i].path = p /\ \A j \in adds : E[j].path = p => j <= i
    BY <1>4 DEF IsLast
  <2>2. last(p) \in adds /\ E[last(p)].path = p /\ \A j \in adds : E[j].path = p => j <= last(p)
    BY <2>1
  <2>3. \A a, b \in adds : a <= b /\ b <= a => a = b
    OBVIOUS
  <2>4. p \in DOMAIN A /\ A[p] = E[last(p)].content
    BY <2>1
  <2> HIDE DEF adds, last, A
  <2>5. last(p) = i
    BY <2>1, <2>2, <2>3
  <2> QED BY <2>4, <2>5
<1>5. \A p \in DOMAIN K : K[p] = t[p]
  BY DEF Without
<1>6. \A p \in DOMAIN D : D[p] = "dir"
  OBVIOUS
<1> HIDE DEF A, K, D
<1>7. /\ \A p : p \in DOMAIN V <=> p \in DOMAIN K \/ p \in DOMAIN D
      /\ \A p \in DOMAIN K : V[p] = K[p]
      /\ \A p \in DOMAIN D : p \notin DOMAIN K => V[p] = D[p]
  BY OverAt
<1> HIDE DEF V
<1>8. /\ IsFcn(Over(A, V))
      /\ \A p : p \in DOMAIN Over(A, V) <=> p \in DOMAIN A \/ p \in DOMAIN V
      /\ \A p \in DOMAIN A : Over(A, V)[p] = A[p]
      /\ \A p \in DOMAIN V : p \notin DOMAIN A => Over(A, V)[p] = V[p]
  BY OverAt
<1> QED BY <1>0, <1>1, <1>2, <1>3, <1>4, <1>5, <1>6, <1>7, <1>8

\* No entry changes nothing.
LEMMA OverlayNothing ==
  ASSUME NEW t, NEW E, IsFcn(t)
  PROVE  Overlay(t, E, 0) = t
<1>1. \A p : ~Added(E, 0, p) /\ ~OnWay(E, 0, p) /\ (FromBelow(t, E, 0, p) <=> p \in DOMAIN t)
  BY DEF Added, OnWay, FromBelow
<1>2. /\ IsFcn(Overlay(t, E, 0))
      /\ \A p : p \in DOMAIN Overlay(t, E, 0) <=> p \in DOMAIN t
      /\ \A p \in DOMAIN t : Overlay(t, E, 0)[p] = t[p]
  BY <1>1, OverlayAt
<1> QED BY <1>2, SameFcn

\* u is t with what e brings, and the directories on the way to it.
Gains(t, e, u) ==
  /\ IsFcn(u)
  /\ \A p : p \in DOMAIN u <=> p \in DOMAIN t \/ On(e, p)
  /\ u[e.path] = e.content
  /\ \A p : p \in DOMAIN t /\ p # e.path => u[p] = t[p]
  /\ \A p : p \in Parents(e.path) /\ p \notin DOMAIN t /\ p # e.path => u[p] = "dir"

\* An entry brings its path and the directories on the way (unpack_in).
LEMMA BroughtIn ==
  ASSUME NEW t, NEW e, Brings(e)
  PROVE  Gains(t, e, apply_entry(t, e))
<1> DEFINE q == e.path
           W == [p \in Parents(q) |-> "dir"]
           Q == [p \in {q} |-> e.content]
           V == Over(t, W)
           U == Over(Q, V)
<1>1. apply_entry(t, e) = U
  BY DEF apply_entry, unpack_in, Brings
<1>2. /\ \A p : p \in DOMAIN W <=> p \in Parents(q)
      /\ \A p \in DOMAIN W : W[p] = "dir"
      /\ \A p : p \in DOMAIN Q <=> p = q
      /\ Q[q] = e.content
  OBVIOUS
<1>3. \A p : On(e, p) <=> p = q \/ p \in Parents(q)
  BY DEF On
<1> HIDE DEF W, Q
<1>4. /\ \A p : p \in DOMAIN V <=> p \in DOMAIN t \/ p \in DOMAIN W
      /\ \A p \in DOMAIN t : V[p] = t[p]
      /\ \A p \in DOMAIN W : p \notin DOMAIN t => V[p] = W[p]
  BY OverAt
<1> HIDE DEF V
<1>5. /\ IsFcn(U)
      /\ \A p : p \in DOMAIN U <=> p \in DOMAIN Q \/ p \in DOMAIN V
      /\ \A p \in DOMAIN Q : U[p] = Q[p]
      /\ \A p \in DOMAIN V : p \notin DOMAIN Q => U[p] = V[p]
  BY OverAt
<1> HIDE DEF U
<1> QED BY <1>1, <1>2, <1>3, <1>4, <1>5 DEF Gains

\* u is what e leaves of t.
Leaves(t, e, u) ==
  /\ IsFcn(u)
  /\ \A p : p \in DOMAIN u <=> p \in DOMAIN t /\ ~Hides(e, p)
  /\ \A p : p \in DOMAIN u => u[p] = t[p]

\* A marker takes away what it hides (named, opaque).
LEMMA RemovedHidden ==
  ASSUME NEW S, NEW t, NEW e, e.path \in Seq(S), e.kind \in {"named", "opaque"}
  PROVE  Leaves(t, e, apply_entry(t, e))
<1> SUFFICES ASSUME NEW u, u = apply_entry(t, e)
             PROVE  Leaves(t, e, u)
  OBVIOUS
<1>1. IsPrefix(e.path, e.path)
  BY PrefixTransitive
<1>2. \A P : /\ IsFcn(Without(t, P))
             /\ \A p : p \in DOMAIN Without(t, P) <=> p \in DOMAIN t /\ p \notin P
             /\ \A p \in DOMAIN Without(t, P) : Without(t, P)[p] = t[p]
  BY DEF Without, IsFcn
<1>3. CASE e.kind = "named"
  <2>1. u = Without(t, {e.path} \cup Below(t, e.path))
    BY <1>3 DEF apply_entry, named
  <2>2. \A p : p \in DOMAIN t => (p \in {e.path} \cup Below(t, e.path) <=> Hides(e, p))
    BY <1>1, <1>3 DEF Below, Hides, IsStrictPrefix
  <2> QED BY <1>2, <2>1, <2>2 DEF Leaves
<1>4. CASE e.kind = "opaque"
  <2>1. u = Without(t, Below(t, e.path))
    BY <1>4 DEF apply_entry, opaque
  <2>2. \A p : p \in DOMAIN t => (p \in Below(t, e.path) <=> Hides(e, p))
    BY <1>4 DEF Below, Hides
  <2> QED BY <1>2, <2>1, <2>2 DEF Leaves
<1> QED BY <1>3, <1>4

\* What hides a directory hides what is below it.
LEMMA HiddenBelow ==
  ASSUME NEW S, NEW e, e.path \in Seq(S), NEW p \in Seq(S), NEW q \in Seq(S), IsStrictPrefix(p, q), Hides(e, p)
  PROVE  Hides(e, q)
BY PrefixTransitive DEF Hides, IsStrictPrefix

\* What an entry that brings something does to the overlay.
LEMMA OverlayAdd ==
  ASSUME NEW t, NEW E, NEW n \in Nat, Brings(E[n + 1])
  PROVE  /\ \A p : Added(E, n + 1, p) <=> Added(E, n, p) \/ p = E[n + 1].path
         /\ \A p : OnWay(E, n + 1, p) <=> OnWay(E, n, p) \/ p \in Parents(E[n + 1].path)
         /\ \A p : FromBelow(t, E, n + 1, p) <=> FromBelow(t, E, n, p)
         /\ IsLast(E, n + 1, E[n + 1].path, n + 1)
         /\ \A p, i : p # E[n + 1].path /\ IsLast(E, n, p, i) => IsLast(E, n + 1, p, i)
         /\ \A p : Behind(E, n + 1, p) <=> Behind(E, n, p)
         /\ \A p : BroughtAgain(E, n + 1, p) <=> BroughtAgain(E, n, p) \/ On(E[n + 1], p)
<1> DEFINE e == E[n + 1]
<1>1. /\ 1 .. n + 1 = (1 .. n) \cup {n + 1} /\ n + 1 \in Nat
      /\ \A i \in 1 .. n : i <= n + 1
  OBVIOUS
<1>2. \A p : ~Hides(e, p)
  BY DEF Hides, Brings
<1>3. \A i \in 1 .. n : i + 1 .. n + 1 = (i + 1 .. n) \cup {n + 1}
  OBVIOUS
<1>4. n + 1 + 1 .. n + 1 = {}
  OBVIOUS
<1> HIDE DEF e
<1>5. /\ \A p : Added(E, n + 1, p) <=> Added(E, n, p) \/ p = E[n + 1].path
      /\ \A p : OnWay(E, n + 1, p) <=> OnWay(E, n, p) \/ p \in Parents(E[n + 1].path)
  BY <1>1 DEF Added, OnWay
<1>6. \A p : FromBelow(t, E, n + 1, p) <=> FromBelow(t, E, n, p)
  BY <1>1, <1>2 DEF FromBelow, e
<1>7. /\ IsLast(E, n + 1, E[n + 1].path, n + 1)
      /\ \A p, i : p # E[n + 1].path /\ IsLast(E, n, p, i) => IsLast(E, n + 1, p, i)
  BY <1>1 DEF IsLast
<1>8. \A p : Behind(E, n + 1, p) <=> Behind(E, n, p)
  BY <1>1, <1>2 DEF Behind, e
<1>9. ASSUME NEW p
      PROVE  BroughtAgain(E, n + 1, p) <=> BroughtAgain(E, n, p) \/ On(E[n + 1], p)
  BY <1>1, <1>2, <1>3, <1>4 DEF BroughtAgain, e
<1> QED BY <1>5, <1>6, <1>7, <1>8, <1>9

\* What a marker does to the overlay.
LEMMA OverlayMarker ==
  ASSUME NEW t, NEW E, NEW n \in Nat, ~Brings(E[n + 1])
  PROVE  /\ \A p : Added(E, n + 1, p) <=> Added(E, n, p)
         /\ \A p : OnWay(E, n + 1, p) <=> OnWay(E, n, p)
         /\ \A p : FromBelow(t, E, n + 1, p) <=> FromBelow(t, E, n, p) /\ ~Hides(E[n + 1], p)
         /\ \A p, i : IsLast(E, n, p, i) => IsLast(E, n + 1, p, i)
         /\ \A p : Behind(E, n + 1, p) <=> Behind(E, n, p) \/ (Hides(E[n + 1], p) /\ (Added(E, n, p) \/ OnWay(E, n, p)))
         /\ \A p : BroughtAgain(E, n + 1, p) <=> BroughtAgain(E, n, p) /\ ~Hides(E[n + 1], p)
<1> DEFINE e == E[n + 1]
<1>1. /\ 1 .. n + 1 = (1 .. n) \cup {n + 1} /\ n + 1 \in Nat
      /\ \A i \in 1 .. n : i <= n + 1
  OBVIOUS
<1>2. \A p : ~On(e, p)
  BY DEF On
<1>3. \A i \in 1 .. n : i + 1 .. n + 1 = (i + 1 .. n) \cup {n + 1}
  OBVIOUS
<1>4. 1 .. n + 1 - 1 = 1 .. n
  OBVIOUS
<1>5. /\ \A p : Added(E, n + 1, p) <=> Added(E, n, p)
      /\ \A p : OnWay(E, n + 1, p) <=> OnWay(E, n, p)
  BY <1>1 DEF Added, OnWay
<1>6. \A p : FromBelow(t, E, n + 1, p) <=> FromBelow(t, E, n, p) /\ ~Hides(E[n + 1], p)
  BY <1>1 DEF FromBelow
<1>7. \A p, i : IsLast(E, n, p, i) => IsLast(E, n + 1, p, i)
  BY <1>1 DEF IsLast
<1>8. \A p : (\E i \in 1 .. n : On(E[i], p)) <=> Added(E, n, p) \/ OnWay(E, n, p)
  BY DEF On, Added, OnWay
<1> HIDE DEF e
<1>9. \A p : Behind(E, n + 1, p) <=> Behind(E, n, p) \/ (Hides(E[n + 1], p) /\ \E i \in 1 .. n : On(E[i], p))
  BY <1>1, <1>4 DEF Behind
<1>10. \A p : BroughtAgain(E, n + 1, p) <=> BroughtAgain(E, n, p) /\ ~Hides(E[n + 1], p)
  BY <1>1, <1>2, <1>3 DEF BroughtAgain, e
<1> QED BY <1>5, <1>6, <1>7, <1>8, <1>9, <1>10

\* An entry applied to what agrees with the entries before it agrees with one entry more.
LEMMA LayeredNext ==
  ASSUME NEW S, NEW t, NEW E, NEW n \in Nat, NEW u, \A p : AsLayered(u, t, E, n, p),
         E[n + 1].path \in Seq(S), E[n + 1].kind \in {"add", "hard", "named", "opaque"}
  PROVE  \A p : AsLayered(apply_entry(u, E[n + 1]), t, E, n + 1, p)
<1> DEFINE e == E[n + 1]
           v == apply_entry(u, e)
           O == Overlay(t, E, n)
           O1 == Overlay(t, E, n + 1)
<1>0. n + 1 \in Nat
  OBVIOUS
<1>1. /\ \A p : p \in DOMAIN O <=> Added(E, n, p) \/ FromBelow(t, E, n, p) \/ OnWay(E, n, p)
      /\ \A p, i : IsLast(E, n, p, i) => O[p] = E[i].content
      /\ \A p : ~Added(E, n, p) /\ FromBelow(t, E, n, p) => O[p] = t[p]
      /\ \A p : ~Added(E, n, p) /\ ~FromBelow(t, E, n, p) /\ OnWay(E, n, p) => O[p] = "dir"
  BY OverlayAt
<1>2. /\ \A p : p \in DOMAIN O1 <=> Added(E, n + 1, p) \/ FromBelow(t, E, n + 1, p) \/ OnWay(E, n + 1, p)
      /\ \A p, i : IsLast(E, n + 1, p, i) => O1[p] = E[i].content
      /\ \A p : ~Added(E, n + 1, p) /\ FromBelow(t, E, n + 1, p) => O1[p] = t[p]
      /\ \A p : ~Added(E, n + 1, p) /\ ~FromBelow(t, E, n + 1, p) /\ OnWay(E, n + 1, p) => O1[p] = "dir"
  BY <1>0, OverlayAt
<1>3. \A p : Added(E, n, p) => \E i : IsLast(E, n, p, i)
  BY LastExists
<1>4. \A p : IF Behind(E, n, p) THEN p \in DOMAIN u <=> BroughtAgain(E, n, p)
             ELSE (p \in DOMAIN u <=> p \in DOMAIN O) /\ (p \in DOMAIN u => u[p] = O[p])
  BY DEF AsLayered
<1> SUFFICES ASSUME NEW p
             PROVE  IF Behind(E, n + 1, p) THEN p \in DOMAIN v <=> BroughtAgain(E, n + 1, p)
                    ELSE (p \in DOMAIN v <=> p \in DOMAIN O1) /\ (p \in DOMAIN v => v[p] = O1[p])
  BY DEF AsLayered
<1>5. CASE Brings(e)
  <2>1. Gains(u, e, v)
    BY <1>5, BroughtIn
  <2>2. /\ \A q : Added(E, n + 1, q) <=> Added(E, n, q) \/ q = e.path
        /\ \A q : OnWay(E, n + 1, q) <=> OnWay(E, n, q) \/ q \in Parents(e.path)
        /\ \A q : FromBelow(t, E, n + 1, q) <=> FromBelow(t, E, n, q)
        /\ IsLast(E, n + 1, e.path, n + 1)
        /\ \A q, i : q # e.path /\ IsLast(E, n, q, i) => IsLast(E, n + 1, q, i)
        /\ \A q : Behind(E, n + 1, q) <=> Behind(E, n, q)
        /\ \A q : BroughtAgain(E, n + 1, q) <=> BroughtAgain(E, n, q) \/ On(e, q)
    BY <1>5, OverlayAdd
  <2>3. On(e, p) <=> p = e.path \/ p \in Parents(e.path)
    BY <1>5 DEF On
  <2> HIDE DEF O, O1, v
  <2>4. CASE Behind(E, n, p)
    BY <1>4, <2>1, <2>2, <2>4 DEF Gains
  <2>5. CASE ~Behind(E, n, p)
    <3>1. p \in DOMAIN v <=> p \in DOMAIN O1
      BY <1>1, <1>2, <1>4, <2>1, <2>2, <2>3, <2>5 DEF Gains
    <3>2. ASSUME p \in DOMAIN v PROVE v[p] = O1[p]
      <4>1. CASE p = e.path
        BY <1>2, <2>1, <2>2, <4>1 DEF Gains, e
      <4>2. CASE p # e.path /\ p \in DOMAIN u
        <5>1. v[p] = O[p] /\ p \in DOMAIN O
          BY <1>4, <2>1, <2>5, <4>2 DEF Gains
        <5>2. CASE Added(E, n, p)
          <6>1. PICK i : IsLast(E, n, p, i)
            BY <1>3, <5>2
          <6> QED BY <1>1, <1>2, <2>2, <4>2, <5>1, <6>1
        <5>3. CASE ~Added(E, n, p)
          BY <1>1, <1>2, <2>2, <4>2, <5>1, <5>3
        <5> QED BY <5>2, <5>3
      <4>3. CASE p # e.path /\ p \notin DOMAIN u
        <5>1. p \in Parents(e.path) /\ v[p] = "dir"
          BY <2>1, <2>3, <3>2, <4>3 DEF Gains
        <5>2. p \notin DOMAIN O
          BY <1>4, <2>5, <4>3
        <5> QED BY <1>1, <1>2, <2>2, <4>3, <5>1, <5>2
      <4> QED BY <4>1, <4>2, <4>3
    <3> QED BY <2>2, <2>5, <3>1, <3>2
  <2> QED BY <2>4, <2>5
<1>6. CASE ~Brings(e)
  <2>0. e.kind \in {"named", "opaque"}
    BY <1>6 DEF Brings
  <2>1. Leaves(u, e, v)
    BY <2>0, RemovedHidden
  <2>2. /\ \A q : Added(E, n + 1, q) <=> Added(E, n, q)
        /\ \A q : OnWay(E, n + 1, q) <=> OnWay(E, n, q)
        /\ \A q : FromBelow(t, E, n + 1, q) <=> FromBelow(t, E, n, q) /\ ~Hides(e, q)
        /\ \A q, i : IsLast(E, n, q, i) => IsLast(E, n + 1, q, i)
        /\ \A q : Behind(E, n + 1, q) <=> Behind(E, n, q) \/ (Hides(e, q) /\ (Added(E, n, q) \/ OnWay(E, n, q)))
        /\ \A q : BroughtAgain(E, n + 1, q) <=> BroughtAgain(E, n, q) /\ ~Hides(e, q)
    BY <1>6, OverlayMarker
  <2> HIDE DEF O, O1, v, e
  <2>3. p \in DOMAIN v <=> p \in DOMAIN u /\ ~Hides(e, p)
    BY <2>1 DEF Leaves
  <2>4. CASE Behind(E, n, p)
    BY <1>4, <2>2, <2>3, <2>4
  <2>5. CASE ~Behind(E, n, p) /\ Hides(e, p)
    BY <1>2, <2>2, <2>3, <2>5
  <2>6. CASE ~Behind(E, n, p) /\ ~Hides(e, p)
    <3>1. p \in DOMAIN v <=> p \in DOMAIN O1
      BY <1>1, <1>2, <1>4, <2>2, <2>3, <2>6
    <3>2. ASSUME p \in DOMAIN v PROVE v[p] = O1[p]
      <4>1. v[p] = O[p] /\ p \in DOMAIN O
        BY <1>4, <2>1, <2>3, <2>6, <3>2 DEF Leaves
      <4>2. CASE Added(E, n, p)
        <5>1. PICK i : IsLast(E, n, p, i)
          BY <1>3, <4>2
        <5> QED BY <1>1, <1>2, <2>2, <4>1, <5>1
      <4>3. CASE ~Added(E, n, p)
        BY <1>1, <1>2, <2>2, <2>6, <4>1, <4>3
      <4> QED BY <4>2, <4>3
    <3> QED BY <2>2, <2>6, <3>1, <3>2
  <2> QED BY <2>4, <2>5, <2>6
<1> QED BY <1>5, <1>6

\* Taking an entry leaves a tree.
LEMMA TreeTaken ==
  ASSUME NEW S, NEW t, IsFcn(t), DOMAIN t \subseteq Seq(S), Tree(t),
         NEW e, e.path \in Seq(S), e.kind \in {"add", "hard", "named", "opaque"},
         e.kind = "hard" => e.content # "dir", ~Fails(t, e)
  PROVE  DOMAIN apply_entry(t, e) \subseteq Seq(S) /\ Tree(apply_entry(t, e))
<1>0. \A p \in DOMAIN t : p \in Seq(S) /\ (Len(p) > 1 => Front(p) \in DOMAIN t /\ t[Front(p)] = "dir")
  BY DEF Tree
<1>1. CASE ~Brings(e)
  <2> DEFINE u == apply_entry(t, e)
  <2>1. /\ \A p : p \in DOMAIN u <=> p \in DOMAIN t /\ ~Hides(e, p)
        /\ \A p \in DOMAIN u : u[p] = t[p]
    <3>1. e.path \in Seq(S) /\ e.kind \in {"named", "opaque"}
      BY <1>1 DEF Brings
    <3>2. Leaves(t, e, u)
      BY <3>1, RemovedHidden
    <3> HIDE DEF u
    <3> QED BY <3>2 DEF Leaves
  <2> HIDE DEF u
  <2>2. ASSUME NEW p \in DOMAIN u, Len(p) > 1
        PROVE  Front(p) \in DOMAIN u /\ u[Front(p)] = "dir"
    <3>1. p \in DOMAIN t /\ p \in Seq(S) /\ Front(p) \in DOMAIN t /\ t[Front(p)] = "dir"
      BY <1>0, <2>1, <2>2
    <3>2. Front(p) \in Seq(S) /\ IsStrictPrefix(Front(p), p)
      BY <2>2, <3>1, FrontOfPath
    <3>3. ~Hides(e, p)
      BY <2>1
    <3> DEFINE f == Front(p)
    <3> HIDE DEF f
    <3>4. f \in Seq(S) /\ IsStrictPrefix(f, p) => ~Hides(e, f)
      BY <3>1, <3>3, HiddenBelow
    <3> QED BY <2>1, <3>1, <3>2, <3>4 DEF f
  <2> QED BY <1>0, <2>1, <2>2 DEF Tree, u
<1>2. CASE Brings(e)
  <2> DEFINE q == e.path
             u == apply_entry(t, e)
  <2>1. Gains(t, e, u)
    BY <1>2, BroughtIn
  <2>2. /\ \A p \in Parents(q) : p \in DOMAIN t => t[p] = "dir"
        /\ q \in DOMAIN t => (t[q] = "dir" <=> e.content = "dir")
    BY <1>2 DEF Fails, Brings
  <2>3. \A p : On(e, p) <=> p = q \/ p \in Parents(q)
    BY <1>2 DEF On
  <2>4. q \in Seq(S)
    OBVIOUS
  <2> HIDE DEF u
  <2>5. \A p \in Parents(q) : /\ p \in Seq(S) /\ p # q
                              /\ Len(p) > 1 => Front(p) \in Parents(q)
    BY <2>4, ParentsOfPath DEF IsStrictPrefix
  <2>6. \A p \in Parents(q) : p \in DOMAIN u /\ u[p] = "dir"
    BY <2>1, <2>2, <2>3, <2>5 DEF Gains
  <2>7. ASSUME NEW p \in DOMAIN u, Len(p) > 1
        PROVE  Front(p) \in DOMAIN u /\ u[Front(p)] = "dir"
    <3>1. CASE p = q
      <4>1. Front(p) \in Parents(q)
        BY <2>4, <2>7, <3>1, FrontOfPath
      <4> QED BY <2>6, <4>1
    <3>2. CASE p \in Parents(q)
      BY <2>5, <2>6, <2>7, <3>2
    <3>3. CASE p \in DOMAIN t
      <4>1. Front(p) \in DOMAIN t /\ t[Front(p)] = "dir"
        BY <1>0, <2>7, <3>3
      <4> QED BY <4>1, <2>1, <2>2 DEF Gains
    <3> QED BY <2>1, <2>3, <3>1, <3>2, <3>3 DEF Gains
  <2>8. DOMAIN u \subseteq Seq(S)
    BY <1>0, <2>1, <2>3, <2>4, <2>5 DEF Gains
  <2> QED BY <2>7, <2>8 DEF Tree, u
<1> QED BY <1>1, <1>2

\* Where a tree has a directory, or something else, the layers below or an entry say so.
Sorts(u, t, E, n) ==
  \A p \in DOMAIN u :
    /\ u[p] = "dir" =>
         \/ p \in DOMAIN t /\ t[p] = "dir"
         \/ \E i \in 1 .. n : IsStrictPrefix(p, E[i].path) \/ (p = E[i].path /\ E[i].content = "dir")
    /\ u[p] # "dir" =>
         \/ p \in DOMAIN t /\ t[p] # "dir"
         \/ \E i \in 1 .. n : p = E[i].path /\ E[i].content # "dir"

\* Every entry keeps to it.
LEMMA SortsNext ==
  ASSUME NEW S, NEW t, NEW E, NEW n \in Nat, NEW u, Sorts(u, t, E, n),
         E[n + 1].path \in Seq(S), E[n + 1].kind \in {"add", "hard", "named", "opaque"}
  PROVE  Sorts(apply_entry(u, E[n + 1]), t, E, n + 1)
<1> DEFINE e == E[n + 1]
           v == apply_entry(u, e)
<1>1. /\ n + 1 \in 1 .. n + 1
      /\ \A i \in 1 .. n : i \in 1 .. n + 1
  OBVIOUS
<1>2. \A p \in Parents(e.path) : IsStrictPrefix(p, e.path)
  BY ParentsOfPath
<1>3. Brings(e) => Gains(u, e, v)
  BY BroughtIn
<1>4. ~Brings(e) => Leaves(u, e, v)
  BY RemovedHidden DEF Brings
<1>5. \A p : On(e, p) => p = e.path \/ p \in Parents(e.path)
  BY DEF On
<1> HIDE DEF v
<1>6. ASSUME NEW p \in DOMAIN v
      PROVE  \/ p \in DOMAIN u /\ v[p] = u[p]
             \/ p = e.path /\ v[p] = e.content
             \/ IsStrictPrefix(p, e.path) /\ v[p] = "dir"
  <2>1. CASE Brings(e)
    BY <1>2, <1>3, <1>5, <1>6, <2>1 DEF Gains
  <2>2. CASE ~Brings(e)
    BY <1>4, <1>6, <2>2 DEF Leaves
  <2> QED BY <2>1, <2>2
<1>7. ASSUME NEW p \in DOMAIN v
      PROVE  /\ v[p] = "dir" =>
                  \/ p \in DOMAIN t /\ t[p] = "dir"
                  \/ \E i \in 1 .. n + 1 : IsStrictPrefix(p, E[i].path) \/ (p = E[i].path /\ E[i].content = "dir")
             /\ v[p] # "dir" =>
                  \/ p \in DOMAIN t /\ t[p] # "dir"
                  \/ \E i \in 1 .. n + 1 : p = E[i].path /\ E[i].content # "dir"
  <2>1. CASE p \in DOMAIN u /\ v[p] = u[p]
    BY <1>1, <2>1 DEF Sorts
  <2>2. CASE p = e.path /\ v[p] = e.content
    BY <1>1, <2>2
  <2>3. CASE IsStrictPrefix(p, e.path) /\ v[p] = "dir"
    BY <1>1, <2>3
  <2> QED BY <1>6, <1>7, <2>1, <2>2, <2>3
<1> QED BY <1>7 DEF Sorts, v

\* An entry that cannot be applied is in something's way, or a hard link.
LEMMA FailureClashes ==
  ASSUME NEW S, NEW t, NEW E, NEW n \in Nat, n + 1 \in DOMAIN E, 1 .. n \subseteq DOMAIN E,
         NEW u, Sorts(u, t, E, n),
         E[n + 1].path \in Seq(S), E[n + 1].kind \in {"add", "named", "opaque"},
         ~Brings(E[n + 1]) => E[n + 1].content = "dir",
         Fails(u, E[n + 1])
  PROVE  Clash(t, E)
<1> DEFINE e == E[n + 1]
           IsDir(p)  == \/ p \in DOMAIN t /\ t[p] = "dir"
                        \/ \E i \in DOMAIN E : IsStrictPrefix(p, E[i].path) \/ (p = E[i].path /\ E[i].content = "dir")
           IsFile(p) == \/ p \in DOMAIN t /\ t[p] # "dir"
                        \/ \E i \in DOMAIN E : p = E[i].path /\ E[i].content # "dir"
<1>1. \A i \in 1 .. n : i \in DOMAIN E
  OBVIOUS
<1>2. e.path \in Seq(S)
  OBVIOUS
<1>3. ASSUME NEW p \in DOMAIN u
      PROVE  (u[p] = "dir" => IsDir(p)) /\ (u[p] # "dir" => IsFile(p))
  BY <1>1 DEF Sorts
<1>4. ASSUME NEW p, IsDir(p), IsFile(p)
      PROVE  Clash(t, E)
  BY <1>4 DEF Clash
<1>5. e.content = "dir" => IsDir(e.path)
  OBVIOUS
<1>6. e.content # "dir" => IsFile(e.path)
  OBVIOUS
<1>7. ASSUME NEW p \in Parents(e.path)
      PROVE  IsDir(p)
  <2>1. IsStrictPrefix(p, e.path)
    BY <1>2, <1>7, ParentsOfPath
  <2> QED BY <2>1
<1>8. e.kind \in {"add", "named", "opaque"} /\ (e.kind # "add" => e.content = "dir") /\ Fails(u, e)
  BY DEF Brings
<1> HIDE DEF e, IsDir, IsFile
<1>9. CASE e.kind = "opaque"
  BY <1>3, <1>4, <1>5, <1>8, <1>9 DEF Fails
<1>10. CASE e.kind = "named"
  BY <1>8, <1>10 DEF Fails
<1>11. CASE e.kind = "add"
  BY <1>3, <1>4, <1>5, <1>6, <1>7, <1>8, <1>11 DEF Fails
<1> QED BY <1>8, <1>9, <1>10, <1>11

-----------------------------------------------------------------------------
(* Layers: the invariant *)

\* A tree, and a layer for it.
Image(S, C, t, E) ==
  /\ IsFcn(t) /\ DOMAIN t \subseteq Seq(S) /\ Tree(t)
  /\ E \in Seq(Entries(Seq(S), C))

LayerInv(S, C) ==
  /\ Image(S, C, lower, layer)
  /\ applied \in 0 .. Len(layer)
  /\ failed \in BOOLEAN /\ astray \in BOOLEAN
  /\ ~astray =>
       IF failed THEN Clash(lower, layer) \/ layer[applied + 1].kind = "hard"
       ELSE /\ IsFcn(tree) /\ Tree(tree) /\ DOMAIN tree \subseteq Seq(S)
            /\ \A p : AsLayered(tree, lower, layer, applied, p)
            /\ Sorts(tree, lower, layer, applied)

\* The fields of an entry.
LEMMA EntriesTyped ==
  ASSUME NEW S, NEW C, NEW E \in Seq(Entries(Seq(S), C)), NEW i \in 1 .. Len(E)
  PROVE  /\ E[i].path \in Seq(S)
         /\ E[i].kind \in {"add", "hard", "named", "opaque"}
         /\ ~Brings(E[i]) => E[i].content = "dir"
         /\ E[i].kind = "hard" => E[i].content # "dir"
<1>1. E[i] \in Entries(Seq(S), C)
  OBVIOUS
<1> DEFINE Paths == Seq(S)
<1> HIDE DEF Paths
<1>2. \A e \in Entries(Paths, C) :
        /\ e.path \in Paths
        /\ e.kind \in {"add", "hard", "named", "opaque"}
        /\ ~Brings(e) => e.content = "dir"
        /\ e.kind = "hard" => e.content # "dir"
  BY DEF Entries
<1> QED BY <1>1, <1>2 DEF Paths

\* No entry is applied yet.
LEMMA LayerStarts ==
  ASSUME NEW S, NEW C, NEW t, NEW E, Image(S, C, t, E), LayerInit(t, E)
  PROVE  LayerInv(S, C)
<1>1. lower = t /\ tree = t /\ layer = E /\ applied = 0 /\ failed = FALSE /\ astray = FALSE
  BY DEF LayerInit
<1>2. Len(E) \in Nat
  BY DEF Image
<1>3. 0 \in 0 .. Len(E)
  BY <1>2
<1>4. Overlay(t, E, 0) = t
  BY OverlayNothing DEF Image
<1>5. \A p : AsLayered(t, t, E, 0, p)
  <2>1. \A p : ~Behind(E, 0, p)
    BY DEF Behind
  <2> QED BY <1>4, <2>1 DEF AsLayered
<1>6. Sorts(t, t, E, 0)
  BY DEF Sorts
<1> QED BY <1>1, <1>3, <1>5, <1>6 DEF LayerInv, Image

\* Every entry keeps the invariant, applied or not (apply_layer).
LEMMA LayerStep ==
  ASSUME NEW S, NEW C, LayerInv(S, C), apply_layer
  PROVE  LayerInv(S, C)'
<1> DEFINE n == applied
           e == layer[n + 1]
<1>1. /\ ~failed /\ ~astray /\ applied < Len(layer) /\ lower' = lower /\ layer' = layer
      /\ failed' \in BOOLEAN /\ astray' \in BOOLEAN
      /\ failed' \/ astray' => tree' = tree /\ applied' = applied
      /\ ~(failed' \/ astray') => tree' = apply_entry(tree, e) /\ applied' = n + 1
      /\ ~astray' => (failed' <=> Fails(tree, e)) \/ (failed' /\ e.kind = "hard")
  <2>1. /\ ~failed /\ ~astray /\ applied < Len(layer) /\ lower' = lower /\ layer' = layer
        /\ failed' \/ astray' => tree' = tree /\ applied' = applied
        /\ ~(failed' \/ astray') => tree' = apply_entry(tree, e) /\ applied' = n + 1
    BY DEF apply_layer
  <2>2. \/ astray' = TRUE /\ failed' = failed
        \/ /\ astray' = astray
           /\ failed' = Fails(tree, e) \/ failed' = (Fails(tree, e) \/ e.kind = "hard")
    BY Zenon DEF apply_layer
  <2>3. failed = FALSE /\ astray = FALSE /\ Fails(tree, e) \in BOOLEAN
    BY <2>1 DEF LayerInv, Fails
  <2>4. failed' \in BOOLEAN /\ astray' \in BOOLEAN
    BY <2>2, <2>3
  <2> HIDE DEF e
  <2>5. ~astray' => (failed' <=> Fails(tree, e)) \/ (failed' /\ e.kind = "hard")
    BY <2>2, <2>3, <2>4
  <2> QED BY <2>1, <2>4, <2>5
<1>2. /\ n \in Nat /\ n \in 0 .. Len(layer) /\ Len(layer) \in Nat
      /\ layer \in Seq(Entries(Seq(S), C)) /\ DOMAIN layer = 1 .. Len(layer)
  BY DEF LayerInv, Image
<1>3. n + 1 \in 1 .. Len(layer) /\ n + 1 \in 0 .. Len(layer) /\ 1 .. n \subseteq DOMAIN layer
  BY <1>1, <1>2
<1>4. /\ e.path \in Seq(S) /\ e.kind \in {"add", "hard", "named", "opaque"}
      /\ ~Brings(e) => e.content = "dir"
      /\ e.kind = "hard" => e.content # "dir"
  BY <1>2, <1>3, EntriesTyped
<1>5. Image(S, C, lower, layer)'
  BY <1>1 DEF LayerInv, Image
<1>6. applied' \in 0 .. Len(layer') /\ failed' \in BOOLEAN /\ astray' \in BOOLEAN
  BY <1>1, <1>2, <1>3
<1>7. /\ IsFcn(tree) /\ Tree(tree) /\ DOMAIN tree \subseteq Seq(S)
      /\ \A p : AsLayered(tree, lower, layer, n, p)
      /\ Sorts(tree, lower, layer, n)
  BY <1>1 DEF LayerInv
<1>8. ASSUME ~astray', failed'
      PROVE  Clash(lower, layer) \/ e.kind = "hard"
  <2> SUFFICES ASSUME e.kind # "hard" PROVE Clash(lower, layer)
    OBVIOUS
  <2>1. Fails(tree, e)
    BY <1>1, <1>8
  <2>2. e.kind \in {"add", "named", "opaque"}
    BY <1>4
  <2> HIDE DEF n
  <2> QED BY <1>2, <1>3, <1>4, <1>7, <2>1, <2>2, FailureClashes
<1>9. ASSUME ~astray', ~failed'
      PROVE  /\ IsFcn(tree') /\ Tree(tree') /\ DOMAIN tree' \subseteq Seq(S)
             /\ \A p : AsLayered(tree', lower, layer, n + 1, p)
             /\ Sorts(tree', lower, layer, n + 1)
  <2>1. tree' = apply_entry(tree, e) /\ ~Fails(tree, e)
    BY <1>1, <1>9
  <2> HIDE DEF n
  <2>2. Tree(tree') /\ DOMAIN tree' \subseteq Seq(S)
    BY <1>4, <1>7, <2>1, TreeTaken
  <2>3. \A p : AsLayered(tree', lower, layer, n + 1, p)
    BY <1>2, <1>4, <1>7, <2>1, LayeredNext
  <2>4. Sorts(tree', lower, layer, n + 1)
    BY <1>2, <1>4, <1>7, <2>1, SortsNext
  <2>5. IsFcn(tree')
    <3>1. Brings(e) => Gains(tree, e, tree')
      BY <2>1, BroughtIn
    <3>2. ~Brings(e) => Leaves(tree, e, tree')
      BY <1>4, <2>1, RemovedHidden DEF Brings
    <3> QED BY <3>1, <3>2 DEF Gains, Leaves
  <2> QED BY <2>2, <2>3, <2>4, <2>5
<1>10. ~astray' => IF failed' THEN Clash(lower, layer) \/ layer[applied' + 1].kind = "hard"
                   ELSE /\ IsFcn(tree') /\ Tree(tree') /\ DOMAIN tree' \subseteq Seq(S)
                        /\ \A p : AsLayered(tree', lower, layer, applied', p)
                        /\ Sorts(tree', lower, layer, applied')
  BY <1>1, <1>8, <1>9
<1> QED BY <1>1, <1>5, <1>6, <1>10 DEF LayerInv

\* The image specification follows from the invariant.
LEMMA LayerFollows ==
  ASSUME NEW S, NEW C, LayerInv(S, C)
  PROVE  ImagesFlattened
BY DEF LayerInv, ImagesFlattened

-----------------------------------------------------------------------------
(* The theorems of the specification *)

\* The input never changes, the parser and its events stand together, and the tree is the
\* overlay of the entries applied.
InputsInv ==
  /\ x \in (Networks \cup Firewalls \cup Environments \cup Commands \cup Starts \cup Streams \cup Queries)
             \cup {Parser, Layer}
  /\ ParserInv
  /\ LayerInv(STRING, STRING)

\* What an input is of tells which constant it is from.
LEMMA InputsApart ==
  ASSUME InputsInv
  PROVE  /\ x.of = "networks" => x \in Networks
         /\ x.of = "firewall" => x \in Firewalls
         /\ x.of = "environment" => x \in Environments
         /\ x.of = "command" => x \in Commands
         /\ x.of = "start" => x \in Starts
         /\ x.of = "stream" => x \in Streams
         /\ x.of = "query" => x \in Queries
<1>1. /\ \A i \in Networks : i.of = "networks"
      /\ \A i \in Firewalls : i.of = "firewall"
      /\ \A i \in Environments : i.of = "environment"
      /\ \A i \in Commands : i.of = "command"
      /\ \A i \in Starts : i.of = "start"
      /\ \A i \in Streams : i.of = "stream"
      /\ \A i \in Queries : i.of = "query"
  BY InputsAssumption
<1>2. Parser.of = "parser" /\ Layer.of = "layer"
  BY DEF Parser, Layer
<1> QED BY <1>1, <1>2 DEF InputsInv

\* No tree and no entries.
LEMMA NoImage == ASSUME NEW S, NEW C PROVE Image(S, C, << >>, << >>)
<1>1. DOMAIN << >> = {} /\ IsFcn(<< >>) /\ Tree(<< >>)
  BY DEF IsFcn, Tree
<1>2. << >> \in Seq(Entries(Seq(S), C))
  BY EmptySeq
<1> QED BY <1>1, <1>2 DEF Image

\* InputsInv holds of every input.
LEMMA InputsStart == Init => InputsInv
<1> SUFFICES ASSUME Init PROVE InputsInv
  OBVIOUS
<1>1. x \in (Networks \cup Firewalls \cup Environments \cup Commands \cup Starts \cup Streams \cup Queries)
              \cup {Parser, Layer}
  BY DEF Init
<1>2. ParserInv
  BY ParserStarts DEF Init
<1>3. LayerInv(STRING, STRING)
  <2>1. CASE LayerInit(<< >>, << >>)
    BY <2>1, NoImage, LayerStarts
  <2>2. CASE \E m \in Images : LayerInit(m.tree, m.layer)
    <3>1. PICK m \in Images : LayerInit(m.tree, m.layer)
      BY <2>2
    <3>2. Image(STRING, STRING, m.tree, m.layer)
      BY ImagesAssumption DEF Image, IsFcn
    <3> QED BY <3>1, <3>2, LayerStarts
  <2> QED BY <2>1, <2>2 DEF Init
<1> QED BY <1>1, <1>2, <1>3 DEF InputsInv

\* InputsInv is kept by every line, by the end of a stream and by every entry.
LEMMA InputsStep == InputsInv /\ [Next]_vars => InputsInv'
<1> SUFFICES ASSUME InputsInv, [Next]_vars PROVE InputsInv'
  OBVIOUS
<1>1. x' = x
  BY DEF Next, vars
<1>2. UNCHANGED adapterVars => ParserInv'
  BY DEF InputsInv, ParserInv, adapterVars
<1>3. UNCHANGED layerVars => LayerInv(STRING, STRING)'
  BY DEF InputsInv, LayerInv, Image, layerVars
<1>4. CASE AdapterNext /\ UNCHANGED layerVars
  <2>1. ASSUME NEW l \in Lines(adapter), Feed(l)
        PROVE  ParserInv'
    BY <2>1, ParserFed DEF InputsInv
  <2>2. ASSUME Flush
        PROVE  ParserInv'
    BY <2>2, ParserFlushed DEF InputsInv
  <2>3. ParserInv'
    BY <1>4, <2>1, <2>2 DEF AdapterNext
  <2> QED BY <1>1, <1>3, <1>4, <2>3 DEF InputsInv
<1>5. CASE apply_layer /\ UNCHANGED adapterVars
  <2>1. LayerInv(STRING, STRING)'
    BY <1>5, LayerStep DEF InputsInv
  <2> QED BY <1>1, <1>2, <1>5, <2>1 DEF InputsInv
<1>6. CASE UNCHANGED vars
  BY <1>1, <1>2, <1>3, <1>6 DEF InputsInv, vars
<1> QED BY <1>4, <1>5, <1>6 DEF Next

\* InputsInv is an invariant.
THEOREM InputsInvariant == Spec => []InputsInv
BY InputsStart, InputsStep, PTL DEF Spec

\* Turns, tool calls and token counts come out of every parser as the contract has them,
\* whatever lines the agent prints (parse_line, flush).
THEOREM AdaptersContract == Spec => []ContractKept
<1>1. InputsInv => ContractKept
  BY ContractFollows DEF InputsInv
<1> QED BY <1>1, InputsInvariant, PTL

\* Two Runs' networks are apart unless their hashes agree (derive_run_network).
THEOREM NetworksAreApart == Spec => []RunsHaveNetworks
<1>1. InputsInv => RunsHaveNetworks
  <2> SUFFICES ASSUME InputsInv, x.of = "networks" PROVE net!NetworksApart(x.h, x.k)
    BY DEF RunsHaveNetworks
  <2>1. x.h \in net!Hashes /\ x.k \in net!Hashes
    BY InputsApart, InputsAssumption
  <2> QED BY <2>1, NetworkApart
<1> QED BY <1>1, InputsInvariant, PTL

\* A Run is let start just when the host's firewall lets its packets in, as far as rules
\* with a source tell (parse_iptables_save).
THEOREM FirewallIsJudged == Spec => []FirewallsJudged
<1>1. InputsInv => FirewallsJudged
  <2> SUFFICES ASSUME InputsInv, x.of = "firewall" PROVE net!FirewallJudged(x.lines)
    BY DEF FirewallsJudged
  <2>1. x.lines \in Seq(net!Rules)
    BY InputsApart, InputsAssumption
  <2> QED BY <2>1, FirewallSound
<1> QED BY <1>1, InputsInvariant, PTL

\* The agent's environment has the order of precedence that is meant, and its endpoints are
\* those of the model its command names (build_sandbox_spec_json, effective_egress_policy).
THEOREM SpecIsHonoured == Spec => []SpecHonoured
<1>1. InputsInv => SpecHonoured
  <2> SUFFICES ASSUME InputsInv PROVE SpecHonoured
    OBVIOUS
  <2>1. ASSUME x.of = "environment"
        PROVE  spec!AgentEnvironment(x)
    <3>1. x.proxy \in BOOLEAN
      BY <2>1, InputsApart, InputsAssumption
    <3> QED BY <3>1, EnvironmentKept
  <2>2. ASSUME x.of = "command"
        PROVE  spec!ServerDeclared(x.options, x)
    <3>1. x \in Commands
      BY <2>2, InputsApart
    <3>2. /\ x.adapter \in spec!Adapters /\ x.options \in Seq(spec!Options) /\ x.cmd \in Seq(spec!CommandWords)
          /\ spec!LaidOut(x.cmd, x.options, x.at)
      BY <3>1, InputsAssumption
    <3>3. Laid(x.cmd, x.options, x.at)
      BY <3>2 DEF Laid
    <3> QED BY <3>2, <3>3, EndpointsDeclared
  <2> QED BY <2>1, <2>2 DEF SpecHonoured
<1> QED BY <1>1, InputsInvariant, PTL

\* Root drops to the user it acts for, with that user's directories, or does not start
\* (resolve_and_drop).
THEOREM RootIsDropped == Spec => []RootDropped
<1>1. InputsInv => RootDropped
  <2> SUFFICES ASSUME InputsInv, x.of = "start" PROVE user!DropIsSafe(x.inputs, x.env)
    BY DEF RootDropped
  <2>1. x.inputs \in user!Inputs /\ UserAssumption
    BY InputsApart, InputsAssumption
  <2> QED BY <2>1, DropSafe
<1> QED BY <1>1, InputsInvariant, PTL

\* Every layer, of any length over any tree, is applied as the image specification has it
\* (apply_layer).
THEOREM ImagesAreFlattened == Spec => []ImagesFlattened
<1>1. InputsInv => ImagesFlattened
  BY LayerFollows DEF InputsInv
<1> QED BY <1>1, InputsInvariant, PTL

\* A stream cut into any pieces is redacted as if it came whole, unless one secret lies
\* within another, and no event has a secret in it (redact, flush, emit).
THEOREM SecretsStayIn == Spec => []SecretsRedacted
<1>1. InputsInv => SecretsRedacted
  <2> SUFFICES ASSUME InputsInv, x.of = "stream" PROVE RedactedWhole(x.chunks, x.secrets)
    BY DEF SecretsRedacted
  <2>1. x \in Streams
    BY InputsApart
  <2>2. /\ x.chunks \in Seq(Seq(Characters)) /\ x.secrets \subseteq Secrets
        /\ IsFiniteSet(x.secrets) /\ Apart(x.secrets)
    BY <2>1, InputsAssumption
  <2> QED BY <2>2, StreamsAreRedacted DEF Pieces
<1> QED BY <1>1, InputsInvariant, PTL

\* The names that are judged are all those that are asked, in lower case; a query cut short, with
\* a pointer or with a name too long is not judged; and a refusal asks the same back, whatever
\* follows the questions (parse_dns_query, build_refused_response).
THEOREM QuestionsAreKept == Spec => []QuestionsKept
<1>1. InputsInv => QuestionsKept
  <2> SUFFICES ASSUME InputsInv, x.of = "query" PROVE DnsRoundTrip(x.questions, x.extra, x.cut)
    BY DEF QuestionsKept
  <2>1. x.questions \in Seq(Seq(Labels)) /\ x.extra \in Seq(0 .. 255) /\ x.cut \in Nat
    BY InputsApart, InputsAssumption
  <2> QED BY <2>1, QuestionsRoundTrip
<1> QED BY <1>1, InputsInvariant, PTL
=============================================================================
