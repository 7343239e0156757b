------------------------------ MODULE MCInputs ------------------------------
(* Bounded sets of inputs for Inputs.tla: small, and around the boundaries. *)
EXTENDS Inputs, FiniteSets

UpTo(S, n) == UNION {[1 .. k -> S] : k \in 0 .. n}

\* Both ends of the hash, of the 14 bits that count and of an octet.
MCHashes == {0, 1, 2, 63, 64, 65, 16383, 16384, 16385, 16447, 32767, 32768, 65535}
MCNetworks == [of : {"networks"}, h : MCHashes, k : MCHashes]

\* Sources inside, outside and around 169.254.0.0/16.
MCSources ==
  {net!NoSource} \cup [ip : {<<net!LinkLocal, 0>>, <<net!LinkLocal, 4>>, <<43520, 0>>, <<2560, 1>>},
                       prefix : {0, 1, 7, 15, 16, 17, 30, 32, net!BadPrefix}]
MCRule(c, t, s, negated, narrow) ==
  [kind |-> "rule", chain |-> c, target |-> t, src |-> s, negated |-> negated, narrow |-> narrow]
MCPolicies ==
  {[kind |-> "policy", chain |-> c, target |-> t, src |-> net!NoSource, negated |-> FALSE, narrow |-> FALSE] :
     c \in {"INPUT", "FORWARD"}, t \in {"ACCEPT", "DROP"}}
MCRules ==
  MCPolicies \cup {MCRule("INPUT", t, s, FALSE, FALSE) : t \in {"ACCEPT", "DROP"}, s \in MCSources}

\* Behind a policy that drops: rules that are narrow, negated, in chains two deep, or
\* behind one that drops or returns.
MCRange == [ip |-> <<net!LinkLocal, 0>>, prefix |-> 16]
MCChained ==
  {MCRule("INPUT", t, net!NoSource, FALSE, n) : t \in {"ufw", "ufw-user", "REJECT", "RETURN"}, n \in BOOLEAN}
  \cup {MCRule("ufw", t, net!NoSource, FALSE, FALSE) : t \in {"ufw-user", "RETURN"}}
  \cup {MCRule(c, "ACCEPT", MCRange, g, n) : c \in {"INPUT", "ufw-user"}, g \in BOOLEAN, n \in BOOLEAN}
MCFirewalls ==
  [of : {"firewall"},
   lines : UpTo(MCRules, 2)
           \cup {<<p>> \o rest : p \in {q \in MCPolicies : q.chain = "INPUT"}, rest \in UpTo(MCChained, 3)}]

\* At most two variables given, by anyone.
MCKeys == spec!Keys \cup {"TOKEN"}
MCEnvironments ==
  {e \in [of : {"environment"}, adapter : {"pi", "codex"}, proxy : BOOLEAN, env : SUBSET MCKeys,
          secrets : SUBSET MCKeys, pid1 : SUBSET MCKeys] :
     Cardinality(e.env \cup e.secrets \cup e.pid1) <= 2}

\* Up to two options, in one word or two each, and where each begins.
MCOptions == [name : {"--model", "--provider", "--message"}, joined : BOOLEAN,
              value : {spec!Value(n, s) : n \in {"anthropic", "google", "ollama"}, s \in BOOLEAN}
                      \cup {spec!Empty}]
Words(o) == IF o.joined THEN <<spec!Joined(o.name, o.value)>> ELSE <<spec!Flag(o.name), o.value>>
Written(options, who, endpoints, image) ==
  LET lens == [i \in DOMAIN options |-> Len(Words(options[i]))]
  IN  [of |-> "command", adapter |-> who, options |-> options,
       cmd |-> FlattenSeq([i \in DOMAIN options |-> Words(options[i])]),
       at |-> [i \in DOMAIN options |-> IF i = 1 THEN 1 ELSE 1 + lens[1]],
       endpoints |-> endpoints, image |-> image]
MCCommands ==
  {Written(o, a, e, i) : o \in UpTo(MCOptions, 2), a \in spec!Adapters, e \in {{}, {"own"}},
                         i \in {"none", "own"}}

\* Directories "a" and files in it, and "b", a file or a directory.
MCPaths == {<<"a">>, <<"b">>, <<"a", "c">>, <<"a", "d">>, <<"a", "c", "d">>}
MCTrees == {t \in UNION {[P -> {"dir", "old", "link"}] : P \in SUBSET MCPaths} : Tree(t)}
MCEntry(k, p, c) == [kind |-> k, path |-> p, content |-> c]
MCEntries ==
  {MCEntry("add", p, c) : p \in MCPaths, c \in {"dir", "new", "newer", "link"}}
  \cup {MCEntry("hard", p, "new") : p \in MCPaths} \cup {MCEntry("named", p, "dir") : p \in MCPaths}
  \cup {MCEntry("opaque", p, "dir") : p \in {<< >>, <<"a">>, <<"b">>, <<"a", "c">>}}

\* What a marker takes away comes again, or does not.
MCMarked ==
  {MCEntry("add", <<"a", "c">>, "new"), MCEntry("add", <<"a", "d">>, "new"), MCEntry("named", <<"a", "c">>, "dir"),
   MCEntry("named", <<"a">>, "dir"), MCEntry("opaque", <<"a">>, "dir")}
MCImages == [tree : MCTrees, layer : UpTo(MCEntries, 2) \cup [1 .. 3 -> MCMarked]]

MCPasswd   == {"root", "alice", "bob", "nohome"}
MCAccounts == MCPasswd \cup {"unknown"}
MCHomes    == MCPasswd \ {"nohome"}
\* Bob's group is root's, and alice is in two.  Root starts with its own groups, and
\* anyone else with some of theirs.
MCGroups   == {"root", "staff", "docker"}
MCGroupOf  == [u \in MCPasswd |-> IF u \in {"root", "bob"} THEN "root" ELSE "staff"]
MCMembers  == [u \in MCPasswd |-> IF u = "alice" THEN {"docker"} ELSE {}]
MCIds == {i \in [euid : MCAccounts, ruid : MCAccounts] : i.euid \in {"root", i.ruid}}
MCStartGroups(ruid) ==
  IF ruid = "root" THEN [gid |-> "root", groups |-> {"root", "docker"}] ELSE [gid |-> "staff", groups |-> {"staff"}]
MCStarts ==
  [of : {"start"},
   inputs : {[as_user |-> a, euid |-> i.euid, ruid |-> i.ruid, sudo_uid |-> s, sudo_gid |-> g, sudo_user |-> n,
              gid |-> MCStartGroups(i.ruid).gid, groups |-> MCStartGroups(i.ruid).groups] :
               a \in MCAccounts \cup {"none"}, i \in MCIds, s \in MCAccounts \cup {"none"},
               g \in {"root", "docker", "none"}, n \in MCAccounts \cup {"none"}},
   env : [HOME : {user!Unset, user!Path("root", ""), user!Path("alice", "")},
          XDG_DATA_HOME : {user!Unset, user!Path("elsewhere", "")},
          XDG_CACHE_HOME : {user!Unset, user!Path("elsewhere", "")}]]

MCCharacters == {"a", "b", "quote", "\\", "newline", "n", "<A>", "<B>"}
MCValues == UpTo({"a", "b"}, 3) \cup {<<"quote">>, <<"\\", "a">>}
MCSecrets == {{}} \cup {{[name |-> "<A>", value |-> v]} : v \in MCValues}
           \cup {{[name |-> "<A>", value |-> v], [name |-> "<B>", value |-> w]} : v \in MCValues, w \in MCValues}
MCStreams == [of : {"stream"}, secrets : MCSecrets,
              chunks : {<<c, d>> : c \in UpTo({"a", "b"}, 3), d \in UpTo({"a", "b"}, 2) \cup {<<"quote", "a">>, <<"newline", "\\">>}}]

\* Names around 255 bytes, and labels around 63.
MCNames == {<< >>, <<1>>, <<63>>, <<64>>, <<2, 1>>, <<63, 63, 63, 61>>, <<63, 63, 63, 62>>, <<63, 63, 63, 63>>}
MCQuestions == {[i \in DOMAIN n |-> [k \in 1 .. n[i] |-> c]] : n \in MCNames, c \in {64, 65, 90, 91}}
MCQueries == [of : {"query"}, questions : UpTo(MCQuestions, 2), extra : {<< >>, <<0>>, <<192, 12>>},
               cut : {1, 4, 5, 6, 66}]
=============================================================================
