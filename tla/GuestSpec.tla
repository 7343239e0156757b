----------------------------- MODULE GuestSpec -----------------------------
(***************************************************************************)
(* What a Sandbox Run is given: the environment, from the run spec through *)
(* build_sandbox_spec_json (sandbox.rs) to the envp that bunsen-init hands *)
(* to execvpe, and the endpoints and the image that run_spec.rs and the    *)
(* adapters add to what the User Script asked for.                         *)
(***************************************************************************)
EXTENDS Naturals, Sequences

\* The variables that are set without being asked for, a kind each: forced to the proxy;
\* its exceptions; pi's directory; HOME; one the kernel makes of a bunsen_ token.
Keys == {"HTTPS_PROXY", "NO_PROXY", "PI_CODING_AGENT_DIR", "HOME", "bunsen_init_debug"}

\* An environment is a function from some keys to who gave the value.
Env(keys, who) == [k \in keys |-> who]

\* One environment over another.
Over(e, f) == [k \in DOMAIN e \cup DOMAIN f |-> IF k \in DOMAIN e THEN e[k] ELSE f[k]]

\* entry(k).or_insert: what is there stays.
Default(env, k, v) == Over(env, Env({k}, v))

\* Inserted over whatever is there; the bypass is a default.
InjectProxy(env, proxy) ==
  IF proxy THEN Default(Over(Env({"HTTPS_PROXY"}, "proxy"), env), "NO_PROXY", "bunsen") ELSE env

build_sandbox_spec_json(s) ==
  LET overlaid == Over(Env(s.secrets, "secret"), Env(s.env, "user"))
      pi == IF s.adapter = "pi" THEN Default(overlaid, "PI_CODING_AGENT_DIR", "bunsen")
                                ELSE overlaid
  IN  InjectProxy(pi, s.proxy)

\* The guest: the spec's variables first, then HOME, then PID 1's own but for bunsen_*.
GuestEnvp(env, pid1) ==
  Over(Default(env, "HOME", "bunsen"), Env(pid1 \ {"bunsen_init_debug"}, "pid1"))

\* Of the values a variable could get, the agent has the first in this order, and no
\* other: the proxy's, which nobody can override; a secret; the User Script's; a default
\* of bunsen's; one that PID 1 was booted with, unless it is bunsen's own.
AgentEnvironment(s) ==
  LET final == GuestEnvp(build_sandbox_spec_json(s), s.pid1)
      forced == IF s.proxy THEN {"HTTPS_PROXY"} ELSE {}
      given == {"HOME"} \cup (IF s.proxy THEN {"NO_PROXY"} ELSE {})
                 \cup (IF s.adapter = "pi" THEN {"PI_CODING_AGENT_DIR"} ELSE {})
      layers == <<[who |-> "proxy", keys |-> forced], [who |-> "secret", keys |-> s.secrets],
                  [who |-> "user", keys |-> s.env], [who |-> "bunsen", keys |-> given],
                  [who |-> "pid1", keys |-> s.pid1 \ {"bunsen_init_debug"}]>>
  IN  \A k \in Keys \cup s.env \cup s.secrets \cup s.pid1 :
        IF \E i \in DOMAIN layers : k \in layers[i].keys
          THEN /\ k \in DOMAIN final
               /\ \E i \in DOMAIN layers :
                    /\ k \in layers[i].keys /\ final[k] = layers[i].who
                    /\ \A j \in 1 .. i - 1 : k \notin layers[j].keys
          ELSE k \notin DOMAIN final

-----------------------------------------------------------------------------
(* Endpoints and image *)

Vendors  == {"anthropic", "openai", "google"}
Adapters == {"claude-code", "aider", "codex", "pi", "black-box"}

\* A word of the command: a flag; a flag and its value in one word, --model=x; or a value.
\* A value has a name and what is before its slash, if it has one.
Flag(name) == [is |-> "flag", name |-> name]
Joined(name, value) == [is |-> "joined", name |-> name, value |-> value]
Value(name, slash) == [is |-> "value", name |-> name, slash |-> slash]
Empty == Value("", FALSE)
Values == [is : {"value"}, name : STRING, slash : BOOLEAN]
CommandWords == [is : {"flag"}, name : STRING] \cup [is : {"joined"}, name : STRING, value : Values] \cup Values

\* A model's name, its beginning or what is before its slash, tells who serves it.
egress_endpoints_for_model(value) == {value.name} \cap Vendors

\* The word after the first flag of that name.
extract_flag_value(cmd, name) ==
  LET first == {i \in DOMAIN cmd : cmd[i] = Flag(name) /\ \A j \in 1 .. i - 1 : cmd[j] # Flag(name)}
  IN  {cmd[i + 1] : i \in {j \in first : j < Len(cmd)}}

\* Mutant: the flag and its value in one word are not read.
OneFormOnly(cmd) == extract_flag_value(cmd, "--model")

\* The first --model, in either form: --model= with nothing after it is passed over.
extract_model_from_cmd(cmd) ==
  LET joined(i) == cmd[i].is = "joined" /\ cmd[i].name = "--model" /\ cmd[i].value # Empty
      first == {i \in DOMAIN cmd : /\ joined(i) \/ cmd[i] = Flag("--model")
                                  /\ \A j \in 1 .. i - 1 : ~joined(j) /\ cmd[j] # Flag("--model")}
  IN  {IF joined(i) THEN cmd[i].value ELSE cmd[i + 1] : i \in {j \in first : joined(j) \/ j < Len(cmd)}}

\* pi: who is before the slash of --model, or else whom --provider names, which is taken as
\* it stands: with a slash in it it names nobody.
Whole(values) == {v \in values : ~v.slash}
egress_endpoints_for_cmd(cmd) ==
  LET model == extract_flag_value(cmd, "--model")
      named == IF \E m \in model : m.slash THEN model ELSE Whole(extract_flag_value(cmd, "--provider"))
  IN  {v.name : v \in named} \cap Vendors

effective_egress_policy(s) ==
  s.endpoints \cup
    CASE s.adapter = "claude-code" -> {"anthropic"}
      [] s.adapter = "aider" -> UNION {egress_endpoints_for_model(m) : m \in extract_model_from_cmd(s.cmd)}
      [] s.adapter = "codex" -> {"openai"}
      [] s.adapter = "pi"    -> egress_endpoints_for_cmd(s.cmd)
      [] OTHER -> {}

resolve_oci_image(s) ==
  IF s.image # "none" THEN s.image
  ELSE IF s.adapter \in {"codex", "pi"} THEN s.adapter ELSE "none"

\* A command made of options, in one word or two each: option k begins at word at[k].
Options == [name : STRING, joined : BOOLEAN, value : Values]
LaidOut(cmd, options, at) ==
  /\ at \in [DOMAIN options -> DOMAIN cmd]
  /\ \A j, k \in DOMAIN options : j < k => at[j] < at[k]
  /\ \A k \in DOMAIN options :
       LET o == options[k]
       IN  IF o.joined THEN cmd[at[k]] = Joined(o.name, o.value)
           ELSE cmd[at[k]] = Flag(o.name) /\ at[k] < Len(cmd) /\ cmd[at[k] + 1] = o.value
  /\ \A i \in DOMAIN cmd : \E k \in DOMAIN options : i = at[k] \/ (~options[k].joined /\ i = at[k] + 1)

\* Whoever serves the model that a command names may be reached, and nobody else but whom
\* the User Script names and whom the adapter always needs, wherever the option stands and,
\* for aider, however it is written (extract_model_from_cmd, egress_endpoints_for_cmd); pi's
\* options are taken to be two words each, and a --provider with a slash to serve no model.
\* An adapter's own image is for want of another.
ServerDeclared(options, s) ==
  LET names(k, name) == options[k].name = name /\ ~(options[k].joined /\ options[k].value = Empty)
      first(name) == {options[k].value : k \in {j \in DOMAIN options :
                        names(j, name) /\ \A i \in 1 .. j - 1 : ~names(i, name)}}
      model == first("--model")
      provider == IF s.adapter = "pi" /\ ~\E m \in model : m.slash
                    THEN {p \in first("--provider") : ~p.slash} ELSE model
      needs == CASE s.adapter = "claude-code" -> {"anthropic"}
                 [] s.adapter = "codex" -> {"openai"}
                 [] s.adapter = "black-box" -> {}
                 [] OTHER -> {m.name : m \in provider} \cap Vendors
  IN  (s.adapter = "pi" => \A i \in DOMAIN options : ~options[i].joined) =>
        /\ effective_egress_policy(s) = s.endpoints \cup needs
        /\ s.image # "none" => resolve_oci_image(s) = s.image
=============================================================================
