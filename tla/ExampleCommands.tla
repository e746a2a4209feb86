--------------------------- MODULE ExampleCommands ---------------------------
(***************************************************************************)
(* What tools/validate_examples.py reads in a page: the fenced blocks, the *)
(* curl and loxicmd commands in them, and what each command does.          *)
(*                                                                         *)
(* A page is a sequence of lines, a line is a string of a small vocabulary *)
(* and a command stands on one line, as the sequence of its tokens.        *)
(***************************************************************************)
EXTENDS Integers, SequencesExt

CONSTANTS Commands,     \* lines with a command
          Tokens,       \* command -> its shell tokens
          Options,      \* tokens that begin with "-"
          JoinedMethod, \* "--request=DELETE" and the like -> the method
          JoinedData,   \* "--data=..." and the like
          Route,        \* URL token -> management route, or NoRoute
          NoRoute,
          Operations,   \* <<method, route>> in the frozen Swagger files
          CliContract,  \* command path of the CLI -> where it is, its options and enums
          ValueFlags,   \* options of the CLI that take a value
          Mentions      \* line -> which of Words its text has

ASSUME CommandsAssumption ==
    /\ \A c \in Commands : Tokens[c] \in Seq(STRING) /\ Tokens[c] # <<>>
    /\ \A p \in DOMAIN CliContract :
          /\ CliContract[p].available \subseteq {"main", "release"}
          /\ CliContract[p].release \subseteq CliContract[p].main
          /\ CliContract[p].main \subseteq Options
    /\ ValueFlags \subseteq Options
    /\ \A l \in DOMAIN Mentions : Mentions[l] \subseteq {"loxicmd", "curl", "control API"}

(* A comment with a command in it, and the marker of what no release has.  *)
Comment == "comment"
MainOnly == "CLI availability: main-only"

MutatingMethods == {"POST", "PUT", "PATCH", "DELETE"}
MutatingVerbs == {"create", "delete", "set", "apply"}
MutatingCliCommands == {<<"appliance", "restore", "execute">>}

----------------------------------------------------------------------------
(* Fences.  An opening line has three backticks and a language or nothing; *)
(* with anything more, as a title, it is not seen as one (the site renders *)
(* it: pymdownx.superfences).                                              *)
Openings == {"fence bash", "fence"}
Closing == "fence"
Language(line) == IF line = Closing THEN "plain" ELSE "bash"

(* Lines that open a block, when a block ends with the next closing line.  *)
OpeningLines(page, openings) ==
    LET in[i \in 0..Len(page)] ==
          IF i = 0 THEN FALSE
          ELSE IF in[i - 1] THEN page[i] # Closing
          ELSE page[i] \in openings
    IN  {i \in 1..Len(page) : ~in[i - 1] /\ in[i]}

(* markdown_blocks: a block begins after its opening line, and ends before *)
(* the next line of only backticks or with the page.                       *)
MarkdownBlocks(page) ==
    LET end(i) == Min({j \in (i + 1)..Len(page) : page[j] = Closing} \cup {Len(page) + 1})
    IN  {[line |-> i + 1, language |-> Language(page[i]),
          text |-> SubSeq(page, i + 1, end(i) - 1)]
             : i \in OpeningLines(page, Openings)}

(* extract_shell_commands, in a block of any language: a line that is a    *)
(* comment is not a command.                                               *)
ShellCommands(text, executable) ==
    {Tokens[text[i]] : i \in {i \in DOMAIN text :
                                text[i] \in Commands /\ Tokens[text[i]][1] = executable}}

----------------------------------------------------------------------------
(* _curl_details: options that take the next token hide it. *)
RequestOptions == {"-X", "--request"}
DataOptions == {"-d", "--data", "--data-raw", "--data-binary"}

Hidden(tokens) ==
    LET h[i \in 1..Len(tokens)] ==
          i > 2 /\ ~h[i - 1] /\ tokens[i - 1] \in RequestOptions \cup DataOptions
    IN  h

Shown(tokens) == {i \in 2..Len(tokens) : ~Hidden(tokens)[i]}

Method(tokens) ==
    LET given == {i \in Shown(tokens) :
                    \/ tokens[i] \in RequestOptions /\ i < Len(tokens)
                    \/ tokens[i] \in DOMAIN JoinedMethod \cup {"-I", "--head"}}
        last == Max(given)
    IN  IF given # {} THEN CASE tokens[last] \in RequestOptions -> tokens[last + 1]
                             [] tokens[last] \in DOMAIN JoinedMethod -> JoinedMethod[tokens[last]]
                             [] OTHER -> "HEAD"
        ELSE IF \E i \in Shown(tokens) : \/ tokens[i] \in DataOptions /\ i < Len(tokens)
                                         \/ tokens[i] \in JoinedData
             THEN "POST" ELSE "GET"

(* _management_route of the last URL; nothing for another service. *)
ManagementRoute(tokens) ==
    LET urls == {i \in Shown(tokens) : tokens[i] \in DOMAIN Route}
    IN  IF urls = {} THEN NoRoute ELSE Route[tokens[Max(urls)]]

(* validate_repository of a curl command. *)
CurlAccepted(tokens) ==
    ManagementRoute(tokens) # NoRoute => <<Method(tokens), ManagementRoute(tokens)>> \in Operations

----------------------------------------------------------------------------
(* The longest command path that the arguments begin with, as a set.       *)
CommandPath(args) ==
    LET paths == {p \in DOMAIN CliContract : IsPrefix(p, args)}
    IN  {p \in paths : \A q \in paths : Len(q) <= Len(p)}

Args(tokens) == Tail(tokens)

(* validate_cli_command: persistent options may precede the path. *)
Leading(args) ==
    LET lead[i \in 0..Len(args)] ==
          i = 0 \/ /\ lead[i - 1]
                   /\ \/ args[i] \in Options
                      \/ i > 1 /\ args[i - 1] \in ValueFlags
    IN  Max({i \in 0..Len(args) : lead[i]})

PathAfterOptions(args) == CommandPath(SubSeq(args, Leading(args) + 1, Len(args)))

AllFlags == UNION {CliContract[p].main : p \in DOMAIN CliContract}

(* A command, or an option of it, that no release has needs the marker in  *)
(* its block; an option with an enum has one of its values.                *)
Released(path, text) == "release" \in CliContract[path].available \/ MainOnly \in Range(text)
Flags(path, text) == IF MainOnly \in Range(text) THEN CliContract[path].main
                     ELSE CliContract[path].release

CliAccepted(args, text) ==
    /\ \A i \in 1..Leading(args) : args[i] \in Options => args[i] \in AllFlags
    /\ PathAfterOptions(args) # {}
    /\ \A p \in PathAfterOptions(args) :
          /\ "main" \in CliContract[p].available
          /\ Released(p, text)
          /\ \A i \in DOMAIN args :
                /\ args[i] \in Options => args[i] \in Flags(p, text)
                /\ args[i] \in DOMAIN CliContract[p].enums /\ i < Len(args) =>
                      args[i + 1] \in CliContract[p].enums[args[i]]
    /\ \A i \in DOMAIN args : args[i] \in ValueFlags =>
          i < Len(args) /\ args[i + 1] \notin Options

Mutates(path) == path[1] \in MutatingVerbs \/ path \in MutatingCliCommands

(* mutation_operations: the path is looked for where the arguments begin.  *)
MutationOperations(text) ==
    LET curl == {t \in ShellCommands(text, "curl") :
                   Method(t) \in MutatingMethods /\ ManagementRoute(t) # NoRoute}
        cli == UNION {CommandPath(Args(t)) : t \in ShellCommands(text, "loxicmd")}
    IN  {<<Method(t), ManagementRoute(t)>> : t \in curl} \cup {p \in cli : Mutates(p)}
=============================================================================
