------------------------------ MODULE MCAddon ------------------------------
(* Addon with rules that overlap in host, method and pathname.             *)
EXTENDS Addon

(* A plain rule for GET, as most of example-rules.toml.                    *)
Plain == [hosts |-> {"chatgpt"}, methods |-> {"GET"}, paths |-> Paths,
          headers |-> NoHeaders, stream |-> FALSE]

(* Every method of a host and of one more.                              *)
AnyMethod == [hosts |-> {"chatgpt", "machine"}, methods |-> Methods, paths |-> Paths,
              headers |-> NoHeaders, stream |-> FALSE]

(* One pathname, with headers, streamed.                                   *)
Special == [hosts |-> {"chatgpt"}, methods |-> {"POST"}, paths |-> {"/api"},
            headers |-> "auth", stream |-> TRUE]

MCRuleLists == {<<>>, <<Plain>>, <<AnyMethod, Special>>}

(* Fewer, for the run with failing writes.                                 *)
MCFewRuleLists == {<<>>, <<Plain, Special>>}

(* Special without what follows its method.                                *)
Unfinished == [Special EXCEPT !.paths = Paths, !.headers = NoHeaders, !.stream = FALSE]

(* Of a text with rules: none of it, half a line, a whole rule, one more   *)
(* without its last keys, all.                                             *)
MCParts ==
    [list \in RuleLists |->
       IF list = <<Plain, Special>> THEN {<<>>, Broken, <<Plain>>, <<Plain, Unfinished>>, list}
       ELSE {<<>>, list}]
=============================================================================
