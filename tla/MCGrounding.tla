---------------------------- MODULE MCGrounding ----------------------------
(* Grounding on a few diffs with a line for each shape a claim can have. *)
EXTENDS Grounding

Line(n, t) == [file |-> "f", line |-> n, text |-> t]
SomeDiffs == {
  (* ${KEY}  KEY="secret";  "secret"  sample *)
  << [file |-> "e", line |-> 1, text |-> <<"${", "key", "}">>],
     Line(1, <<"key", "=", "quote", "secret", "quote", ";">>),
     Line(3, <<"quote", "secret", "quote">>), Line(4, <<"sample">>) >>,
  (* ${KEY}KEY  a literal call, a call, a private key, markup *)
  << Line(1, <<"${", "key", "}", "key">>), Line(2, <<"quote", "call", "quote">>),
     Line(3, <<"call">>), Line(4, <<"BEGIN">>), Line(5, <<"secret", "markup">>) >>,
  (* the call first as code; USER=secret; filler; ${secret}; a URL *)
  << Line(1, <<"call">>), Line(2, <<"quote", "call", "quote">>),
     Line(3, <<"user", "=", "secret">>), Line(4, <<"filler">>), Line(4, <<"${", "secret", "}">>),
     Line(5, <<"user", "=", "url">>) >>,
  (* a URL, a template of one, a call as a password *)
  << Line(1, <<"url">>), Line(2, <<"key", "=", "testurl">>),
     Line(3, <<"quote", "user", ":", "call", "@", "quote">>) >>,
  (* KEY=$KEY  user:$KEY  "$KEY"  KEY=os.environ["KEY"]  "$(call)" *)
  << Line(1, <<"key", "=", "$", "key">>), Line(2, <<"user", ":", "$", "key">>),
     Line(3, <<"quote", "$", "key", "quote">>), Line(4, <<"key", "=", "environ">>),
     Line(5, <<"quote", "$(", "call", "quote">>) >> }

Taken(n, t) == [file |-> "f", line |-> n, match |-> t]
SomeTakens == { {}, {Taken(1, <<"key", "=", "quote", "secret", "quote">>)},
                {Taken(1, <<"secret">>), Taken(3, <<"secret">>)} }

Values == { <<"secret">>, <<"quote", "secret", "quote">>, <<"quote", "secret", "quote", ";">>,
            <<"key">>, <<"key", "=", "secret">>, <<"key", "=", "quote", "secret", "quote">>,
            <<"key", "=", "filler">>, <<"user", "=", "secret">>, <<"filler">>, <<"sample">>,
            <<"key", "=", "quote", "quote", "secret", "quote", "quote">>,
            <<"secret", "markup">>, <<"call">>, <<"${", "key", "}">>, <<"quote", "quote">>,
            <<"user", "=", "url">>, <<"key", "=", "testurl">>, <<"url">>,
            <<"key", "=", "$", "key">>, <<"$", "key">>, <<"quote", "$", "key", "quote">>,
            <<"user", ":", "$", "key">>, <<"key", "=", "environ">>, <<"environ">>,
            <<"key", "=", "${", "key", "}">> }
Claim(k, v) == [kind |-> k, value |-> v]
SomeClaims == {Claim("credential", v) : v \in Values}
              \cup {Claim("test_data", <<"secret">>), Claim("private_key", <<"BEGIN", "secret">>),
                    Claim("private_key", <<"secret">>), Claim("credential", <<"PUBLIC">>),
                    Claim("credential", <<"BEGIN", "secret">>)}
=============================================================================
