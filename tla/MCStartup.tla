------------------------------ MODULE MCStartup ------------------------------
(* Two processes, argument lists of up to three arguments.                  *)
EXTENDS Startup, TLC

CONSTANTS p1, p2, home, tmp, datadir, prefix, dir, equation, bare

Symmetric == Permutations({p1, p2})

TwoHints == <<datadir, prefix>>
AllPaths == {home, tmp, datadir, prefix, dir, equation, bare}

\* The name "equation" contains a '=' before that of dir; "bare" is --config-directory.
CutValues == [x \in AllPaths \cup {Empty} |-> IF x = equation THEN dir ELSE x]

Given(option, value) == [option |-> option, value |-> value]
Lists ==
  {<<>>, <<Given("help", Empty), Given("config", dir)>>,
   <<Given("other", prefix), Given("version", Empty), Given("other", dir)>>,
   <<Given("config", dir), Given("other", prefix), Given("help", Empty)>>}
  \cup {<<Given(o, v), Given("help", Empty)>> :
          o \in {"data", "config"}, v \in {prefix, dir, Empty}}
  \cup {<<Given("other", equation), Given("help", Empty)>>,
        <<Given("config", bare), Given("other", dir)>>,
        <<Given("other", prefix), Given("config", bare), Given("other", dir)>>,
        <<Given("config", bare), Given("other", prefix), Given("other", dir)>>}

\* Both directories are given.
BothOptions == {<<Given("data", prefix), Given("config", dir)>>}
=============================================================================
