----------------------------- MODULE MCStatics -----------------------------
EXTENDS Statics

Plain == [cols |-> {"id", "name"}, pk |-> <<"id">>, uniques |-> <<>>,
          notNull |-> {"id"}, generated |-> {}, serial |-> {}, identity |-> {},
          always |-> {}, hasDefault |-> {}, noPatch |-> {}, noArrayCodec |-> {},
          includeDefaults |-> FALSE, view |-> FALSE]

\* Two columns to patch, apart or together.
Wide == [Plain EXCEPT !.cols = {"id", "name", "extra"}, !.notNull = {"id", "name"}]

\* A password-like column: filled by inserts, never patched.
NoPatch == [Plain EXCEPT !.cols = {"id", "name", "extra"}, !.noPatch = {"extra"}]

\* The key is a unique column; the serial id is not part of any list.
UniqueName == [Plain EXCEPT !.pk = <<>>, !.uniques = <<<<"id", "name">>, <<"name">>>>,
                            !.serial = {"id"}]

\* No single-column key: bulk functions only.
Composite == [Plain EXCEPT !.pk = <<"id", "name">>, !.notNull = {"id", "name"}]

\* No constraint in the DDL: the heuristic id, which may repeat.
Heuristic == [Plain EXCEPT !.pk = <<>>]

\* Nothing to set: the upsert is DO NOTHING.
KeyOnly == [Plain EXCEPT !.cols = {"id"}]

Generated == [Plain EXCEPT !.cols = {"id", "name", "extra"}, !.generated = {"extra"},
                           !.noArrayCodec = {"name"}]
WithDefaults == [Plain EXCEPT !.cols = {"id", "extra"}, !.hasDefault = {"extra"},
                              !.includeDefaults = TRUE]
ReadOnly == [Plain EXCEPT !.view = TRUE, !.pk = <<>>]

Tables == {Plain, Wide, Heuristic, NoPatch, UniqueName, Composite, KeyOnly, Generated, WithDefaults, ReadOnly}

\* id GENERATED ALWAYS AS IDENTITY.
Identity == {[Plain EXCEPT !.identity = {"id"}, !.always = {"id"}, !.hasDefault = {"id"}]}

MCColumn == {"id", "name", "extra"}
MCValue == {"null", "default", "x", "y"}
MCSequence == <<"x", "y">>

MCWheres == {<<>>, <<Nil>>, <<<<"name", {"x"}>>>>, <<Nil, <<"id", {"x"}>>, <<"name", {"x", "y"}>>>>}

NoField == [c \in {} |-> {}]
MCFilters ==
  {[eq |-> NoField, in |-> NoField, extra |-> <<>>],
   [eq |-> [c \in {"id"} |-> "x"], in |-> [c \in {"name"} |-> {}], extra |-> <<>>],
   [eq |-> NoField, in |-> [c \in {"name"} |-> {"x", "y"}], extra |-> <<<<"id", {"y"}>>, Nil>>]}
=============================================================================
