--------------------------- MODULE ChapterSchema ---------------------------
(***************************************************************************)
(* What the journal reads from a parsed chapter schema (schema.rs).  A     *)
(* schema version v is a record                                            *)
(*   initial      the first state declared "initial: true", or NoState     *)
(*   transitions  the transition table, in file order                      *)
(*   policy       declared section name -> append policy                   *)
(* and a transition is [from, to, on, present, nonEmpty], the last two     *)
(* being the two lists of its "requires" block (empty without one).        *)
(* Hooks only produce warnings and rendering is a projection's business,   *)
(* so neither is here.                                                     *)
(***************************************************************************)
EXTENDS Naturals, Sequences

CONSTANTS
  SchemaIds,  \* registry keys, "<schema_id>-v<version>"
  Sections,   \* section names a client or a schema may use
  States,     \* chapter state names
  NoState     \* "this schema declares no initial state"

AppendPolicies ==
  {"append-only-chain", "append-only-log", "append-once",
   "replace-forbidden", "none"}

SchemaEvents == {"append_section", "append_progress", "close_chapter"}

Transition ==
  [from: States, to: States, on: SchemaEvents,
   present: SUBSET Sections, nonEmpty: SUBSET Sections]

(* ChapterSchema::parse_str: the requires lists name declared sections;    *)
(* nothing is checked of the states the transitions mention.               *)
IsSchema(v) ==
  /\ v.initial \in States \cup {NoState}
  /\ v.transitions \in Seq(Transition)
  /\ DOMAIN v.policy \subseteq Sections
  /\ \A s \in DOMAIN v.policy : v.policy[s] \in AppendPolicies
  /\ \A i \in DOMAIN v.transitions :
        v.transitions[i].present \cup v.transitions[i].nonEmpty
            \subseteq DOMAIN v.policy

(* The table is scanned in order and the first row for (state, event) wins. *)
Fires(v, state, on, i) ==
  /\ i \in DOMAIN v.transitions
  /\ v.transitions[i].from = state
  /\ v.transitions[i].on = on
  /\ \A j \in 1 .. i - 1 :
        ~(v.transitions[j].from = state /\ v.transitions[j].on = on)

HasTransition(v, state, on) ==
  \E i \in DOMAIN v.transitions : Fires(v, state, on, i)

Declares(v, s) == s \in DOMAIN v.policy

(* The only policy the journal acts on; the other three are accepted and    *)
(* never consulted.                                                         *)
IsAppendOnce(v, s) == Declares(v, s) /\ v.policy[s] = "append-once"

(* check_sections_present and check_sections_non_empty, for the set of      *)
(* [section, blank] rows a replay returned.  blank is body_is_empty: no     *)
(* body or only white space.                                                *)
RowsSatisfy(t, rows) ==
  /\ \A s \in t.present : \E r \in rows : r.section = s
  /\ \A s \in t.nonEmpty : \E r \in rows : r.section = s /\ ~r.blank
=============================================================================
