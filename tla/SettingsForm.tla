---------------------------- MODULE SettingsForm ----------------------------
(***************************************************************************)
(* The settings cards of the model configuration form: the fields that     *)
(* stored settings fill, and the settings that a save builds from fields.  *)
(* The backend keeps the settings as any mapping: a configuration written  *)
(* by another client may hold what no field can show.  Settings are        *)
(* flattened: one key stands for all keys that are shown and built alike,  *)
(* and a tool's key is TRUE where its mapping is present.                  *)
(***************************************************************************)
CONSTANTS
    Numbers,   \* what a numeric field may hold
    Words,     \* what a text field or a select may hold
    Medium, Docker, Local,   \* words that the form fills in or asks for
    Bad,       \* text that is not a number
    Blank,     \* an empty field
    Default,   \* the select item for a key that is left out
    Absent     \* a key that is not in the settings

FormAssumption ==
    /\ Absent \notin Numbers /\ Absent \notin Words /\ Absent \notin BOOLEAN
    /\ Absent \notin {Medium, Docker, Local}
    /\ Blank \notin Numbers /\ Blank \notin Words /\ Default \notin Words

VARIABLES
    card,      \* the card of the form that is used
    settings,  \* model_settings and native_tool_settings of the configuration
    form,      \* the fields of the editor
    written    \* history: the settings were written by this form

vars == <<card, settings, form, written>>

NumericKeys  == {"temperature", "timeout", "max_num_results"}
TextKeys     == {"image", "vector_store_ids", "description", "container"}
SdkChoices   == {"reasoning", "profile"}
Choices      == {"runtime", "search_context_size"}
SdkFlags     == {"store", "use_ssh_client"}
Flags        == {"external_web_access", "include_search_results", "defer_loading"}
Tools        == {"web_search", "file_search", "mcp", "tool_search", "code_interpreter"}
Keys == NumericKeys \cup TextKeys \cup SdkChoices \cup Choices \cup SdkFlags \cup Flags \cup Tools

Cards == [model   |-> {"temperature", "reasoning", "store"},
          sandbox |-> {"profile", "runtime", "image", "timeout", "use_ssh_client"},
          web     |-> {"web_search", "search_context_size", "external_web_access"},
          file    |-> {"file_search", "vector_store_ids", "max_num_results",
                       "include_search_results"},
          mcp     |-> {"mcp", "defer_loading", "tool_search", "description"},
          code    |-> {"code_interpreter", "container"}]

\* What a key may hold in the settings, and its field in the form.
Values(k) ==
    {Absent} \cup
    CASE k \in NumericKeys            -> Numbers
      [] k \in TextKeys \cup SdkChoices -> Words
      [] k \in Choices                -> {Medium, Docker, Local} \cap
                                         (IF k = "runtime" THEN {Docker, Local} ELSE {Medium})
      [] k \in SdkFlags \cup Flags    -> BOOLEAN
      [] k \in Tools                  -> {TRUE}
Entries(k) ==
    CASE k \in NumericKeys              -> Numbers \cup {Bad, Blank}
      [] k \in TextKeys                 -> Words \cup {Blank}
      [] k \in SdkChoices               -> Words \cup {Default}
      [] k \in Choices                  -> Values(k) \ {Absent}
      [] k \in SdkFlags \cup Flags \cup Tools -> BOOLEAN

-----------------------------------------------------------------------------
\* Faulty: a flag is ticked unless FALSE is stored.
ModelFieldTicked(k, value) ==
    CASE k \in NumericKeys \cup TextKeys   -> IF value = Absent THEN Blank ELSE value
      [] k \in SdkChoices                  -> IF value = Absent THEN Default ELSE value
      [] k \in SdkFlags                    -> value # FALSE

\* ModelSettingsFields and NativeToolSettingsFields: a flag is ticked where TRUE is
\* stored, a tool where its mapping is.
ModelField(k, value) ==
    CASE k \in NumericKeys \cup TextKeys   -> IF value = Absent THEN Blank ELSE value
      [] k \in SdkChoices                  -> IF value = Absent THEN Default ELSE value
      [] k \in SdkFlags                    -> value = TRUE

NativeField(k, value) ==
    CASE k \in Tools \cup Flags -> value = TRUE
      [] k = "runtime"             -> IF value = Absent THEN Local ELSE value
      [] k = "search_context_size" -> IF value = Absent THEN Medium ELSE value
      [] OTHER                     -> ModelField(k, value)

Fields(s) == [k \in Keys |-> IF k \in Cards["model"] THEN ModelField(k, s[k])
                             ELSE NativeField(k, s[k])]

\* numericField and integerField; empty text, sdk_default and an unticked SDK flag are
\* left out.
ReadField(k, entry) ==
    CASE k \in NumericKeys -> IF entry \in Numbers THEN entry ELSE Absent
      [] k \in TextKeys    -> IF entry = Blank THEN Absent ELSE entry
      [] k \in SdkChoices  -> IF entry = Default THEN Absent ELSE entry
      [] k \in SdkFlags    -> IF entry THEN TRUE ELSE Absent
      [] k \in Choices \cup Flags \cup Tools -> entry

\* buildModelSettings
BuildModelSettings(f) == [k \in Cards["model"] |-> ReadField(k, f[k])]

\* buildNativeToolSettings: what is in the form and kept.  Docker fields need the Docker
\* runtime, file search its vector stores, the code interpreter its container, and tool
\* search hosted MCP.
Kept(k, f) ==
    CASE k \in {"image", "timeout", "use_ssh_client"} -> f["runtime"] = Docker
      [] k \in Cards["web"]  -> f["web_search"]
      [] k \in Cards["file"] -> f["file_search"] /\ f["vector_store_ids"] # Blank
      [] k \in {"mcp", "defer_loading"} -> f["mcp"]
      [] k \in {"tool_search", "description"} -> f["mcp"] /\ f["tool_search"]
      [] k \in Cards["code"] -> f["code_interpreter"] /\ f["container"] # Blank
      [] OTHER -> TRUE
BuildNativeToolSettings(f) ==
    [k \in Keys \ Cards["model"] |-> IF Kept(k, f) THEN ReadField(k, f[k]) ELSE Absent]

Build(f) == [k \in Keys |-> IF k \in Cards["model"] THEN BuildModelSettings(f)[k]
                            ELSE BuildNativeToolSettings(f)[k]]

TypeOK ==
    /\ card \in DOMAIN Cards
    /\ \A k \in Keys : settings[k] \in Values(k) /\ form[k] \in Entries(k)
    /\ written \in BOOLEAN

-----------------------------------------------------------------------------
\* Settings of any client, in one card.
Init ==
    /\ card \in DOMAIN Cards
    /\ settings \in {[k \in Keys |-> IF k \in Cards[card] THEN s[k] ELSE Absent] :
                       s \in {t \in [Cards[card] -> UNION {Values(k) : k \in Keys}] :
                                \A k \in Cards[card] : t[k] \in Values(k)}}
    /\ form = Fields(settings)
    /\ written = FALSE

\* The configuration is selected anew, and the editor, keyed by it, mounts.
Open ==
    /\ form' = Fields(settings)
    /\ UNCHANGED <<card, settings, written>>

Type(k, entry) ==
    /\ form' = [form EXCEPT ![k] = entry]
    /\ UNCHANGED <<card, settings, written>>

\* updateModelConfiguration: the editor stays mounted, with what was typed.
Save ==
    /\ settings' = Build(form)
    /\ written' = TRUE
    /\ UNCHANGED <<card, form>>

Next ==
    \/ Open \/ Save
    \/ \E k \in Cards[card] : \E entry \in Entries(k) : Type(k, entry)

Spec == Init /\ [][Next]_vars

-----------------------------------------------------------------------------
\* An administrator who opens a configuration that this form wrote, and saves it as it
\* is, changes nothing: what a save leaves out is what an empty field, an unticked box or
\* the default item stands for, whatever cards were dropped for want of a required field.
ReopenedSaveKeepsSettings == written => Build(Fields(settings)) = settings

\* ReopenedSaveKeepsSettings and the types, inductive once the form has a field per key.
IInv ==
    /\ TypeOK
    /\ form = [k \in Keys |-> form[k]]
    /\ ReopenedSaveKeepsSettings
=============================================================================
