------------------------------ MODULE Thinking ------------------------------
(***************************************************************************)
(* The model-native thinking controls of scripts/thinking.py: which levels *)
(* a model has, which chat template arguments select one, and how a        *)
(* Responses request that names a level is rewritten for the model server. *)
(***************************************************************************)
Muse == {"muse-glimmer-30b", "muse-glimmer-30b-dynamic"}

Gemma == {"gemma4-31b", "gemma-4-31b-qat"}

Binary == Gemma \union {"nemotron-3.5-lightning"}

Super == "nemotron-3-super"

Models == Muse \union Binary \union {Super}

levels(model) ==
    CASE model \in Muse   -> {"low", "medium", "high", "xhigh"}
      [] model = Super    -> {"none", "low", "high"}
      [] model \in Binary -> {"none", "high"}

default_effort(model) == IF model \in Gemma THEN "none" ELSE "high"

template_kwargs(model, effort) ==
    CASE model = Super    -> [enable_thinking |-> effort # "none", low_effort |-> effort = "low"]
      [] model \in Muse   -> [reasoning_strength |-> effort]
      [] model \in Binary -> [enable_thinking |-> effort # "none"]

----------------------------------------------------------------------------
\* A request body: the model it names, its reasoning effort (Unset when there is none or it
\* is null), the names of its reasoning fields, its chat_template_kwargs, whether it,
\* `reasoning' and `chat_template_kwargs' are JSON objects at all, and whether it is nested
\* deeper than the interpreter follows.

Unset == "unset"

Foreign == "foreign"  \* any effort with a printable character that Latin-1 lacks

Effort(body, model) == IF body.effort = Unset THEN default_effort(model) ELSE body.effort

\* What translate does not answer with a ValueError.
Acceptable(body, model) ==
    /\ ~body.deep /\ body.objects
    /\ body.model = model
    /\ Effort(body, model) \in levels(model)

\* {**kwargs, **native}
Override(kwargs, native) ==
    [k \in DOMAIN kwargs \union DOMAIN native |->
        IF k \in DOMAIN native THEN native[k] ELSE kwargs[k]]

\* Mutant: the template arguments of the request win.
RequestWins(body, model) ==
    [kwargs |-> Override(template_kwargs(model, Effort(body, model)), body.kwargs),
     reasoning |-> body.reasoning \ {"effort"}]

\* The effort itself is dropped, the other reasoning fields stay.
translate(body, model) ==
    [kwargs |-> Override(body.kwargs, template_kwargs(model, Effort(body, model))),
     reasoning |-> body.reasoning \ {"effort"}]

\* What the handler has no answer to: json.loads raises RecursionError, which nobody catches,
\* or the ValueError of template_kwargs quotes an effort that no status line can hold.
Muted(body, model) ==
    body.deep \/ (body.objects /\ body.model = model /\ body.effort = Foreign)

----------------------------------------------------------------------------
\* The chat templates: the level a model thinks at when it is given these arguments.

Controls == {"enable_thinking", "low_effort", "reasoning_strength"}

TemplateLevel(model, kwargs) ==
    CASE model \in Muse -> kwargs.reasoning_strength
      [] model \notin Muse /\ ~kwargs.enable_thinking -> "none"
      [] model = Super /\ kwargs.enable_thinking -> IF kwargs.low_effort THEN "low" ELSE "high"
      [] model \in Binary /\ kwargs.enable_thinking -> "high"
=============================================================================
