-------------------------------- MODULE MCChat --------------------------------
(***************************************************************************)
(* An instance of Chat for TLC: the order agent's answers (the artifact of *)
(* a completed task, the status message of a failed one) and those of an   *)
(* agent that words the confirmation in its messages.                      *)
(***************************************************************************)
EXTENDS Chat

Part(form, out) == [form |-> form, outcome |-> out]

Task(s) ==
    [id |-> s, status |-> <<>>, artifacts |-> <<>>, history |-> <<>>,
     metadata |-> <<>>, tools |-> <<>>, correlation |-> NoId]

\* executor.py: the confirmation, or the text of the exception.
Completed(s, out) ==
    [Task(s) EXCEPT !.artifacts = <<Part("json", out)>>, !.metadata = <<s>>, !.correlation = s]

\* graph.py: build_audit_steps of a request that could not be read.
Unread(s) == [Completed(s, "pending_review") EXCEPT !.metadata = <<>>]

Raised(s) == [Task(s) EXCEPT !.status = <<Part("prose", None)>>]

MCAnswers(s, out) ==
    IF out = "error" THEN {Raised(s)}
    ELSE {Completed(s, out),
          [Completed(s, out) EXCEPT !.status = <<Part("prose", None)>>,
                                    !.metadata = <<>>, !.tools = <<s>>],
          [Completed(s, out) EXCEPT !.artifacts = <<Part("data", out)>>,
                                    !.history = <<Part("fenced", out)>>]}
         \cup (IF out = "pending_review" THEN {Unread(s)} ELSE {})

=============================================================================
