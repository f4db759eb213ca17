---------------------------- MODULE MCModeration ----------------------------
(* Moderation with a comment the spam detector catches, a message and an     *)
(* anonymous comment that are left to the AI, and an event to be ignored.    *)
EXTENDS Moderation

CONSTANTS worker, request

Plain ==
    [links |-> FALSE, suspicious_domain |-> FALSE, keywords |-> 0,
     repeated_characters |-> FALSE, repeated_words |-> FALSE]

Scam == [Plain EXCEPT !.links = TRUE, !.keywords = 2]

Comment(id, hash, text) ==
    [event_id |-> id, event_type |-> "comment", sender |-> "s", by_page |-> FALSE,
     is_echo |-> FALSE, verb_is_add |-> TRUE, has_target |-> TRUE,
     hash |-> hash, text |-> text]

MCEvents ==
    {Comment("1", "a", Scam),
     [Comment("2", "b", Plain) EXCEPT !.event_type = "message"],
     [Comment("3", "b", Plain) EXCEPT !.sender = NoSender],
     [Comment("4", "", Plain) EXCEPT !.event_type = "unknown"]}

MCAIResults ==
    {[EmptyResult EXCEPT !.is_spam = TRUE], [EmptyResult EXCEPT !.is_malicious_link = TRUE],
     [EmptyResult EXCEPT !.sentiment = "negative", !.confident = TRUE]}
=============================================================================
