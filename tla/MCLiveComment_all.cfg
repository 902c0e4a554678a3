SPECIFICATION FairSpec
CONSTANTS
    Own = {c1}
    Other = {o1}
    Job = {j1, j2}
    NoJob = NoJob
    NoEvent = NoEvent
CHECK_DEADLOCK FALSE
INVARIANTS OneRow StatusTrue RegisteredShown SentIsShown AnswerShown
PROPERTIES CommentSettles
