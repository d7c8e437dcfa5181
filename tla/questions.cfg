SPECIFICATION Spec
CONSTANTS
    ann = ann
    bob = bob
    home = home
    away = away
    Members <- MCMembers
    Communities <- MCCommunities
    At <- MCAt
    Readers = {bob}
    Titles = {t1}
    QuestionIds = {1, 2}
    Earlier <- MCEarlier
    AnswerIds = {a1}
    NoQuestion = NoQuestion
    MaxLoads <- MCMaxLoads
    Events = {"error", "reject"}
INVARIANTS
    TypeOK
    AskedOnce
    AnswersUnderTitle
    OwnQuestionsListed
