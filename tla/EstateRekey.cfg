SPECIFICATION Spec
CONSTANTS
    Sites <- MCSites
    Overrides <- None
    WordsOf <- MCWordsOf
    Mentions <- MCMentions
    Today <- MCToday
INVARIANTS RekeyIsJudged
