SPECIFICATION Spec
CONSTANTS
    N = 3
    Votes <- OneVoteEach
    Hot = {0, 2}
    LeaseTime = 2
INVARIANTS VotesAreHeld NoTwinElections
PROPERTY DecidedOnHeldVotes
