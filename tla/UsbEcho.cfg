SPECIFICATION FairSpec
CONSTANT
    Tags = 3
INVARIANTS TypeOK BuffersApart
PROPERTIES EchoStream EchoProgress
