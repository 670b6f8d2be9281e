\* Two threads; one branch to height 1, two at height 2.
CONSTANTS
    Threads = {t1, t2}
    Roots <- MCRoots
    Start <- MCStart
    Reports <- MCReports
    StickyMax = 2
SPECIFICATION FairSpec
INVARIANTS TypeOK TrustHasEvidence
PROPERTY SilenceClearsFlag
