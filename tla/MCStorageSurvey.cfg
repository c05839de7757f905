SPECIFICATION SurveySpec
CONSTANTS
    csi = csi
    bucket = bucket
    Provisioners = {csi, bucket}
    Unsupported = {bucket}
    NoProvisioner = NoProvisioner
    AnnotatedLists <- AllClassLists
    ProfileLists <- SomeProfileLists
INVARIANTS
    SurveyTypeOK
    DefaultIsDeterminate
    ProfilesAreJudgedAlike
\* the survey ends
CHECK_DEADLOCK FALSE
