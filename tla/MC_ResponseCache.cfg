CONSTANTS
    Requests <- MC_Requests
    Model <- MC_Model
    Text <- MC_Text
    FastScore <- MC_FastScore
    QualityScore <- MC_QualityScore
    Threshold = 9
    MaxSize = 2
    HasQuality = TRUE
    MaxStops = 2
SPECIFICATION Spec
INVARIANTS OneCallPerKey AnswersFit 
 
CHECK_DEADLOCK FALSE
