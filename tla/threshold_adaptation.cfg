SPECIFICATION CalibrationSpec
CONSTANTS
    One = 100
    Lives = {5, 30}
    Elapsed = {0, 6, 50}
    Estimates = {7, 60}
    Rate <- FalseAlarms
    Desired = 10
    MaxReviews = 1
PROPERTY TowardDesiredRate
