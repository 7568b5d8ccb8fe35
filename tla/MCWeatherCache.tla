---------------------------- MODULE MCWeatherCache ----------------------------
\* Three callers; the clock runs for two TTLs.
EXTENDS WeatherCache

MCNever == -1
===============================================================================
